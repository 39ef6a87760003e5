--------------------------- MODULE WorkflowProofs ---------------------------
(***************************************************************************)
(* std/workflow, for any flows, bodies, activities, crashes and faults:    *)
(* what ctx.call returns was computed by an execution of that activity;    *)
(* and, while the code of a flow is unchanged, what was returned is what   *)
(* a resume replays, a flow has one answer, and its timers elapse.         *)
(***************************************************************************)
EXTENDS Workflow, FiniteSetTheorems, SequenceTheorems, TLAPS

-----------------------------------------------------------------------------
(* The inductive invariant: wherever an event is, in a file, in a context  *)
(* that is installed or in one that is set aside, the value it holds for   *)
(* an activity is an execution of that activity.                           *)

\* The events that are true of the executions R.
Recordings(R) ==
    {e \in [line : {"event"}, seq : Nat, effect : Effects, val : Nat] :
        e.effect \in Activities => e.val \in 1 .. Len(R) /\ R[e.val] = e.effect}

Lines(R) ==
    Recordings(R) \union [line : {"completed"}, result : Seq(Nat)] \union {Torn, Garbage}

Contexts(R) ==
    [installed : {TRUE}, owner : Flows, mode : {"Record", "Replay"}, cursor : Nat,
     events : Seq(Recordings(R)), clock : Nat, mono : Nat, rng : Nat, grouped : BOOLEAN,
     persisted : Nat, unsynced : Nat]

Drivers(R) ==
    [st : {"new", "off", "body", "exec", "err"}, outs : Seq(Nat), act : Nat,
     prev : Contexts(R) \union {NoContext}]

\* What a call of the activity a may return.
OwnValue(R, a, v) ==
    \/ v \in 1 .. Len(R) /\ R[v] = a
    \/ v = ErrorValue /\ a \in Recovered

\* The values outs given to the body b so far, and the execution act it awaits.
Given(R, b, d) ==
    /\ d.st \in {"new", "off"} => d.outs = <<>>
    /\ \A i \in 1 .. Len(d.outs) :
          i <= Len(b) /\ (b[i] \in Activities => OwnValue(R, b[i], d.outs[i]))
    /\ d.st = "exec" => /\ Len(d.outs) < Len(b)
                        /\ d.act \in 1 .. Len(R)
                        /\ R[d.act] = b[Len(d.outs) + 1]

Files(R) == [Flows -> Seq(Lines(R))]

LogsTrue ==
    /\ ran \in Seq(Activities)
    /\ wall \in Nat
    /\ body \in [Flows -> Seq(Effects)]
    /\ cell \in Contexts(ran) \union {NoContext}
    /\ disk \in Files(ran)
    /\ stable \in Files(ran)

FlowsTrue ==
    /\ flow \in [Flows -> Drivers(ran)]
    /\ \A f \in Flows : Given(ran, body[f], flow[f])

ResultsInv == LogsTrue /\ FlowsTrue

-----------------------------------------------------------------------------
(* What the operations on a log keep of it.                                *)

\* The positions in a log are finitely many.
LEMMA PositionsFinite ==
    ASSUME NEW n \in Nat, NEW E \in SUBSET (1 .. n)
    PROVE  IsFiniteSet(E) /\ Cardinality(E) \in Nat
<1>1. IsFiniteSet(1 .. n)
  BY FS_Interval, 1 \in Int, n \in Int
<1>2. IsFiniteSet(E)
  BY <1>1, FS_Subset
<1> QED
  BY <1>2, FS_CardinalityType

\* Every rank up to the number of elements is the rank of one of them.
LEMMA RankHit ==
    ASSUME NEW n \in Nat, NEW E \in SUBSET (1 .. n), NEW k \in 1 .. Cardinality(E)
    PROVE  \E i \in E : Cardinality(E \cap 1 .. i) = k
<1> DEFINE rank == [i \in E |-> Cardinality(E \cap 1 .. i)]
           ranks == 1 .. Cardinality(E)
<1>1. IsFiniteSet(E) /\ Cardinality(E) \in Nat
  BY PositionsFinite
<1>2. ASSUME NEW i \in E
      PROVE  /\ IsFiniteSet(E \cap 1 .. i)
             /\ Cardinality(E \cap 1 .. i) \in ranks
  <2>1. E \cap 1 .. i \in SUBSET E /\ i \in E \cap 1 .. i
    OBVIOUS
  <2>2. IsFiniteSet(E \cap 1 .. i) /\ Cardinality(E \cap 1 .. i) <= Cardinality(E)
    BY <1>1, <2>1, FS_Subset
  <2>3. Cardinality(E \cap 1 .. i) \in Nat /\ Cardinality(E \cap 1 .. i) # 0
    BY <2>1, <2>2, FS_CardinalityType, FS_EmptySet
  <2> QED
    BY <1>1, <2>2, <2>3
<1>3. ASSUME NEW i \in E, NEW j \in E, i < j PROVE rank[i] # rank[j]
  <2>1. E \cap 1 .. i \in SUBSET (E \cap 1 .. j) /\ E \cap 1 .. i # E \cap 1 .. j
    BY <1>3
  <2> QED
    BY <1>2, <2>1, FS_Subset
<1>4. \A i, j \in E : rank[i] = rank[j] => i = j
  BY <1>3
<1>5. rank \in Injection(E, ranks)
  BY <1>2, <1>4 DEF Injection, IsInjective
<1>6. IsFiniteSet(ranks) /\ Cardinality(ranks) = Cardinality(E)
  BY <1>1, FS_Interval
<1>7. rank \in Surjection(E, ranks)
  BY <1>5, <1>6, FS_Injection
<1> QED
  BY <1>7 DEF Surjection

\* log_to_events keeps true events, and nothing else.
LEMMA EventsOfOK ==
    ASSUME NEW R, NEW d \in Seq(Lines(R))
    PROVE  EventsOf(d) \in Seq(Recordings(R))
<1> DEFINE events == {i \in 1 .. Len(d) : d[i].line = "event"}
<1>1. ASSUME NEW i \in events PROVE d[i] \in Recordings(R)
  <2>1. d[i] \in Lines(R) /\ d[i].line = "event"
    OBVIOUS
  <2> QED
    BY <2>1 DEF Lines, Torn, Garbage
<1>2. CASE events = 1 .. Len(d)
  <2>1. EventsOf(d) = d
    BY <1>2 DEF EventsOf
  <2>2. \A i \in 1 .. Len(d) : d[i] \in Recordings(R)
    BY <1>1, <1>2
  <2> QED
    BY <2>1, <2>2
<1>3. CASE events # 1 .. Len(d)
  <2> DEFINE at(k) == CHOOSE i \in events : Cardinality(events \cap 1 .. i) = k
  <2>1. EventsOf(d) = [k \in 1 .. Cardinality(events) |-> d[at(k)]]
    BY <1>3 DEF EventsOf
  <2>2. events \in SUBSET (1 .. Len(d)) /\ Len(d) \in Nat
    OBVIOUS
  <2>3. Cardinality(events) \in Nat
    BY <2>2, PositionsFinite
  <2> HIDE DEF events
  <2>4. ASSUME NEW k \in 1 .. Cardinality(events) PROVE at(k) \in events
    BY <2>2, RankHit
  <2>5. \A k \in 1 .. Cardinality(events) : d[at(k)] \in Recordings(R)
    BY <1>1, <2>4
  <2> HIDE DEF at
  <2> QED
    BY <2>1, <2>3, <2>5
<1> QED
  BY <1>2, <1>3

\* A set of positions that is not empty has a last one.
LEMMA LastPosition ==
    ASSUME NEW n \in Nat, NEW E \in SUBSET (1 .. n), E # {}
    PROVE  \E i \in E : \A j \in E : j <= i
<1>1. IsFiniteSet(E) /\ Cardinality(E) \in Nat /\ Cardinality(E) # 0
  BY PositionsFinite, FS_EmptySet
<1>2. PICK k \in 1 .. Cardinality(E) : k = Cardinality(E)
  BY <1>1
<1>3. PICK i \in E : Cardinality(E \cap 1 .. i) = Cardinality(E)
  BY <1>2, RankHit
<1>4. E \cap 1 .. i \in SUBSET E
  OBVIOUS
<1>5. E \cap 1 .. i = E
  BY <1>1, <1>3, <1>4, FS_Subset
<1> QED
  BY <1>3, <1>5

\* open_group_log keeps a beginning of the file.
LEMMA RepairedOK ==
    ASSUME NEW S, NEW d \in Seq(S)
    PROVE  Repaired(d) \in Seq(S) /\ Len(Repaired(d)) <= Len(d)
<1> DEFINE Last1(n) == ValidTo(d, n) /\ \A m \in n + 1 .. Len(d) : ~ValidTo(d, m)
           E == {m \in 1 .. Len(d) : ValidTo(d, m)}
<1>1. \E n \in 0 .. Len(d) : Last1(n)
  <2>1. ValidTo(d, 0)
    BY DEF ValidTo
  <2> HIDE DEF E
  <2>2. CASE E = {}
    BY <2>1, <2>2 DEF E
  <2>3. CASE E # {}
    <3>1. E \in SUBSET (1 .. Len(d)) /\ Len(d) \in Nat
      BY DEF E
    <3>2. PICK i \in E : \A j \in E : j <= i
      BY <2>3, <3>1, LastPosition
    <3> QED
      BY <3>1, <3>2 DEF E
  <2> QED
    BY <2>2, <2>3
<1>2. PICK n \in 0 .. Len(d) : Repaired(d) = SubSeq(d, 1, n)
  BY <1>1 DEF Repaired
<1> QED
  BY <1>2

\* What is appended to a log of lines in S is a log of lines in S.
LEMMA AppendedOK ==
    ASSUME NEW S, Torn \in S, Garbage \in S, NEW d \in Seq(S), NEW ls \in Seq(S)
    PROVE  Appended(d, ls) \in Seq(S)
<1>1. CASE d # <<>> /\ ls # <<>> /\ Last(d) = Torn
  <2> DEFINE mid == IF Head(ls) = Torn THEN <<Torn>> ELSE <<Garbage>>
  <2>1. Front(d) \in Seq(S) /\ Tail(ls) \in Seq(S)
    BY <1>1 DEF Front
  <2>2. mid \in Seq(S)
    OBVIOUS
  <2>3. Appended(d, ls) = Front(d) \o mid \o Tail(ls)
    BY <1>1 DEF Appended
  <2> HIDE DEF mid
  <2> QED
    BY <2>1, <2>2, <2>3
<1>2. CASE ~(d # <<>> /\ ls # <<>> /\ Last(d) = Torn)
  BY <1>2 DEF Appended
<1> QED
  BY <1>1, <1>2

\* So is what a failed write leaves of it.
LEMMA PartlyAppendedOK ==
    ASSUME NEW S, Torn \in S, Garbage \in S, NEW d \in Seq(S), NEW ls \in Seq(S),
           NEW p \in PartlyAppended(d, ls)
    PROVE  p \in Seq(S)
<1>1. PICK n \in 0 .. Len(ls) - 1, t \in {<<>>, <<Torn>>} :
             p = Appended(d, SubSeq(ls, 1, n) \o t)
  BY DEF PartlyAppended
<1>2. SubSeq(ls, 1, n) \in Seq(S) /\ t \in Seq(S)
  <2>1. <<>> \in Seq(S) /\ <<Torn>> \in Seq(S) /\ (t = <<>> \/ t = <<Torn>>)
    BY <1>1
  <2>2. \A i \in 1 .. n : ls[i] \in S
    BY <1>1
  <2>3. n \in Int /\ 1 \in Int
    BY <1>1
  <2> QED
    BY <2>1, <2>2, <2>3, SubSeqProperties
<1>3. SubSeq(ls, 1, n) \o t \in Seq(S)
  BY <1>2
<1> QED
  BY <1>1, <1>3, AppendedOK

-----------------------------------------------------------------------------
(* What the operations on a context keep of it.                            *)

\* The lines of a log that are not events.
LEMMA MarksAreLines ==
    ASSUME NEW R
    PROVE  Torn \in Lines(R) /\ Garbage \in Lines(R)
BY DEF Lines

\* A sequence of events is a log.
LEMMA EventsAreLines ==
    ASSUME NEW R, NEW s \in Seq(Recordings(R))
    PROVE  s \in Seq(Lines(R))
<1>1. Recordings(R) \subseteq Lines(R)
  BY DEF Lines
<1> QED
  BY <1>1, SeqMonotonic

\* The counters of a context may take any value.
LEMMA CountersOK ==
    ASSUME NEW R, NEW c \in Contexts(R), NEW n \in Nat
    PROVE  /\ [c EXCEPT !.cursor = n] \in Contexts(R)
           /\ [c EXCEPT !.clock = n] \in Contexts(R)
           /\ [c EXCEPT !.mono = n] \in Contexts(R)
           /\ [c EXCEPT !.rng = n] \in Contexts(R)
           /\ [c EXCEPT !.unsynced = n] \in Contexts(R)
           /\ [c EXCEPT !.unsynced = n].owner = c.owner
BY DEF Contexts

\* record_event keeps a context true when what it records is.
LEMMA RecordedOK ==
    ASSUME NEW R, NEW c \in Contexts(R), NEW e \in Effects, NEW v \in Nat,
           e \in Activities => v \in 1 .. Len(R) /\ R[v] = e
    PROVE  Recorded(c, e, v) \in Contexts(R)
<1>1. Len(c.events) \in Nat /\ c.events \in Seq(Recordings(R))
  BY DEF Contexts
<1>2. Event(Len(c.events), e, v) \in Recordings(R)
  BY <1>1 DEF Event, Recordings
<1>3. Append(c.events, Event(Len(c.events), e, v)) \in Seq(Recordings(R))
  BY <1>1, <1>2
<1> QED
  BY <1>3 DEF Recorded, Contexts

\* What an operation of the appender leaves behind.
OutcomeTrue(R, p) == p.ctx \in Contexts(R) /\ p.disk \in Files(R) /\ p.stable \in Files(R)

\* The files of the other flows are left alone.
LEMMA OutcomeOK ==
    ASSUME NEW R, disk \in Files(R), stable \in Files(R), NEW c \in Contexts(R),
           NEW d \in Seq(Lines(R)), NEW s \in Seq(Lines(R)), NEW ok
    PROVE  OutcomeTrue(R, Outcome(c, d, s, ok))
<1>1. [disk EXCEPT ![c.owner] = d] \in Files(R) /\ [stable EXCEPT ![c.owner] = s] \in Files(R)
  BY DEF Files
<1> QED
  BY <1>1 DEF OutcomeTrue, Outcome

\* A write, whether it fails or not.
LEMMA WrittenOK ==
    ASSUME NEW R, disk \in Files(R), stable \in Files(R),
           NEW c \in Contexts(R), NEW w \in Contexts(R), w.owner = c.owner,
           NEW lines \in Seq(Lines(R)), NEW p \in Written(c, w, lines)
    PROVE  OutcomeTrue(R, p)
<1>1. PICK d : d = Appended(disk[c.owner], lines)
  OBVIOUS
<1>2. PICK s : s = stable[c.owner]
  OBVIOUS
<1>3. disk[c.owner] \in Seq(Lines(R)) /\ s \in Seq(Lines(R))
  BY <1>2 DEF Files, Contexts
<1>4. d \in Seq(Lines(R))
  BY <1>1, <1>3, MarksAreLines, AppendedOK
<1>5. [w EXCEPT !.unsynced = 0] \in Contexts(R)
  BY DEF Contexts
<1>6. \/ p = Outcome([w EXCEPT !.unsynced = 0], d, IF w.unsynced = 0 THEN s ELSE d, TRUE)
      \/ p = Outcome(w, d, s, TRUE)
      \/ p = Outcome(w, d, s, FALSE)
      \/ \E q \in PartlyAppended(disk[c.owner], lines) : p = Outcome(c, q, s, FALSE)
  BY <1>1, <1>2 DEF Written
<1>7. (IF w.unsynced = 0 THEN s ELSE d) \in Seq(Lines(R))
  BY <1>3, <1>4
<1>8. \A q \in PartlyAppended(disk[c.owner], lines) : q \in Seq(Lines(R))
  BY <1>3, MarksAreLines, PartlyAppendedOK
<1> QED
  BY <1>3, <1>4, <1>5, <1>6, <1>7, <1>8, OutcomeOK, ZenonT(40)

\* pump.
LEMMA PumpedOK ==
    ASSUME NEW R, disk \in Files(R), stable \in Files(R),
           NEW c \in Contexts(R), NEW p \in Pumped(c)
    PROVE  OutcomeTrue(R, p)
<1>1. PICK lines : lines = SubSeq(c.events, c.persisted + 1, Len(c.events))
  OBVIOUS
<1>2. c.events \in Seq(Recordings(R)) /\ c.persisted \in Nat /\ c.unsynced \in Nat
  BY DEF Contexts
<1>3. lines \in Seq(Recordings(R)) /\ Len(lines) \in Nat
  <2>1. c.persisted + 1 \in Int /\ Len(c.events) \in Int
    BY <1>2
  <2>2. \A i \in c.persisted + 1 .. Len(c.events) : c.events[i] \in Recordings(R)
    BY <1>2
  <2>3. lines \in Seq(Recordings(R))
    BY <1>1, <2>1, <2>2, SubSeqProperties
  <2> QED
    BY <2>3
<1>4. PICK w : w = [c EXCEPT !.persisted = Len(c.events), !.unsynced = @ + Len(lines)]
  OBVIOUS
<1>5. w \in Contexts(R) /\ w.owner = c.owner
  <2>1. Len(c.events) \in Nat /\ c.unsynced + Len(lines) \in Nat
    BY <1>2, <1>3
  <2> QED
    BY <1>4, <2>1 DEF Contexts
<1>6. lines \in Seq(Lines(R))
  BY <1>3, EventsAreLines
<1>7. CASE c.grouped
  <2>1. p \in Written(c, w, lines)
    BY <1>1, <1>4, <1>7 DEF Pumped
  <2> QED
    BY <1>5, <1>6, <2>1, WrittenOK
<1>8. CASE ~c.grouped
  <2>1. p = Outcome(c, disk[c.owner], stable[c.owner], TRUE)
    BY <1>8 DEF Pumped
  <2>2. disk[c.owner] \in Seq(Lines(R)) /\ stable[c.owner] \in Seq(Lines(R))
    BY DEF Files, Contexts
  <2> QED
    BY <2>1, <2>2, OutcomeOK
<1> QED
  BY <1>7, <1>8

\* The context installed by run and by resume.
LEMMA ContextOK ==
    ASSUME NEW R, wall \in Nat, NEW f \in Flows, NEW mode, mode \in {"Record", "Replay"},
           NEW events \in Seq(Recordings(R))
    PROVE  Context(f, mode, events) \in Contexts(R)
<1>1. Len(events) \in Nat
  OBVIOUS
<1>2. PICK g \in BOOLEAN : g = (durability[f] = "group")
  OBVIOUS
<1> QED
  BY <1>1, <1>2 DEF Context, Contexts

\* What is recorded next is true, and so is a log that a resume reads.
LEMMA NextEventOK ==
    ASSUME NEW R, NEW c \in Contexts(R), ~Exhausted(c)
    PROVE  NextEvent(c) \in Recordings(R)
BY DEF Exhausted, NextEvent, Contexts

\* What a resume reads is a log of the same lines.
LEMMA ReadableOK ==
    ASSUME NEW S, NEW f, NEW d \in Seq(S)
    PROVE  Readable(f, d) \in Seq(S)
BY RepairedOK DEF Readable

-----------------------------------------------------------------------------
(* A new execution leaves true what was true of the earlier ones.          *)

\* An event stays true.
LEMMA RecordingsGrow ==
    ASSUME NEW R \in Seq(Activities), NEW a \in Activities
    PROVE  Recordings(R) \subseteq Recordings(Append(R, a))
BY DEF Recordings

\* So does a log,
LEMMA LinesGrow ==
    ASSUME NEW R \in Seq(Activities), NEW a \in Activities
    PROVE  Seq(Lines(R)) \subseteq Seq(Lines(Append(R, a)))
<1>1. Lines(R) \subseteq Lines(Append(R, a))
  BY RecordingsGrow DEF Lines
<1> QED
  BY <1>1, SeqMonotonic

\* a context,
LEMMA ContextsGrow ==
    ASSUME NEW R \in Seq(Activities), NEW a \in Activities
    PROVE  Contexts(R) \subseteq Contexts(Append(R, a))
<1>1. Seq(Recordings(R)) \subseteq Seq(Recordings(Append(R, a)))
  BY RecordingsGrow, SeqMonotonic
<1> QED
  BY <1>1 DEF Contexts

\* a driver,
LEMMA DriversGrow ==
    ASSUME NEW R \in Seq(Activities), NEW a \in Activities
    PROVE  Drivers(R) \subseteq Drivers(Append(R, a))
BY ContextsGrow DEF Drivers

\* the files,
LEMMA FilesGrow ==
    ASSUME NEW R \in Seq(Activities), NEW a \in Activities
    PROVE  Files(R) \subseteq Files(Append(R, a))
BY LinesGrow DEF Files

\* and what a body was given.
LEMMA GivenGrows ==
    ASSUME NEW R \in Seq(Activities), NEW a \in Activities, NEW b \in Seq(Effects),
           NEW d \in Drivers(R), Given(R, b, d)
    PROVE  Given(Append(R, a), b, d)
<1>1. \A i \in 1 .. Len(R) : i \in 1 .. Len(Append(R, a)) /\ Append(R, a)[i] = R[i]
  OBVIOUS
<1>2. \A e, v : OwnValue(R, e, v) => OwnValue(Append(R, a), e, v)
  BY <1>1, Zenon DEF OwnValue
<1> QED
  BY <1>1, <1>2 DEF Given

-----------------------------------------------------------------------------
(* What a step of one flow does to the drivers.                            *)

\* The driver before the body takes its first effect, and after its last.
LEMMA DriverOK ==
    ASSUME NEW R, NEW b, NEW st, st \in {"off", "body"},
           NEW prev \in Contexts(R) \union {NoContext}
    PROVE  Driver(st, prev) \in Drivers(R) /\ Given(R, b, Driver(st, prev))
<1>1. PICK e : e = <<>>
  OBVIOUS
<1>2. e \in Seq(Nat) /\ Len(e) = 0
  BY <1>1
<1> QED
  BY <1>1, <1>2 DEF Driver, Drivers, Given

\* An effect that returns v gives the body one value more.
LEMMA GivenMore ==
    ASSUME NEW R, NEW b \in Seq(Effects), NEW d \in Drivers(R), Given(R, b, d),
           Len(d.outs) < Len(b), NEW v \in Nat,
           b[Len(d.outs) + 1] \in Activities => OwnValue(R, b[Len(d.outs) + 1], v),
           NEW e, e = [d EXCEPT !.st = "body", !.outs = Append(d.outs, v)]
    PROVE  e \in Drivers(R) /\ Given(R, b, e)
<1>1. d.outs \in Seq(Nat) /\ Len(d.outs) \in Nat
  BY DEF Drivers
<1>2. PICK outs : outs = Append(d.outs, v) /\ outs \in Seq(Nat)
  BY <1>1, AppendProperties
<1>3. Len(outs) = Len(d.outs) + 1 /\ outs[Len(d.outs) + 1] = v
      /\ \A i \in 1 .. Len(d.outs) : outs[i] = d.outs[i]
  BY <1>1, <1>2
<1>4. e \in Drivers(R) /\ e.st = "body" /\ e.outs = outs
  BY <1>2 DEF Drivers
<1>5. ASSUME NEW i \in 1 .. Len(outs)
      PROVE  i <= Len(b) /\ (b[i] \in Activities => OwnValue(R, b[i], outs[i]))
  <2>1. CASE i = Len(d.outs) + 1
    BY <1>1, <1>3, <2>1
  <2>2. CASE i # Len(d.outs) + 1
    <3>1. i \in 1 .. Len(d.outs)
      BY <1>1, <1>3, <2>2
    <3> QED
      BY <1>3, <3>1 DEF Given
  <2> QED
    BY <2>1, <2>2
<1> QED
  BY <1>4, <1>5 DEF Given

\* A body that throws was given what it was given.
LEMMA GivenThrown ==
    ASSUME NEW R, NEW b, NEW d \in Drivers(R), Given(R, b, d),
           NEW e, e = [d EXCEPT !.st = "err"]
    PROVE  e \in Drivers(R) /\ Given(R, b, e)
<1>1. e \in Drivers(R) /\ e.st = "err" /\ e.outs = d.outs
  BY DEF Drivers
<1> QED
  BY <1>1 DEF Given

\* A body that awaits its next activity, which is the execution at the end of R.
LEMMA GivenAwaits ==
    ASSUME NEW R \in Seq(Activities), NEW b \in Seq(Effects), NEW d \in Drivers(R),
           Given(R, b, d), d.st = "body", Len(d.outs) < Len(b),
           R # <<>>, R[Len(R)] = b[Len(d.outs) + 1],
           NEW e, e = [d EXCEPT !.st = "exec", !.act = Len(R)]
    PROVE  e \in Drivers(R) /\ Given(R, b, e)
<1>1. Len(R) \in Nat \ {0} /\ Len(R) \in 1 .. Len(R)
  OBVIOUS
<1>2. e \in Drivers(R) /\ e.st = "exec" /\ e.outs = d.outs /\ e.act = Len(R)
  BY <1>1 DEF Drivers
<1> QED
  BY <1>1, <1>2 DEF Given

\* The driver of one flow changes, and nothing is executed.
LEMMA OneDriver ==
    ASSUME FlowsTrue, UNCHANGED <<ran, body>>, NEW f \in Flows, NEW e \in Drivers(ran),
           Given(ran, body[f], e), flow' = [flow EXCEPT ![f] = e]
    PROVE  FlowsTrue'
<1>1. ran' = ran /\ body' = body
  OBVIOUS
<1>2. flow' \in [Flows -> Drivers(ran)]
  BY DEF FlowsTrue
<1>3. ASSUME NEW g \in Flows PROVE Given(ran, body[g], flow'[g])
  <2>1. flow'[g] = IF g = f THEN e ELSE flow[g]
    BY DEF FlowsTrue
  <2>2. Given(ran, body[g], flow[g])
    BY DEF FlowsTrue
  <2> QED
    BY <2>1, <2>2
<1>4. flow' \in [Flows -> Drivers(ran')]
  BY <1>1, <1>2
<1>5. \A g \in Flows : Given(ran', body'[g], flow'[g])
  BY <1>1, <1>3
<1> QED
  BY <1>4, <1>5 DEF FlowsTrue

\* The body of f is given a value that is true of its next effect.
LEMMA GiveOK ==
    ASSUME FlowsTrue, body \in [Flows -> Seq(Effects)], UNCHANGED <<ran, body>>,
           NEW f \in Flows, NEW v \in Nat, Give(f, v),
           Len(flow[f].outs) < Len(body[f]),
           body[f][Len(flow[f].outs) + 1] \in Activities =>
              OwnValue(ran, body[f][Len(flow[f].outs) + 1], v)
    PROVE  FlowsTrue'
<1>1. flow[f] \in Drivers(ran) /\ Given(ran, body[f], flow[f]) /\ body[f] \in Seq(Effects)
  BY DEF FlowsTrue
<1>2. PICK e : e = [flow[f] EXCEPT !.st = "body", !.outs = Append(flow[f].outs, v)]
  OBVIOUS
<1>3. e \in Drivers(ran) /\ Given(ran, body[f], e)
  BY <1>1, <1>2, GivenMore
<1>4. flow' = [flow EXCEPT ![f] = e]
  BY <1>1, <1>2 DEF Give, FlowsTrue, Drivers
<1> QED
  BY <1>3, <1>4, OneDriver

\* The call of a fails: the body of f ends, or is given the error.
LEMMA ThrowOK ==
    ASSUME FlowsTrue, body \in [Flows -> Seq(Effects)], UNCHANGED <<ran, body>>,
           NEW f \in Flows, NEW a, Throw(f, a),
           Len(flow[f].outs) < Len(body[f]), body[f][Len(flow[f].outs) + 1] = a
    PROVE  FlowsTrue'
<1>1. flow[f] \in Drivers(ran) /\ Given(ran, body[f], flow[f])
  BY DEF FlowsTrue
<1>2. CASE flow' = [flow EXCEPT ![f].st = "err"]
  <2>1. PICK e : e = [flow[f] EXCEPT !.st = "err"]
    OBVIOUS
  <2>2. e \in Drivers(ran) /\ Given(ran, body[f], e)
    BY <1>1, <2>1, GivenThrown
  <2>3. flow' = [flow EXCEPT ![f] = e]
    BY <1>2, <2>1
  <2> QED
    BY <2>2, <2>3, OneDriver
<1>3. CASE a \in Recovered /\ Give(f, ErrorValue)
  <2>1. ErrorValue \in Nat /\ OwnValue(ran, a, ErrorValue)
    BY <1>3 DEF ErrorValue, OwnValue
  <2> QED
    BY <1>3, <2>1, GiveOK
<1> QED
  BY <1>2, <1>3 DEF Throw

\* The flow of the installed context, and what that context says.
LEMMA Steps ==
    ASSUME LogsTrue, NEW f, MayStep(f)
    PROVE  cell \in Contexts(ran) /\ cell.owner = f
BY DEF LogsTrue, MayStep

\* A value is recorded and given to the body.
LEMMA RecordAndGiveOK ==
    ASSUME ResultsInv, NEW f \in Flows, NEW c \in Contexts(ran), NEW e \in Effects \ Activities,
           NEW v \in Nat, NEW out \in Nat, At(f, e), RecordAndGive(f, c, e, v, out)
    PROVE  ResultsInv'
<1>1. UNCHANGED <<ran, body, wall>> /\ Give(f, out)
  BY DEF RecordAndGive
<1>2. [c EXCEPT !.mode = "Record"] \in Contexts(ran)
  BY DEF Contexts
<1>3. Recorded([c EXCEPT !.mode = "Record"], e, v) \in Contexts(ran)
  BY <1>2, RecordedOK
<1>4. PICK p \in Pumped(Recorded([c EXCEPT !.mode = "Record"], e, v)) :
             cell' = p.ctx /\ disk' = p.disk /\ stable' = p.stable
  BY DEF RecordAndGive
<1>5. OutcomeTrue(ran, p)
  BY <1>3, <1>4, PumpedOK DEF ResultsInv, LogsTrue
<1>6. LogsTrue'
  BY <1>1, <1>4, <1>5 DEF ResultsInv, LogsTrue, OutcomeTrue
<1>7. FlowsTrue'
  BY <1>1, GiveOK DEF At, ResultsInv, LogsTrue
<1> QED
  BY <1>6, <1>7 DEF ResultsInv

\* A recorded value is given to the body.
LEMMA ReplayAndGiveOK ==
    ASSUME ResultsInv, NEW f \in Flows, NEW c \in Contexts(ran), NEW v \in Nat,
           NEW e, At(f, e), e \in Activities => OwnValue(ran, e, v),
           ReplayAndGive(f, c, v)
    PROVE  ResultsInv'
<1>1. UNCHANGED <<ran, body, wall, disk, stable>> /\ Give(f, v)
  BY DEF ReplayAndGive, files
<1>2. cell' \in Contexts(ran)
  <2>1. cell' = [c EXCEPT !.cursor = c.cursor + 1]
    BY DEF ReplayAndGive
  <2>2. c.cursor + 1 \in Nat
    BY DEF Contexts
  <2> QED
    BY <2>1, <2>2, CountersOK
<1>3. LogsTrue'
  BY <1>1, <1>2 DEF ResultsInv, LogsTrue
<1>4. FlowsTrue'
  BY <1>1, GiveOK DEF At, ResultsInv, LogsTrue
<1> QED
  BY <1>3, <1>4 DEF ResultsInv

-----------------------------------------------------------------------------
(* One lemma for each action.                                              *)

\* Nothing is recorded or executed to begin with.
LEMMA InitOK == Init => ResultsInv
<1> SUFFICES ASSUME Init PROVE ResultsInv
  OBVIOUS
<1>1. PICK d : d = Driver("new", NoContext)
  OBVIOUS
<1>2. d \in Drivers(ran) /\ \A b : Given(ran, b, d)
  <2>1. PICK e : e = <<>>
    OBVIOUS
  <2>2. e \in Seq(Nat) /\ Len(e) = 0
    BY <2>1
  <2> QED
    BY <1>1, <2>1, <2>2 DEF Driver, Drivers, Given
<1>3. flow = [f \in Flows |-> d]
  BY <1>1 DEF Init
<1>4. FlowsTrue
  BY <1>2, <1>3 DEF FlowsTrue
<1>5. body \in [Flows -> Seq(Effects)]
  <2>1. \A f \in Flows : body[f] \in Seq(Effects)
    BY BodiesAreEffects DEF Init
  <2>2. body = [f \in Flows |-> body[f]]
    BY DEF Init
  <2> QED
    BY <2>1, <2>2
<1>6. ran \in Seq(Activities) /\ wall \in Nat /\ cell = NoContext
  BY DEF Init
<1>7. <<>> \in Seq(Lines(ran))
  OBVIOUS
<1>8. disk \in Files(ran) /\ stable \in Files(ran)
  BY <1>7 DEF Init, Files
<1> QED
  BY <1>4, <1>5, <1>6, <1>8 DEF ResultsInv, LogsTrue

\* workflow.run installs an empty context.
LEMMA RunOK ==
    ASSUME ResultsInv, NEW f \in Flows, Run(f)
    PROVE  ResultsInv'
<1>1. UNCHANGED <<ran, body, wall, stable>>
  BY DEF Run
<1>2. <<>> \in Seq(Recordings(ran)) /\ <<>> \in Seq(Lines(ran))
  OBVIOUS
<1>3. cell' \in Contexts(ran)
  BY <1>2, ContextOK DEF Run, Install, ResultsInv, LogsTrue
<1>4. disk' \in Files(ran)
  BY <1>2 DEF Run, ResultsInv, LogsTrue, Files
<1>5. LogsTrue'
  BY <1>1, <1>3, <1>4 DEF ResultsInv, LogsTrue
<1>6. FlowsTrue'
  BY <1>1, DriverOK, OneDriver DEF Run, Install, ResultsInv, LogsTrue
<1> QED
  BY <1>5, <1>6 DEF ResultsInv

\* workflow.resume installs what it reads from the log, or answers from it.
LEMMA ResumeOK ==
    ASSUME ResultsInv, NEW f \in Flows, Resume(f)
    PROVE  ResultsInv'
<1>1. UNCHANGED <<ran, body, wall>>
  BY DEF Resume
<1>2. PICK d : d = Readable(f, disk[f])
  OBVIOUS
<1>3. d \in Seq(Lines(ran))
  BY <1>2, ReadableOK DEF ResultsInv, LogsTrue, Files
<1>4. disk' = [disk EXCEPT ![f] = d]
      /\ stable' = [stable EXCEPT ![f] = IF Len(@) > Len(d) THEN d ELSE @]
  BY <1>2 DEF Resume
<1>5. disk' \in Files(ran) /\ stable' \in Files(ran)
  BY <1>3, <1>4 DEF ResultsInv, LogsTrue, Files
<1>6. CASE IsCompleted(d)
  <2>1. UNCHANGED <<cell, flow>>
    BY <1>2, <1>6 DEF Resume
  <2> QED
    BY <1>1, <1>5, <2>1 DEF ResultsInv, LogsTrue, FlowsTrue
<1>7. CASE ~IsCompleted(d)
  <2>1. Install(f, Context(f, "Replay", EventsOf(d)))
    BY <1>2, <1>7 DEF Resume
  <2>2. EventsOf(d) \in Seq(Recordings(ran))
    BY <1>3, EventsOfOK
  <2>3. cell' \in Contexts(ran)
    BY <2>1, <2>2, ContextOK DEF Install, ResultsInv, LogsTrue
  <2>4. LogsTrue'
    BY <1>1, <1>5, <2>3 DEF ResultsInv, LogsTrue
  <2>5. FlowsTrue'
    BY <1>1, <2>1, DriverOK, OneDriver DEF Install, ResultsInv, LogsTrue
  <2> QED
    BY <2>4, <2>5 DEF ResultsInv
<1> QED
  BY <1>6, <1>7

\* The readers are not activities.
LEMMA NotActivities == Readers \subseteq Effects \ Activities
BY BodiesAreEffects DEF Effects

\* The two clocks after a sleep, and after a replayed one.
LEMMA SleptOK ==
    ASSUME NEW R, NEW c \in Contexts(R), NEW wake \in Nat
    PROVE  /\ Advanced(c) \in Contexts(R) /\ SetNow(c, wake) \in Contexts(R)
           /\ Advanced(c).clock \in Nat
<1>1. c.clock \in Nat /\ c.mono \in Nat /\ SleepMs \in Nat
  BY OptionsKnown DEF Contexts
<1>2. PICK m \in Nat : m = IF wake > c.clock THEN c.mono + (wake - c.clock) ELSE c.mono
  BY <1>1
<1>3. SetNow(c, wake) = [c EXCEPT !.clock = wake, !.mono = m]
  BY <1>2 DEF SetNow
<1>4. PICK k \in Nat, n \in Nat : k = c.clock + SleepMs /\ n = c.mono + SleepMs
  BY <1>1
<1>5. Advanced(c) = [c EXCEPT !.clock = k, !.mono = n]
  BY <1>4 DEF Advanced
<1> QED
  BY <1>3, <1>5 DEF Contexts

\* ctx.now gives a recorded time or records one.
LEMMA NowOK ==
    ASSUME ResultsInv, NEW f \in Flows, Now(f)
    PROVE  ResultsInv'
<1>1. At(f, "now") /\ cell \in Contexts(ran)
  BY Steps DEF Now, At, ResultsInv
<1>2. cell.clock \in Nat
  BY <1>1 DEF Contexts
<1>3. "now" \in Effects \ Activities
  BY NotActivities DEF Readers
<1>4. CASE /\ Hit(cell, "now")
           /\ ReplayAndGive(f, [cell EXCEPT !.clock = NextEvent(cell).val], NextEvent(cell).val)
  <2>1. NextEvent(cell).val \in Nat
    BY <1>1, <1>4, NextEventOK DEF Hit, Recordings
  <2>2. [cell EXCEPT !.clock = NextEvent(cell).val] \in Contexts(ran)
    BY <1>1, <2>1 DEF Contexts
  <2> QED
    BY <1>1, <1>3, <1>4, <2>1, <2>2, ReplayAndGiveOK
<1>5. CASE Stray(cell, "now") /\ ReplayAndGive(f, cell, cell.clock)
  BY <1>1, <1>2, <1>3, <1>5, ReplayAndGiveOK
<1>6. CASE Exhausted(cell) /\ RecordAndGive(f, cell, "now", cell.clock, cell.clock)
  BY <1>1, <1>2, <1>3, <1>6, RecordAndGiveOK
<1> QED
  BY <1>4, <1>5, <1>6 DEF Now

\* time.monotonic alike, on its own clock.
LEMMA MonotonicOK ==
    ASSUME ResultsInv, NEW f \in Flows, Monotonic(f)
    PROVE  ResultsInv'
<1>1. At(f, "mono") /\ cell \in Contexts(ran)
  BY Steps DEF Monotonic, At, ResultsInv
<1>2. cell.clock \in Nat /\ cell.mono \in Nat
  BY <1>1 DEF Contexts
<1>3. "mono" \in Effects \ Activities
  BY NotActivities DEF Readers
<1>4. CASE /\ Hit(cell, "mono")
           /\ ReplayAndGive(f, [cell EXCEPT !.mono = NextEvent(cell).val], NextEvent(cell).val)
  <2>1. NextEvent(cell).val \in Nat
    BY <1>1, <1>4, NextEventOK DEF Hit, Recordings
  <2>2. [cell EXCEPT !.mono = NextEvent(cell).val] \in Contexts(ran)
    BY <1>1, <2>1 DEF Contexts
  <2> QED
    BY <1>1, <1>3, <1>4, <2>1, <2>2, ReplayAndGiveOK
<1>5. CASE Stray(cell, "mono") /\ ReplayAndGive(f, cell, cell.clock)
  BY <1>1, <1>2, <1>3, <1>5, ReplayAndGiveOK
<1>6. CASE Exhausted(cell) /\ RecordAndGive(f, cell, "mono", cell.mono, cell.mono)
  BY <1>1, <1>2, <1>3, <1>6, RecordAndGiveOK
<1> QED
  BY <1>4, <1>5, <1>6 DEF Monotonic

\* ctx.random and ctx.uuid give a recorded draw or record one.
LEMMA DrawOK ==
    ASSUME ResultsInv, NEW f \in Flows, Draw(f)
    PROVE  ResultsInv'
<1>1. PICK drawn : drawn = [cell EXCEPT !.rng = cell.rng + 1]
  OBVIOUS
<1>2. PICK e \in {"random", "uuid"} :
        /\ At(f, e)
        /\ \/ Hit(cell, e) /\ ReplayAndGive(f, cell, NextEvent(cell).val)
           \/ \E c \in {cell, drawn}, v \in {cell.clock, cell.rng} : ReplayAndGive(f, c, v)
           \/ RecordAndGive(f, drawn, e, cell.rng, cell.rng)
  BY <1>1 DEF Draw
<1>3. cell \in Contexts(ran)
  BY <1>2, Steps DEF At, ResultsInv
<1>4. cell.rng \in Nat /\ cell.clock \in Nat /\ drawn \in Contexts(ran)
  <2>1. cell.rng + 1 \in Nat /\ cell.rng \in Nat /\ cell.clock \in Nat
    BY <1>3 DEF Contexts
  <2> QED
    BY <1>1, <1>3, <2>1, CountersOK
<1>5. e \in Effects \ Activities
  BY <1>2, NotActivities DEF Readers
<1>6. CASE Hit(cell, e) /\ ReplayAndGive(f, cell, NextEvent(cell).val)
  <2>1. NextEvent(cell).val \in Nat
    BY <1>3, <1>6, NextEventOK DEF Hit, Recordings
  <2> QED
    BY <1>2, <1>3, <1>5, <1>6, <2>1, ReplayAndGiveOK
<1>7. CASE \E c \in {cell, drawn}, v \in {cell.clock, cell.rng} : ReplayAndGive(f, c, v)
  BY <1>2, <1>3, <1>4, <1>5, <1>7, ReplayAndGiveOK
<1>8. CASE RecordAndGive(f, drawn, e, cell.rng, cell.rng)
  BY <1>2, <1>4, <1>5, <1>8, RecordAndGiveOK
<1> QED
  BY <1>2, <1>6, <1>7, <1>8

\* ctx.sleep gives no value to the body.
LEMMA SleepOK ==
    ASSUME ResultsInv, NEW f \in Flows, Sleep(f)
    PROVE  ResultsInv'
<1>1. At(f, "sleep") /\ cell \in Contexts(ran)
  BY Steps DEF Sleep, At, ResultsInv
<1>2. "sleep" \in Effects \ Activities /\ 0 \in Nat
  BY NotActivities DEF Readers
<1>3. CASE Hit(cell, "sleep") /\ ReplayAndGive(f, SetNow(cell, NextEvent(cell).val), 0)
  <2>1. NextEvent(cell).val \in Nat
    BY <1>1, <1>3, NextEventOK DEF Hit, Recordings
  <2>2. SetNow(cell, NextEvent(cell).val) \in Contexts(ran)
    BY <1>1, <2>1, SleptOK
  <2> QED
    BY <1>1, <1>2, <1>3, <2>2, ReplayAndGiveOK
<1>4. CASE RecordAndGive(f, Advanced(cell), "sleep", Advanced(cell).clock, 0)
  <2>1. Advanced(cell) \in Contexts(ran) /\ Advanced(cell).clock \in Nat
    BY <1>1, <1>2, SleptOK
  <2> QED
    BY <1>1, <1>2, <1>4, <2>1, RecordAndGiveOK
<1> QED
  BY <1>3, <1>4 DEF Sleep

\* An activity starts: the only step that changes what has been executed.
LEMMA CallOK ==
    ASSUME ResultsInv, NEW f \in Flows, Call(f)
    PROVE  ResultsInv'
<1>1. PICK a \in Activities :
        /\ At(f, a)
        /\ \/ Hit(cell, a) /\ ReplayAndGive(f, cell, NextEvent(cell).val)
           \/ /\ Throw(f, a)
              /\ UNCHANGED <<body, cell, disk, stable, ran, wall>>
           \/ /\ cell' = [cell EXCEPT !.mode = "Record"]
              /\ flow' = [flow EXCEPT ![f].st = "exec", ![f].act = Len(ran) + 1]
              /\ ran' = Append(ran, a)
              /\ UNCHANGED <<body, disk, stable, wall>>
  BY DEF Call, files
<1>2. cell \in Contexts(ran)
  BY <1>1, Steps DEF At, ResultsInv
<1>3. CASE Hit(cell, a) /\ ReplayAndGive(f, cell, NextEvent(cell).val)
  <2>1. NextEvent(cell) \in Recordings(ran) /\ NextEvent(cell).effect = a
    BY <1>2, <1>3, NextEventOK DEF Hit
  <2>2. NextEvent(cell).val \in Nat /\ OwnValue(ran, a, NextEvent(cell).val)
    BY <1>1, <2>1 DEF Recordings, OwnValue
  <2> QED
    BY <1>1, <1>2, <1>3, <2>2, ReplayAndGiveOK
<1>4. CASE Throw(f, a) /\ UNCHANGED <<body, cell, disk, stable, ran, wall>>
  <2>1. FlowsTrue'
    BY <1>1, <1>4, ThrowOK DEF At, ResultsInv, LogsTrue
  <2> QED
    BY <1>4, <2>1 DEF ResultsInv, LogsTrue
<1>5. CASE /\ cell' = [cell EXCEPT !.mode = "Record"]
           /\ flow' = [flow EXCEPT ![f].st = "exec", ![f].act = Len(ran) + 1]
           /\ ran' = Append(ran, a)
           /\ UNCHANGED <<body, disk, stable, wall>>
  <2>1. ran \in Seq(Activities) /\ ran' \in Seq(Activities)
    BY <1>1, <1>5 DEF ResultsInv, LogsTrue
  <2>2. Len(ran') = Len(ran) + 1 /\ ran'[Len(ran')] = a /\ ran' # <<>>
    BY <1>1, <1>5, <2>1, AppendProperties
  <2>3. [cell EXCEPT !.mode = "Record"] \in Contexts(ran)
    BY <1>2 DEF Contexts
  <2>4. LogsTrue'
    BY <1>1, <1>5, <2>1, <2>3, ContextsGrow, FilesGrow DEF ResultsInv, LogsTrue
  <2>5. ASSUME NEW g \in Flows
        PROVE  /\ flow[g] \in Drivers(ran') /\ body[g] \in Seq(Effects)
               /\ Given(ran', body[g], flow[g])
    BY <1>1, <1>5, <2>1, DriversGrow, GivenGrows DEF ResultsInv, LogsTrue, FlowsTrue
  <2>6. PICK e : e = [flow[f] EXCEPT !.st = "exec", !.act = Len(ran')]
    OBVIOUS
  <2>7. flow[f].st = "body" /\ Len(flow[f].outs) < Len(body[f])
        /\ body[f][Len(flow[f].outs) + 1] = a
    BY <1>1 DEF At
  <2>8. e \in Drivers(ran') /\ Given(ran', body[f], e)
    BY <2>1, <2>2, <2>5, <2>6, <2>7, GivenAwaits
  <2>9. flow' = [flow EXCEPT ![f] = e] /\ flow \in [Flows -> Drivers(ran)]
    BY <1>5, <2>2, <2>6 DEF ResultsInv, FlowsTrue
  <2>10. \A g \in Flows : flow'[g] = IF g = f THEN e ELSE flow[g]
    BY <2>9
  <2>11. flow' \in [Flows -> Drivers(ran')]
    BY <2>5, <2>8, <2>9
  <2>12. \A g \in Flows : Given(ran', body'[g], flow'[g])
    BY <1>5, <2>5, <2>8, <2>10
  <2>13. FlowsTrue'
    BY <2>11, <2>12 DEF FlowsTrue
  <2> QED
    BY <2>4, <2>13 DEF ResultsInv
<1> QED
  BY <1>1, <1>3, <1>4, <1>5

\* What an activity may record itself.
LEMMA ReadingsOK ==
    ASSUME NEW R, NEW c \in Contexts(R), NEW x \in Readings(c)
    PROVE  x.ctx \in Contexts(R) /\ x.effect \in Effects \ Activities /\ x.val \in Nat
<1>1. PICK drawn : drawn = [c EXCEPT !.rng = c.rng + 1]
  OBVIOUS
<1>2. c.clock \in Nat /\ c.mono \in Nat /\ c.rng \in Nat /\ c.rng + 1 \in Nat
  BY DEF Contexts
<1>3. drawn \in Contexts(R) /\ Advanced(c) \in Contexts(R) /\ Advanced(c).clock \in Nat
  BY <1>1, <1>2, CountersOK, SleptOK
<1>4. Readers \subseteq Effects \ Activities
  BY NotActivities
<1>5. \/ x = [effect |-> "now", val |-> c.clock, ctx |-> c]
      \/ x = [effect |-> "mono", val |-> c.mono, ctx |-> c]
      \/ x = [effect |-> "random", val |-> c.rng, ctx |-> drawn]
      \/ x = [effect |-> "uuid", val |-> c.rng, ctx |-> drawn]
      \/ x = [effect |-> "sleep", val |-> Advanced(c).clock, ctx |-> Advanced(c)]
  BY <1>1 DEF Readings
<1> QED
  BY <1>2, <1>3, <1>4, <1>5 DEF Readers

\* It records it in the context of the flow.
LEMMA ActivityReadsOK ==
    ASSUME ResultsInv, NEW f \in Flows, ActivityReads(f)
    PROVE  ResultsInv'
<1>1. UNCHANGED <<ran, body, flow, wall>> /\ MayStep(f)
  BY DEF ActivityReads
<1>2. cell \in Contexts(ran)
  BY <1>1, Steps DEF ResultsInv
<1>3. PICK x \in Readings(cell) : \E p \in Pumped(Recorded(x.ctx, x.effect, x.val)) :
             cell' = p.ctx /\ disk' = p.disk /\ stable' = p.stable
  BY DEF ActivityReads
<1>4. Recorded(x.ctx, x.effect, x.val) \in Contexts(ran)
  BY <1>2, <1>3, ReadingsOK, RecordedOK
<1>5. PICK p \in Pumped(Recorded(x.ctx, x.effect, x.val)) :
             cell' = p.ctx /\ disk' = p.disk /\ stable' = p.stable
  BY <1>3
<1>6. OutcomeTrue(ran, p)
  BY <1>4, <1>5, PumpedOK DEF ResultsInv, LogsTrue
<1> QED
  BY <1>1, <1>5, <1>6 DEF ResultsInv, LogsTrue, FlowsTrue, OutcomeTrue

\* ctx.call records the execution it awaited under the name of its activity.
LEMMA ActivityReturnsOK ==
    ASSUME ResultsInv, NEW f \in Flows, ActivityReturns(f)
    PROVE  ResultsInv'
<1>1. UNCHANGED <<ran, body, wall>> /\ flow[f].st = "exec" /\ MayStep(f)
  BY DEF ActivityReturns
<1>2. cell \in Contexts(ran) /\ ran \in Seq(Activities)
  BY <1>1, Steps DEF ResultsInv, LogsTrue
<1>3. PICK act : act = flow[f].act
  OBVIOUS
<1>4. Len(flow[f].outs) < Len(body[f]) /\ act \in 1 .. Len(ran)
      /\ ran[act] = body[f][Len(flow[f].outs) + 1]
  BY <1>1, <1>3 DEF ResultsInv, FlowsTrue, Given
<1>5. act \in Nat /\ ran[act] \in Activities
  BY <1>2, <1>4
<1>6. ran[act] \in Effects
  BY <1>5 DEF Effects
<1>7. Recorded(cell, ran[act], act) \in Contexts(ran)
  BY <1>2, <1>4, <1>5, <1>6, RecordedOK
<1>8. PICK p \in Pumped(Recorded(cell, ran[act], act)) :
          /\ cell' = p.ctx /\ disk' = p.disk /\ stable' = p.stable
          /\ Give(f, act) \/ Throw(f, ran[act])
  BY <1>3 DEF ActivityReturns
<1>9. OutcomeTrue(ran, p)
  BY <1>7, <1>8, PumpedOK DEF ResultsInv, LogsTrue
<1>10. LogsTrue'
  BY <1>1, <1>8, <1>9 DEF ResultsInv, LogsTrue, OutcomeTrue
<1>11. CASE Give(f, act)
  <2>1. OwnValue(ran, ran[act], act)
    BY <1>4 DEF OwnValue
  <2> QED
    BY <1>1, <1>4, <1>5, <1>10, <1>11, <2>1, GiveOK DEF ResultsInv, LogsTrue
<1>12. CASE Throw(f, ran[act])
  BY <1>1, <1>4, <1>10, <1>12, ThrowOK DEF ResultsInv, LogsTrue
<1> QED
  BY <1>8, <1>11, <1>12

\* An activity that throws leaves no record.
LEMMA ActivityFailsOK ==
    ASSUME ResultsInv, NEW f \in Flows, ActivityFails(f)
    PROVE  ResultsInv'
<1>1. /\ Throw(f, ran[flow[f].act]) /\ flow[f].st = "exec"
      /\ UNCHANGED <<ran, body, wall, cell, disk, stable>>
  BY DEF ActivityFails, files
<1>2. FlowsTrue'
  <2>1. Len(flow[f].outs) < Len(body[f]) /\ body[f][Len(flow[f].outs) + 1] = ran[flow[f].act]
    BY <1>1 DEF ResultsInv, FlowsTrue, Given
  <2> QED
    BY <1>1, <2>1, ThrowOK DEF ResultsInv, LogsTrue
<1> QED
  BY <1>1, <1>2 DEF ResultsInv, LogsTrue

\* The context that was displaced comes back.
LEMMA ReturnOK ==
    ASSUME ResultsInv, NEW f \in Flows, NEW ok, Return(f, ok),
           disk' \in Files(ran), stable' \in Files(ran)
    PROVE  ResultsInv'
<1>1. UNCHANGED <<ran, body, wall>> /\ cell' = flow[f].prev
  BY DEF Return
<1>2. cell' \in Contexts(ran) \union {NoContext}
  BY <1>1 DEF ResultsInv, FlowsTrue, Drivers
<1>3. LogsTrue'
  BY <1>1, <1>2 DEF ResultsInv, LogsTrue
<1>4. FlowsTrue'
  BY <1>1, DriverOK, OneDriver DEF Return, ResultsInv
<1> QED
  BY <1>3, <1>4 DEF ResultsInv

\* The completion marker is a line.
LEMMA CompletionLinesOK ==
    ASSUME ResultsInv, NEW f \in Flows
    PROVE  CompletionLines(f) \in Seq(Lines(ran)) /\ Len(CompletionLines(f)) \in Nat
<1>1. flow[f].outs \in Seq(Nat)
  BY DEF ResultsInv, FlowsTrue, Drivers
<1>2. Completion(flow[f].outs) \in Lines(ran)
  BY <1>1 DEF Completion, Lines
<1>3. CompletionLines(f) \in Seq(Lines(ran))
  BY <1>2 DEF CompletionLines
<1> QED
  BY <1>3

\* The marker is appended, or a part of it.
LEMMA FinishGroupOK ==
    ASSUME ResultsInv, NEW f \in Flows, FinishGroup(f)
    PROVE  ResultsInv'
<1>1. cell \in Contexts(ran)
  BY Steps DEF FinishGroup, ResultsInv
<1>2. PICK n \in Nat : n = Len(CompletionLines(f))
  BY CompletionLinesOK
<1>3. PICK w : w = [cell EXCEPT !.unsynced = cell.unsynced + n]
  OBVIOUS
<1>4. w \in Contexts(ran) /\ w.owner = cell.owner
  <2>1. cell.unsynced + n \in Nat
    BY <1>1, <1>2 DEF Contexts
  <2> QED
    BY <1>1, <1>3, <2>1, CountersOK
<1>5. PICK p \in Written(cell, w, CompletionLines(f)) :
          disk' = p.disk /\ stable' = p.stable /\ Return(f, p.ok)
  BY <1>2, <1>3 DEF FinishGroup
<1>6. OutcomeTrue(ran, p)
  BY <1>1, <1>4, <1>5, CompletionLinesOK, WrittenOK DEF ResultsInv, LogsTrue
<1> QED
  BY <1>5, <1>6, ReturnOK DEF OutcomeTrue

\* The log is replaced as a whole, or left alone.
LEMMA FinishSnapshotOK ==
    ASSUME ResultsInv, NEW f \in Flows, FinishSnapshot(f)
    PROVE  ResultsInv'
<1>1. cell \in Contexts(ran)
  BY Steps DEF FinishSnapshot, ResultsInv
<1>2. PICK log : log = cell.events \o CompletionLines(f)
  OBVIOUS
<1>3. cell.events \in Seq(Lines(ran))
  BY <1>1, EventsAreLines DEF Contexts
<1>4. log \in Seq(Lines(ran))
  BY <1>2, <1>3, CompletionLinesOK
<1>5. \/ disk' = [disk EXCEPT ![f] = log]
      \/ disk' = disk
  BY <1>2 DEF FinishSnapshot, files
<1>6. \/ stable' = [stable EXCEPT ![f] = log]
      \/ stable' = stable
  BY <1>2 DEF FinishSnapshot, files
<1>7. disk' \in Files(ran) /\ stable' \in Files(ran)
  BY <1>4, <1>5, <1>6 DEF ResultsInv, LogsTrue, Files
<1>8. Return(f, TRUE) \/ Return(f, FALSE)
  BY DEF FinishSnapshot
<1> QED
  BY <1>7, <1>8, ReturnOK

\* A restart forgets every context.
LEMMA RestartOK ==
    ASSUME ResultsInv, Restart, disk' \in Files(ran), stable' \in Files(ran)
    PROVE  ResultsInv'
<1>1. UNCHANGED <<ran, body>> /\ wall' = wall + 1 /\ cell' = NoContext
  BY DEF Restart
<1>2. LogsTrue'
  BY <1>1 DEF ResultsInv, LogsTrue
<1>3. PICK e : e = Driver("off", NoContext)
  OBVIOUS
<1>4. e \in Drivers(ran) /\ \A b : Given(ran, b, e)
  BY <1>3, DriverOK
<1>5. flow' = [f \in Flows |-> IF flow[f].st = "new" THEN flow[f] ELSE e]
  BY <1>3 DEF Restart
<1>6. flow' \in [Flows -> Drivers(ran')]
  BY <1>1, <1>4, <1>5 DEF ResultsInv, FlowsTrue
<1>7. ASSUME NEW f \in Flows PROVE Given(ran, body[f], flow'[f])
  <2>1. flow'[f] = flow[f] \/ flow'[f] = e
    BY <1>5
  <2>2. Given(ran, body[f], flow[f])
    BY DEF ResultsInv, FlowsTrue
  <2> QED
    BY <1>4, <2>1, <2>2
<1>8. \A f \in Flows : Given(ran', body'[f], flow'[f])
  BY <1>1, <1>7
<1>9. FlowsTrue'
  BY <1>6, <1>8 DEF FlowsTrue
<1> QED
  BY <1>2, <1>9 DEF ResultsInv

\* A kill leaves the files, with a torn line at the end of one of them.
LEMMA KillOK ==
    ASSUME ResultsInv, Kill
    PROVE  ResultsInv'
<1>1. Restart /\ stable' = stable
  BY DEF Kill
<1>2. disk' \in Files(ran)
  <2>1. CASE disk' = disk
    BY <2>1 DEF ResultsInv, LogsTrue
  <2>2. CASE cell # NoContext /\ disk' = [disk EXCEPT ![cell.owner] = Appended(@, <<Torn>>)]
    <3>1. cell.owner \in Flows
      BY <2>2 DEF ResultsInv, LogsTrue, Contexts
    <3>2. disk[cell.owner] \in Seq(Lines(ran)) /\ <<Torn>> \in Seq(Lines(ran))
      BY <3>1, MarksAreLines DEF ResultsInv, LogsTrue, Files
    <3>3. Appended(disk[cell.owner], <<Torn>>) \in Seq(Lines(ran))
      BY <3>2, MarksAreLines, AppendedOK
    <3> QED
      BY <2>2, <3>1, <3>3 DEF ResultsInv, LogsTrue, Files
  <2> QED
    BY <2>1, <2>2 DEF Kill
<1> QED
  BY <1>1, <1>2, RestartOK DEF ResultsInv, LogsTrue

\* What is found after a loss of power are true lines, and torn ones.
LEMMA SurvivorsOK ==
    ASSUME NEW R, disk \in Files(R), stable \in Files(R), NEW f \in Flows, NEW d \in Survivors(f)
    PROVE  d \in Seq(Lines(R))
<1>1. disk[f] \in Seq(Lines(R)) /\ stable[f] \in Seq(Lines(R))
  BY DEF Files
<1>2. Len(disk[f]) \in Nat /\ Len(stable[f]) \in Nat
  BY <1>1
<1>3. \/ d = disk[f] \/ d = stable[f]
      \/ \E n \in Len(stable[f]) .. Len(disk[f]) - 1 : d \in Cut(disk[f], n)
      \/ \E n \in 0 .. Len(disk[f]) - 1 : d \in Cut(disk[f], n)
  BY DEF Survivors
<1>4. ASSUME NEW n \in 0 .. Len(disk[f]) - 1, d \in Cut(disk[f], n) PROVE d \in Seq(Lines(R))
  <2>1. n \in Int /\ 1 \in Int /\ \A i \in 1 .. n : disk[f][i] \in Lines(R)
    BY <1>1, <1>2, <1>4
  <2>2. SubSeq(disk[f], 1, n) \in Seq(Lines(R))
    BY <2>1, SubSeqProperties
  <2>3. <<Torn>> \in Seq(Lines(R))
    BY MarksAreLines
  <2>4. SubSeq(disk[f], 1, n) \o <<Torn>> \in Seq(Lines(R))
    BY <2>2, <2>3, ConcatProperties
  <2> QED
    BY <1>4, <2>2, <2>4 DEF Cut
<1>5. Len(stable[f]) .. Len(disk[f]) - 1 \subseteq 0 .. Len(disk[f]) - 1
  BY <1>2
<1> QED
  BY <1>1, <1>3, <1>4, <1>5

\* A loss of power leaves beginnings of the files.
LEMMA PowerLossOK ==
    ASSUME ResultsInv, PowerLoss
    PROVE  ResultsInv'
<1>1. PICK d \in [Flows -> UNION {Survivors(f) : f \in Flows}] :
             (\A f \in Flows : d[f] \in Survivors(f)) /\ disk' = d /\ stable' = d
  BY DEF PowerLoss
<1>2. \A f \in Flows : d[f] \in Seq(Lines(ran))
  BY <1>1, SurvivorsOK DEF ResultsInv, LogsTrue
<1>3. d \in Files(ran)
  BY <1>1, <1>2 DEF Files
<1> QED
  BY <1>1, <1>3, RestartOK DEF PowerLoss

\* New code starts with nothing given to it.
LEMMA DeployOK ==
    ASSUME ResultsInv, NEW f \in Flows, Deploy(f)
    PROVE  ResultsInv'
<1>1. UNCHANGED <<ran, wall, cell, flow, disk, stable>> /\ flow[f].st = "off"
  BY DEF Deploy, files
<1>2. PICK b \in Redeployed[f] : body' = [body EXCEPT ![f] = b]
  BY DEF Deploy
<1>3. b \in Seq(Effects)
  BY <1>2, BodiesAreEffects
<1>4. LogsTrue'
  BY <1>1, <1>2, <1>3 DEF ResultsInv, LogsTrue
<1>5. flow' \in [Flows -> Drivers(ran')]
  BY <1>1 DEF ResultsInv, FlowsTrue
<1>6. ASSUME NEW g \in Flows PROVE Given(ran, body'[g], flow[g])
  <2>1. Given(ran, body[g], flow[g])
    BY DEF ResultsInv, FlowsTrue
  <2>2. body'[g] = IF g = f THEN b ELSE body[g]
    BY <1>2 DEF ResultsInv, LogsTrue
  <2>3. CASE g = f
    <3>1. flow[g].st = "off" /\ flow[g].outs = <<>> /\ Len(flow[g].outs) = 0
      BY <1>1, <2>1, <2>3 DEF Given
    <3> QED
      BY <3>1 DEF Given
  <2>4. CASE g # f
    BY <2>1, <2>2, <2>4
  <2> QED
    BY <2>3, <2>4
<1>7. \A g \in Flows : Given(ran', body'[g], flow'[g])
  BY <1>1, <1>6
<1>8. FlowsTrue'
  BY <1>5, <1>7 DEF FlowsTrue
<1> QED
  BY <1>4, <1>8 DEF ResultsInv

\* Every step keeps the invariant.
LEMMA ResultsStep == ResultsInv /\ [Next]_vars => ResultsInv'
<1> SUFFICES ASSUME ResultsInv, [Next]_vars PROVE ResultsInv'
  OBVIOUS
<1>1. ASSUME NEW f \in Flows, Step(f) PROVE ResultsInv'
  BY <1>1, RunOK, ResumeOK, NowOK, MonotonicOK, DrawOK, SleepOK, CallOK, ActivityReturnsOK,
     FinishGroupOK, FinishSnapshotOK DEF Step
<1>2. CASE UNCHANGED vars
  <2>1. UNCHANGED <<ran, body, wall, cell, flow, disk, stable>>
    BY <1>2 DEF vars
  <2> QED
    BY <2>1 DEF ResultsInv, LogsTrue, FlowsTrue
<1> QED
  BY <1>1, <1>2, ActivityReadsOK, ActivityFailsOK, DeployOK, KillOK, PowerLossOK DEF Next

\* A value returned by ctx.call comes from an execution of that very activity:
\* through every crash, every failed append, every repair of a torn log and
\* every change of the code between two runs.
THEOREM ResultsAreOwn == Spec => []OwnResults
<1>1. ResultsInv => OwnResults
  <2> SUFFICES ASSUME ResultsInv, NEW f \in Flows, NEW i \in 1 .. Len(flow[f].outs),
                      body[f][i] \in Activities
               PROVE  IF flow[f].outs[i] = ErrorValue THEN body[f][i] \in Recovered
                      ELSE ran[flow[f].outs[i]] = body[f][i]
    BY DEF OwnResults
  <2>1. OwnValue(ran, body[f][i], flow[f].outs[i])
    BY DEF ResultsInv, FlowsTrue, Given
  <2> QED
    BY <2>1 DEF OwnValue, ErrorValue
<1> QED
  BY <1>1, InitOK, ResultsStep, PTL DEF Spec

-----------------------------------------------------------------------------
(* Replay.  The second invariant speaks of a flow that is regular: b is    *)
(* its body and dur its durability.                                        *)

\* The effects that read or move the clock, and the time that the sleeps after
\* the i-th effect take up to the j-th.
Clocked(b, i) == b[i] \in {"now", "sleep"}
Slept(b, i, j) == SleepMs * Cardinality({k \in i + 1 .. j : b[k] = "sleep"})

\* A log of the body b: events in the order of its effects, each with its number
\* and with times that no sleep between two of them contradicts; only the
\* last line may be something else.
Follows(b, r) ==
    /\ \A i \in 1 .. Len(r) : i < Len(r) => r[i].line = "event"
    /\ \A i \in 1 .. Len(r) : r[i].line = "event" =>
          i <= Len(b) /\ r[i].effect = b[i] /\ r[i].seq = i - 1
    /\ \A i, j \in 1 .. Len(r) :
          i <= j /\ r[i].line = "event" /\ r[j].line = "event" /\ Clocked(b, i) /\ Clocked(b, j) =>
             r[j].val >= r[i].val + Slept(b, i, j)
    /\ \A i, j \in 1 .. Len(r) :
          i <= j /\ r[i].line = "event" /\ r[j].line = "event" /\ b[i] = "mono" /\ b[j] = "mono" =>
             r[j].val >= r[i].val

\* The values vs are those of the first events of r.
Read(vs, r) ==
    \A i \in 1 .. Len(vs) : i <= Len(r) /\ r[i].line = "event" /\ vs[i] = ValueOf(r[i])

\* x is a beginning of y.
Begins(x, y) == \A i \in 1 .. Len(x) : i <= Len(y) /\ x[i] = y[i]

\* No run has come to its end in the file d.
Unmarked(d) == \A i \in 1 .. Len(d) : d[i].line # "completed"

\* What a resume reads of the file d.
Shown(dur, d) == IF dur = "group" THEN Repaired(d) ELSE d

\* The valid part of d is its first n lines.
ValidPart(d, n) ==
    n \in 0 .. Len(d) /\ ValidTo(d, n) /\ (n = Len(d) \/ ~ValidTo(d, n + 1))

\* The lines behind the valid part can never become valid: a torn line there
\* is the last one.
Closed(d) ==
    Len(Repaired(d)) < Len(d) /\ d[Len(Repaired(d)) + 1] = Torn => Len(d) = Len(Repaired(d)) + 1

\* The file d of a context with the events E, p of them persisted.
FileOf(E, p, d) ==
    /\ Begins(Repaired(d), E)
    /\ Len(Repaired(d)) = Len(d) => p <= Len(d)
    /\ Closed(d)

-----------------------------------------------------------------------------
(* The valid part of a log.                                                *)

\* A beginning of a valid log is valid, in whichever file it is found.
LEMMA ValidBeginning ==
    ASSUME NEW n \in Nat, NEW m \in 0 .. n, NEW d, NEW e, ValidTo(d, n),
           \A i \in 1 .. m : e[i] = d[i]
    PROVE  ValidTo(e, m)
BY DEF ValidTo

\* open_group_log keeps the valid part.
LEMMA RepairedIs ==
    ASSUME NEW S, NEW d \in Seq(S), NEW n, ValidPart(d, n)
    PROVE  /\ Repaired(d) = SubSeq(d, 1, n)
           /\ Repaired(d) \in Seq(S)
           /\ Len(Repaired(d)) = n
           /\ \A i \in 1 .. n : Repaired(d)[i] = d[i]
<1>1. n \in 0 .. Len(d) /\ n \in Nat /\ Len(d) \in Nat
  BY DEF ValidPart
<1>2. ASSUME NEW m \in 0 .. Len(d), ValidTo(d, m), m > n PROVE FALSE
  <2>1. n + 1 \in 0 .. m /\ m \in Nat /\ n # Len(d)
    BY <1>1, <1>2
  <2>2. ValidTo(d, n + 1)
    BY <1>2, <2>1, ValidBeginning
  <2> QED
    BY <2>1, <2>2 DEF ValidPart
<1> DEFINE Choice(m) == ValidTo(d, m) /\ \A k \in m + 1 .. Len(d) : ~ValidTo(d, k)
<1>3. Choice(n)
  <2>1. ASSUME NEW k \in n + 1 .. Len(d) PROVE ~ValidTo(d, k)
    BY <1>1, <1>2
  <2> QED
    BY <2>1 DEF ValidPart
<1>4. ASSUME NEW m \in 0 .. Len(d), Choice(m) PROVE m = n
  <2>1. ~(m > n)
    BY <1>2, <1>4
  <2>2. ~(m < n)
    BY <1>1, <1>4 DEF ValidPart
  <2> QED
    BY <1>1, <2>1, <2>2
<1> HIDE DEF Choice
<1>5. (CHOOSE m \in 0 .. Len(d) : Choice(m)) = n
  BY <1>1, <1>3, <1>4
<1>6. Repaired(d) = SubSeq(d, 1, n)
  BY <1>5 DEF Repaired, Choice
<1>7. n \in Int /\ 1 \in Int /\ \A i \in 1 .. n : d[i] \in S
  BY <1>1
<1> QED
  BY <1>1, <1>6, <1>7, SubSeqProperties

\* Every log has a valid part.
LEMMA HasValidPart ==
    ASSUME NEW S, NEW d \in Seq(S)
    PROVE  \E n \in Nat : ValidPart(d, n)
<1> DEFINE E == {m \in 1 .. Len(d) : ValidTo(d, m)}
<1>1. ValidTo(d, 0) /\ Len(d) \in Nat
  BY DEF ValidTo
<1> HIDE DEF E
<1>2. CASE E = {}
  <2>1. Len(d) = 0 \/ ~ValidTo(d, 0 + 1)
    BY <1>1, <1>2 DEF E
  <2>2. ValidPart(d, 0)
    BY <1>1, <2>1 DEF ValidPart
  <2> QED
    BY <2>2
<1>3. CASE E # {}
  <2>1. E \in SUBSET (1 .. Len(d))
    BY DEF E
  <2>2. PICK i \in E : \A j \in E : j <= i
    BY <1>1, <1>3, <2>1, LastPosition
  <2>3. i \in 0 .. Len(d) /\ i \in Nat /\ ValidTo(d, i)
    BY <1>1, <2>2 DEF E
  <2>4. i = Len(d) \/ ~ValidTo(d, i + 1)
    BY <1>1, <2>2, <2>3 DEF E
  <2> QED
    BY <2>3, <2>4 DEF ValidPart
<1> QED
  BY <1>2, <1>3

\* What open_group_log keeps is the valid part, and is valid as it stands.
LEMMA RepairedValid ==
    ASSUME NEW S, NEW d \in Seq(S)
    PROVE  /\ Repaired(d) \in Seq(S)
           /\ Len(Repaired(d)) \in 0 .. Len(d)
           /\ ValidPart(d, Len(Repaired(d)))
           /\ \A i \in 1 .. Len(Repaired(d)) : Repaired(d)[i] = d[i]
           /\ ValidTo(Repaired(d), Len(Repaired(d)))
<1>1. PICK n \in Nat : ValidPart(d, n)
  BY HasValidPart
<1>2. /\ Repaired(d) \in Seq(S) /\ Len(Repaired(d)) = n
      /\ \A i \in 1 .. n : Repaired(d)[i] = d[i]
  BY <1>1, RepairedIs
<1>3. n \in 0 .. Len(d) /\ ValidTo(d, n)
  BY <1>1 DEF ValidPart
<1>4. ValidTo(Repaired(d), n)
  <2>1. n \in 0 .. n
    BY <1>1
  <2> QED
    BY <1>1, <1>2, <1>3, <2>1, ValidBeginning
<1> QED
  BY <1>1, <1>2, <1>3, <1>4

\* A log that is valid to its end is left alone.
LEMMA RepairedWhole ==
    ASSUME NEW S, NEW d \in Seq(S), ValidTo(d, Len(d))
    PROVE  Repaired(d) = d
<1>1. ValidPart(d, Len(d)) /\ Len(d) \in Nat
  BY DEF ValidPart
<1>2. Repaired(d) \in Seq(S) /\ Len(Repaired(d)) = Len(d)
      /\ \A i \in 1 .. Len(d) : Repaired(d)[i] = d[i]
  BY <1>1, RepairedIs
<1> QED
  BY <1>2, SeqEqual

\* So is one that has been repaired, and one that is as long as its valid part.
LEMMA RepairedTwice ==
    ASSUME NEW S, NEW d \in Seq(S)
    PROVE  /\ Repaired(Repaired(d)) = Repaired(d)
           /\ Len(Repaired(d)) = Len(d) => Repaired(d) = d
<1>1. Repaired(d) \in Seq(S) /\ ValidTo(Repaired(d), Len(Repaired(d)))
      /\ \A i \in 1 .. Len(Repaired(d)) : Repaired(d)[i] = d[i]
  BY RepairedValid
<1>2. Repaired(Repaired(d)) = Repaired(d)
  BY <1>1, RepairedWhole
<1>3. ASSUME Len(Repaired(d)) = Len(d) PROVE Repaired(d) = d
  BY <1>1, <1>3, SeqEqual
<1> QED
  BY <1>2, <1>3

\* A log of numbered events, perhaps with a completion marker behind them, is
\* valid.
LEMMA NumberedValid ==
    ASSUME NEW d, NEW n \in Nat,
           \A i \in 1 .. n : d[i].line \in {"event", "completed"},
           \A i \in 1 .. n : d[i].line = "event" => d[i].seq = i - 1,
           \A i \in 1 .. n : i < n => d[i].line = "event"
    PROVE  ValidTo(d, n)
BY DEF ValidTo

\* A log all of whose lines are events is its events.
LEMMA AllEvents ==
    ASSUME NEW S, NEW d \in Seq(S), \A i \in 1 .. Len(d) : d[i].line = "event"
    PROVE  EventsOf(d) = d
<1>1. {i \in 1 .. Len(d) : d[i].line = "event"} = 1 .. Len(d)
  OBVIOUS
<1> QED
  BY <1>1 DEF EventsOf

\* In a log with a last line that is no event, the events are the lines before.
LEMMA EventsBefore ==
    ASSUME NEW S, NEW d \in Seq(S), Len(d) > 0, d[Len(d)].line # "event",
           \A i \in 1 .. Len(d) : i < Len(d) => d[i].line = "event"
    PROVE  /\ EventsOf(d) \in Seq(S)
           /\ Len(EventsOf(d)) = Len(d) - 1
           /\ \A i \in 1 .. Len(d) - 1 : EventsOf(d)[i] = d[i]
<1> DEFINE events == {i \in 1 .. Len(d) : d[i].line = "event"}
           n == Len(d) - 1
<1>1. n \in Nat /\ Len(d) \in Nat /\ Len(d) = n + 1
  OBVIOUS
<1>2. events = 1 .. n /\ events # 1 .. Len(d)
  BY <1>1
<1>3. EventsOf(d) = [k \in 1 .. Cardinality(1 .. n) |->
                       d[CHOOSE i \in 1 .. n : Cardinality((1 .. n) \cap 1 .. i) = k]]
  <2>1. EventsOf(d) = [k \in 1 .. Cardinality(events) |->
                          d[CHOOSE i \in events : Cardinality(events \cap 1 .. i) = k]]
    BY <1>2 DEF EventsOf
  <2> HIDE DEF events, n
  <2> QED
    BY <1>2, <2>1
<1> HIDE DEF n
<1>4. \A m \in Nat : Cardinality(1 .. m) = m
  <2>1. ASSUME NEW m \in Nat PROVE Cardinality(1 .. m) = m
    <3>1. m \in Int /\ 1 \in Int
      OBVIOUS
    <3>2. Cardinality(1 .. m) = IF 1 > m THEN 0 ELSE m - 1 + 1
      BY <3>1, FS_Interval
    <3>3. (IF 1 > m THEN 0 ELSE m - 1 + 1) = m
      OBVIOUS
    <3> QED
      BY <3>2, <3>3
  <2> QED
    BY <2>1
<1>5. ASSUME NEW i \in 1 .. n PROVE Cardinality((1 .. n) \cap 1 .. i) = i
  <2>1. (1 .. n) \cap 1 .. i = 1 .. i /\ i \in Nat
    BY <1>1
  <2> QED
    BY <1>4, <2>1
<1>6. ASSUME NEW k \in 1 .. n
      PROVE  (CHOOSE i \in 1 .. n : Cardinality((1 .. n) \cap 1 .. i) = k) = k
  BY <1>5
<1>7. EventsOf(d) = [k \in 1 .. n |-> d[k]]
  BY <1>1, <1>3, <1>4, <1>6
<1>8. \A k \in 1 .. n : d[k] \in S
  BY <1>1
<1> QED
  BY <1>1, <1>7, <1>8 DEF n

-----------------------------------------------------------------------------
(* What appending does to the valid part.                                  *)

\* A beginning of a sequence, line by line,
LEMMA BeginningOf ==
    ASSUME NEW S, NEW d \in Seq(S), NEW n \in 0 .. Len(d)
    PROVE  /\ SubSeq(d, 1, n) \in Seq(S)
           /\ Len(SubSeq(d, 1, n)) = n
           /\ \A i \in 1 .. n : SubSeq(d, 1, n)[i] = d[i]
<1>1. n \in Int /\ 1 \in Int /\ \A i \in 1 .. n : d[i] \in S
  OBVIOUS
<1> QED
  BY <1>1, SubSeqProperties

\* and two sequences one behind the other.
LEMMA Behind ==
    ASSUME NEW S, NEW x \in Seq(S), NEW y \in Seq(S)
    PROVE  /\ x \o y \in Seq(S)
           /\ Len(x \o y) = Len(x) + Len(y)
           /\ \A i \in 1 .. Len(x) : (x \o y)[i] = x[i]
           /\ \A i \in 1 .. Len(y) : (x \o y)[Len(x) + i] = y[i]
BY ConcatProperties

\* A line that was torn, or joined to one that was, is not valid.
LEMMA MarkNotValid ==
    ASSUME NEW d, NEW n \in Nat, d[n + 1] \in {Torn, Garbage}
    PROVE  ~ValidTo(d, n + 1)
<1>1. d[n + 1].line \notin {"event", "completed"} /\ n + 1 \in 1 .. n + 1
  BY DEF Torn, Garbage
<1> QED
  BY <1>1 DEF ValidTo

\* A log that is broken after n lines.
LEMMA BrokenAt ==
    ASSUME NEW S, NEW d \in Seq(S), NEW n \in Nat, n < Len(d), ValidTo(d, n), ~ValidTo(d, n + 1)
    PROVE  /\ Len(Repaired(d)) = n
           /\ Repaired(d) \in Seq(S)
           /\ \A i \in 1 .. n : Repaired(d)[i] = d[i]
           /\ (d[n + 1] = Torn => Len(d) = n + 1) => Closed(d)
<1>1. ValidPart(d, n)
  BY DEF ValidPart
<1>2. Len(Repaired(d)) = n /\ Repaired(d) \in Seq(S) /\ \A i \in 1 .. n : Repaired(d)[i] = d[i]
  BY <1>1, RepairedIs
<1> QED
  BY <1>2 DEF Closed

\* The first line of ls continues the last one of d, which is torn.
Joined(d, ls, e) ==
    /\ Len(d) > 0 /\ Len(ls) > 0 /\ d[Len(d)] = Torn
    /\ Len(e) = Len(d) + Len(ls) - 1
    /\ \A i \in 1 .. Len(d) - 1 : e[i] = d[i]
    /\ e[Len(d)] = IF ls[1] = Torn THEN Torn ELSE Garbage

\* The lines follow those of d.
Put(d, ls, e) == e = d \o ls /\ (ls = <<>> \/ d = <<>> \/ d[Len(d)] # Torn)

\* The lines of a file after an append.
LEMMA AppendedShape ==
    ASSUME NEW S, Torn \in S, Garbage \in S, NEW d \in Seq(S), NEW ls \in Seq(S),
           NEW e, e = Appended(d, ls)
    PROVE  e \in Seq(S) /\ (Put(d, ls, e) \/ Joined(d, ls, e))
<1>1. e \in Seq(S)
  BY AppendedOK
<1>2. CASE d # <<>> /\ ls # <<>> /\ Last(d) = Torn
  <2>1. PICK mid : mid = IF Head(ls) = Torn THEN <<Torn>> ELSE <<Garbage>>
    OBVIOUS
  <2>2. e = (Front(d) \o mid) \o Tail(ls)
    BY <1>2, <2>1 DEF Appended
  <2>3. Len(d) > 0 /\ Len(ls) > 0 /\ d[Len(d)] = Torn /\ Head(ls) = ls[1]
    BY <1>2 DEF Last
  <2>4. PICK fr : fr = Front(d)
    OBVIOUS
  <2>5. PICK tl : tl = Tail(ls)
    OBVIOUS
  <2>a. /\ fr \in Seq(S) /\ Len(fr) = Len(d) - 1
        /\ \A i \in 1 .. Len(d) - 1 : fr[i] = d[i]
    <3>1. fr = SubSeq(d, 1, Len(d) - 1)
      BY <2>4 DEF Front
    <3>2. Len(d) - 1 \in 0 .. Len(d)
      BY <2>3
    <3> QED
      BY <3>1, <3>2, BeginningOf
  <2>b. tl \in Seq(S) /\ Len(tl) = Len(ls) - 1
    BY <2>3, <2>5, HeadTailProperties
  <2>6. mid \in Seq(S) /\ Len(mid) = 1 /\ mid[1] = IF ls[1] = Torn THEN Torn ELSE Garbage
    BY <2>1, <2>3
  <2>c. PICK fm : fm = fr \o mid
    OBVIOUS
  <2>7. /\ fm \in Seq(S) /\ Len(fm) = Len(d)
        /\ \A i \in 1 .. Len(d) - 1 : fm[i] = d[i]
        /\ fm[Len(d)] = mid[1]
    <3>1. /\ fm \in Seq(S) /\ Len(fm) = Len(fr) + Len(mid)
          /\ \A i \in 1 .. Len(fr) : fm[i] = fr[i]
          /\ \A i \in 1 .. Len(mid) : fm[Len(fr) + i] = mid[i]
      <4>1. fr \in Seq(S) /\ mid \in Seq(S)
        BY <2>a, <2>6
      <4> QED
        BY <2>c, <4>1, Behind
    <3>2. Len(d) \in Nat /\ Len(d) - 1 + 1 = Len(d) /\ 1 \in 1 .. Len(mid)
      BY <2>3, <2>6
    <3> QED
      BY <2>a, <2>6, <3>1, <3>2
  <2>8. e = fm \o tl
    BY <2>2, <2>4, <2>5, <2>c
  <2>9. Len(e) = Len(d) + Len(ls) - 1 /\ \A i \in 1 .. Len(d) : e[i] = fm[i]
    <3>1. Len(e) = Len(fm) + Len(tl) /\ \A i \in 1 .. Len(fm) : e[i] = fm[i]
      <4>1. fm \in Seq(S) /\ tl \in Seq(S)
        BY <2>b, <2>7
      <4> QED
        BY <2>8, <4>1, Behind
    <3> QED
      BY <2>b, <2>7, <3>1
  <2>10. Len(d) \in 1 .. Len(d) /\ 1 .. Len(d) - 1 \subseteq 1 .. Len(d)
    BY <2>3
  <2> QED
    BY <1>1, <2>3, <2>6, <2>7, <2>9, <2>10 DEF Joined
<1>3. CASE ~(d # <<>> /\ ls # <<>> /\ Last(d) = Torn)
  BY <1>1, <1>3 DEF Appended, Last, Put
<1> QED
  BY <1>2, <1>3

\* Appending to a valid log.
LEMMA AppendedWhole ==
    ASSUME NEW S, NEW d \in Seq(S), NEW ls \in Seq(S), Len(Repaired(d)) = Len(d)
    PROVE  /\ Appended(d, ls) = d \o ls
           /\ ValidTo(d, Len(d))
<1>1. ValidTo(d, Len(d))
  BY RepairedValid DEF ValidPart
<1>2. ASSUME d # <<>> PROVE Last(d) # Torn
  <2>1. Len(d) \in Nat /\ Len(d) > 0
    BY <1>2
  <2>2. d[Len(d)].line \in {"event", "completed"}
    BY <1>1, <2>1 DEF ValidTo
  <2> QED
    BY <2>2 DEF Last, Torn
<1> QED
  BY <1>1, <1>2 DEF Appended

\* Appending to a log that is broken leaves it broken where it was.
LEMMA AppendedBroken ==
    ASSUME NEW S, Torn \in S, Garbage \in S, NEW d \in Seq(S), NEW ls \in Seq(S),
           Len(Repaired(d)) < Len(d), Closed(d),
           \A i \in 1 .. Len(ls) : ls[i] = Torn => i = Len(ls)
    PROVE  /\ Repaired(Appended(d, ls)) = Repaired(d)
           /\ Len(Repaired(d)) < Len(Appended(d, ls))
           /\ Closed(Appended(d, ls))
<1>a. PICK n : n = Len(Repaired(d))
  OBVIOUS
<1>b. PICK e : e = Appended(d, ls)
  OBVIOUS
<1>1. /\ n \in Nat /\ Len(d) \in Nat /\ Len(ls) \in Nat /\ n < Len(d)
      /\ ValidTo(d, n) /\ ~ValidTo(d, n + 1)
      /\ Repaired(d) \in Seq(S) /\ \A i \in 1 .. n : Repaired(d)[i] = d[i]
  BY <1>a, RepairedValid DEF ValidPart
<1>2. e \in Seq(S) /\ (Put(d, ls, e) \/ Joined(d, ls, e))
  BY <1>b, AppendedShape
<1>3. (d[n + 1] = Torn => Len(d) = n + 1)
  BY <1>1, <1>a DEF Closed
<1>4. /\ n < Len(e) /\ \A i \in 1 .. n : e[i] = d[i]
      /\ e[n + 1] = d[n + 1] \/ e[n + 1] \in {Torn, Garbage}
      /\ e[n + 1] = Torn => Len(e) = n + 1
  <2>1. CASE Put(d, ls, e)
    <3>1. Len(e) = Len(d) + Len(ls) /\ \A i \in 1 .. Len(d) : e[i] = d[i]
      BY <2>1 DEF Put
    <3>2. ASSUME e[n + 1] = Torn PROVE Len(e) = n + 1
      <4>1. d[n + 1] = Torn /\ Len(d) = n + 1
        BY <1>1, <1>3, <3>1, <3>2
      <4>2. ls = <<>>
        BY <1>1, <2>1, <4>1 DEF Put
      <4> QED
        BY <3>1, <4>1, <4>2
    <3>3. n + 1 \in 1 .. Len(d) /\ \A i \in 1 .. n : i \in 1 .. Len(d)
      BY <1>1
    <3>4. n < Len(e) /\ e[n + 1] = d[n + 1] /\ \A i \in 1 .. n : e[i] = d[i]
      BY <1>1, <3>1, <3>3
    <3> QED
      BY <3>2, <3>4
  <2>2. CASE Joined(d, ls, e)
    <3>0. Len(d) > 0 /\ Len(ls) > 0 /\ Len(e) = Len(d) + Len(ls) - 1
          /\ \A i \in 1 .. Len(d) - 1 : e[i] = d[i]
      BY <2>2 DEF Joined
    <3>1. CASE Len(d) = n + 1
      <4>1. e[n + 1] \in {Torn, Garbage} /\ (e[n + 1] = Torn => ls[1] = Torn)
        BY <2>2, <3>1 DEF Torn, Garbage, Joined
      <4>2. ls[1] = Torn => Len(ls) = 1
        <5>1. 1 \in 1 .. Len(ls)
          BY <1>1, <3>0
        <5> QED
          BY <5>1
      <4>3. n = Len(d) - 1 /\ n < Len(e) /\ (Len(ls) = 1 => Len(e) = n + 1)
        <5>1. n \in Nat /\ Len(d) \in Nat /\ Len(ls) \in Nat
          BY <1>1
        <5>2. Len(e) = Len(d) + Len(ls) - 1 /\ Len(ls) > 0
          BY <3>0
        <5>3. e \in Seq(S) /\ Len(e) \in Nat
          BY <1>2
        <5>4. n = Len(d) - 1
          BY <3>1, <5>1
        <5>5. Len(e) = n + Len(ls)
          BY <5>1, <5>2, <5>3, <5>4
        <5>6. n < Len(e)
          BY <5>1, <5>2, <5>5
        <5>7. Len(ls) = 1 => Len(e) = n + 1
          BY <5>5
        <5> QED
          BY <5>4, <5>6, <5>7
      <4> QED
        BY <3>0, <4>1, <4>2, <4>3
    <3>2. CASE Len(d) # n + 1
      <4>0. d[n + 1] # Torn
        BY <1>3, <3>2
      <4>1. n + 1 \in 1 .. Len(d) - 1 /\ d[n + 1] # Torn /\ Len(e) >= Len(d)
        <5>1. Len(e) = Len(d) + Len(ls) - 1 /\ Len(ls) > 0
          BY <3>0
        <5>2. n \in Nat /\ Len(d) \in Nat /\ Len(ls) \in Nat /\ n < Len(d)
          BY <1>1
        <5> QED
          BY <3>2, <4>0, <5>1, <5>2
      <4>2. e[n + 1] = d[n + 1] /\ \A i \in 1 .. n : i \in 1 .. Len(d) - 1
        BY <1>1, <3>0, <4>1
      <4> QED
        BY <1>1, <3>0, <4>1, <4>2
    <3> QED
      BY <3>1, <3>2
  <2> QED
    BY <1>2, <2>1, <2>2
<1>5. ValidTo(e, n)
  <2>1. n \in 0 .. n
    BY <1>1
  <2> QED
    BY <1>1, <1>4, <2>1, ValidBeginning
<1>6. ~ValidTo(e, n + 1)
  <2>1. CASE e[n + 1] = d[n + 1]
    <3>1. n + 1 \in Nat /\ n + 1 \in 0 .. n + 1 /\ \A i \in 1 .. n + 1 : d[i] = e[i]
      BY <1>1, <1>4, <2>1
    <3> QED
      BY <1>1, <3>1, ValidBeginning
  <2>2. CASE e[n + 1] \in {Torn, Garbage}
    BY <1>1, <2>2, MarkNotValid
  <2> QED
    BY <1>4, <2>1, <2>2
<1>7. /\ Len(Repaired(e)) = n /\ Repaired(e) \in Seq(S) /\ Closed(e)
      /\ \A i \in 1 .. n : Repaired(e)[i] = e[i]
  BY <1>1, <1>2, <1>4, <1>5, <1>6, BrokenAt
<1>8. Repaired(e) = Repaired(d)
  BY <1>1, <1>4, <1>7, <1>a, SeqEqual
<1> QED
  BY <1>4, <1>7, <1>8, <1>a, <1>b

\* So does a line behind a valid log that is not the next one.
LEMMA AppendedStray ==
    ASSUME NEW S, NEW d \in Seq(S), NEW ls \in Seq(S), Len(Repaired(d)) = Len(d), Len(ls) > 0,
           ls[1] = Torn => Len(ls) = 1,
           ls[1] \in {Torn, Garbage} \/ (ls[1].line = "event" /\ ls[1].seq # Len(d)),
           NEW e, e = Appended(d, ls)
    PROVE  Repaired(e) = d /\ Len(d) < Len(e) /\ Closed(e)
<1>1. e = d \o ls /\ ValidTo(d, Len(d)) /\ Len(d) \in Nat /\ Len(ls) \in Nat
  BY AppendedWhole, SMTT(20)
<1>2. e \in Seq(S) /\ Len(e) = Len(d) + Len(ls) /\ e[Len(d) + 1] = ls[1]
      /\ \A i \in 1 .. Len(d) : e[i] = d[i]
  BY <1>1
<1>3. ValidTo(e, Len(d))
  <2>1. Len(d) \in 0 .. Len(d)
    BY <1>1
  <2> QED
    BY <1>1, <1>2, <2>1, ValidBeginning
<1>4. ~ValidTo(e, Len(d) + 1)
  <2>1. CASE ls[1] \in {Torn, Garbage}
    BY <1>1, <1>2, <2>1, MarkNotValid
  <2>2. CASE ls[1].line = "event" /\ ls[1].seq # Len(d)
    <3>1. Len(d) + 1 \in 1 .. Len(d) + 1 /\ Len(d) + 1 - 1 = Len(d)
      BY <1>1
    <3> QED
      BY <1>2, <2>2, <3>1, SMTT(20) DEF ValidTo
  <2> QED
    BY <2>1, <2>2
<1>5. /\ Len(Repaired(e)) = Len(d) /\ Repaired(e) \in Seq(S) /\ Closed(e)
      /\ \A i \in 1 .. Len(d) : Repaired(e)[i] = e[i]
  <2>1. Len(d) < Len(e) /\ (e[Len(d) + 1] = Torn => Len(e) = Len(d) + 1)
    BY <1>1, <1>2, SMTT(20)
  <2> QED
    BY <1>1, <1>2, <1>3, <1>4, <2>1, BrokenAt, ZenonT(60)
<1>6. Repaired(e) = d
  BY <1>2, <1>5, SeqEqual
<1> QED
  BY <1>1, <1>2, <1>5, <1>6

\* A torn line at the end of a file takes nothing from its valid part.
LEMMA AppendedTorn ==
    ASSUME NEW S, Torn \in S, Garbage \in S, NEW d \in Seq(S), Closed(d),
           NEW e, e = Appended(d, <<Torn>>)
    PROVE  Repaired(e) = Repaired(d) /\ Closed(e) /\ e \in Seq(S)
<1>1. PICK ls : ls = <<Torn>>
  OBVIOUS
<1>2. ls \in Seq(S) /\ Len(ls) = 1 /\ ls[1] = Torn
  BY <1>1
<1>3. e \in Seq(S)
  BY <1>1, <1>2, AppendedOK
<1>4. CASE Len(Repaired(d)) < Len(d)
  <2>1. e = Appended(d, ls) /\ \A i \in 1 .. Len(ls) : ls[i] = Torn => i = Len(ls)
    BY <1>1, <1>2
  <2>2. Repaired(e) = Repaired(d) /\ Closed(e)
    BY <1>2, <1>4, <2>1, AppendedBroken, ZenonT(60)
  <2> QED
    BY <1>3, <2>2
<1>5. CASE Len(Repaired(d)) = Len(d)
  <2>0. e = Appended(d, ls) /\ Len(ls) > 0 /\ ls[1] \in {Torn, Garbage}
    BY <1>1, <1>2
  <2>1. Repaired(e) = d /\ Closed(e)
    BY <1>2, <1>5, <2>0, AppendedStray
  <2> QED
    BY <1>3, <1>5, <2>1, RepairedTwice
<1> QED
  BY <1>4, <1>5, RepairedValid

-----------------------------------------------------------------------------
(* pump: the events from the p-th on, or some of them.                     *)

\* E is a log of numbered events.
Numbered(E) == \A i \in 1 .. Len(E) : E[i].line = "event" /\ E[i].seq = i - 1

\* The part of E behind p, of m lines, perhaps with a torn line behind it.
Part(E, p, m, ls) ==
    /\ m \in 0 .. Len(E) - p
    /\ \A i \in 1 .. m : ls[i] = E[p + i]
    /\ Len(ls) = m \/ (Len(ls) = m + 1 /\ ls[m + 1] = Torn)

\* The file stays one of this context, and keeps what was valid in it.
LEMMA PumpedFile ==
    ASSUME NEW S, Torn \in S, Garbage \in S, NEW E \in Seq(S), NEW d \in Seq(S),
           NEW ls \in Seq(S), NEW p \in Nat, p <= Len(E), NEW m, Part(E, p, m, ls),
           Numbered(E), FileOf(E, p, d), NEW e, e = Appended(d, ls)
    PROVE  /\ FileOf(E, p, e)
           /\ Len(ls) = Len(E) - p => FileOf(E, Len(E), e)
           /\ Begins(Repaired(d), Repaired(e))
           /\ e \in Seq(S)
<1>1. /\ m \in Nat /\ Len(ls) \in Nat /\ Len(E) \in Nat /\ Len(d) \in Nat
      /\ p + m <= Len(E)
      /\ \A i \in 1 .. m : ls[i] = E[p + i]
      /\ Len(ls) = m \/ (Len(ls) = m + 1 /\ ls[m + 1] = Torn)
  BY DEF Part
<1>2. e \in Seq(S)
  BY AppendedShape
<1>3. ASSUME NEW i \in 1 .. Len(E) PROVE E[i] # Torn
  BY <1>3 DEF Numbered, Torn
<1>4. ASSUME NEW i \in 1 .. Len(ls), ls[i] = Torn PROVE i = Len(ls)
  <2>1. CASE i <= m
    <3>1. p + i \in 1 .. Len(E) /\ ls[i] = E[p + i]
      BY <1>1, <2>1
    <3> QED
      BY <1>3, <1>4, <3>1
  <2> QED
    BY <1>1, <2>1
<1>5. PICK n : n = Len(Repaired(d)) /\ n \in 0 .. Len(d)
  BY RepairedValid
<1>6. CASE n < Len(d)
  <2>1. Repaired(e) = Repaired(d) /\ n < Len(e) /\ Closed(e)
    BY <1>4, <1>5, <1>6, AppendedBroken DEF FileOf
  <2>2. Begins(Repaired(e), E) /\ Len(Repaired(e)) # Len(e)
    BY <1>1, <1>2, <1>5, <2>1 DEF FileOf
  <2>3. Begins(Repaired(d), Repaired(e))
    BY <1>1, <1>5, <2>1 DEF Begins
  <2> QED
    BY <1>2, <2>1, <2>2, <2>3 DEF FileOf
<1>7. CASE n = Len(d)
  <2>1. Repaired(d) = d /\ e = d \o ls /\ ValidTo(d, n)
    BY <1>5, <1>7, RepairedTwice, AppendedWhole
  <2>2. p <= n /\ n <= Len(E) /\ \A i \in 1 .. n : d[i] = E[i]
    <3>1. p <= n /\ \A i \in 1 .. n : i <= Len(E) /\ d[i] = E[i]
      BY <1>5, <1>7, <2>1 DEF FileOf, Begins
    <3> QED
      BY <1>1, <1>5, <1>7, <3>1
  <2>3. /\ Len(e) = n + Len(ls) /\ \A i \in 1 .. n : e[i] = d[i]
        /\ \A i \in 1 .. Len(ls) : e[n + i] = ls[i]
    BY <1>7, <2>1, SMTT(20)
  <2>4. CASE n = p
    <3>1. PICK k \in Nat : k = p + m /\ k <= Len(E) /\ n <= k
      <4>1. p + m \in Nat /\ n <= p + m
        BY <1>1, <2>4
      <4> QED
        BY <1>1, <4>1
    <3>2. ASSUME NEW i \in 1 .. k PROVE e[i] = E[i]
      <4>1. CASE i <= n
        BY <2>2, <2>3, <4>1
      <4>2. CASE i > n
        <5>1. i - n \in 1 .. m /\ i - n \in 1 .. Len(ls) /\ i = n + (i - n) /\ i = p + (i - n)
          BY <1>1, <2>4, <3>1, <4>2
        <5>2. PICK j : j = i - n
          OBVIOUS
        <5>3. e[n + j] = ls[j] /\ ls[j] = E[p + j]
          BY <1>1, <2>3, <5>1, <5>2, Zenon
        <5> QED
          BY <5>1, <5>2, <5>3, Zenon
      <4> QED
        BY <1>5, <4>1, <4>2
    <3>3. ValidTo(e, k)
      <4>1. \A i \in 1 .. k : e[i].line = "event" /\ e[i].seq = i - 1
        <5>1. \A i \in 1 .. k : i \in 1 .. Len(E)
          BY <1>1, <3>1
        <5> QED
          BY <3>2, <5>1 DEF Numbered
      <4> QED
        BY <3>1, <4>1, NumberedValid
    <3>4. CASE Len(ls) = m
      <4>1. Len(e) = k
        BY <2>3, <2>4, <3>1, <3>4
      <4>2. Repaired(e) = e
        BY <1>2, <3>3, <4>1, RepairedWhole
      <4>3. Begins(e, E) /\ Begins(d, e)
        BY <1>7, <2>3, <2>4, <3>1, <3>2, <4>1 DEF Begins
      <4>4. Closed(e)
        BY <4>1, <4>2 DEF Closed
      <4> QED
        BY <1>1, <1>2, <2>1, <3>1, <3>4, <4>1, <4>2, <4>3, <4>4 DEF FileOf
    <3>5. CASE Len(ls) = m + 1 /\ ls[m + 1] = Torn
      <4>1. Len(e) = k + 1 /\ e[k + 1] = Torn
        BY <1>1, <2>3, <2>4, <3>1, <3>5
      <4>2. ~ValidTo(e, k + 1)
        BY <3>1, <4>1, MarkNotValid
      <4>3. /\ Len(Repaired(e)) = k /\ Repaired(e) \in Seq(S) /\ Closed(e)
            /\ \A i \in 1 .. k : Repaired(e)[i] = e[i]
        BY <1>2, <3>1, <3>3, <4>1, <4>2, BrokenAt
      <4>4. Begins(Repaired(e), E) /\ Begins(d, Repaired(e))
        BY <1>7, <2>3, <2>4, <3>1, <3>2, <4>3 DEF Begins
      <4> QED
        BY <1>1, <1>2, <2>1, <3>1, <4>1, <4>3, <4>4 DEF FileOf
    <3> QED
      BY <1>1, <3>4, <3>5
  <2>5. CASE n # p
    <3>1. CASE Len(ls) = 0
      <4>1. e = d
        BY <2>1, <3>1
      <4>2. Len(ls) # Len(E) - p
        BY <1>1, <1>5, <2>2, <2>5, <3>1
      <4> QED
        BY <1>2, <2>1, <4>1, <4>2 DEF Begins
    <3>2. CASE Len(ls) # 0
      <4>1. ls[1] = Torn \/ (ls[1].line = "event" /\ ls[1].seq # n)
        <5>1. CASE m = 0
          BY <1>1, <3>2, <5>1
        <5>2. CASE m > 0
          <6>1. ls[1] = E[p + 1] /\ p + 1 \in 1 .. Len(E)
            BY <1>1, <5>2
          <6>2. E[p + 1].line = "event" /\ E[p + 1].seq = p
            BY <6>1 DEF Numbered
          <6> QED
            BY <2>5, <6>1, <6>2
        <5> QED
          BY <1>1, <5>1, <5>2
      <4>2. ls[1] = Torn => Len(ls) = 1
        <5>1. 1 \in 1 .. Len(ls)
          BY <1>1, <3>2
        <5> QED
          BY <1>4, <5>1
      <4>3. Repaired(e) = d /\ Len(d) < Len(e) /\ Closed(e)
        <5>1. Len(ls) > 0 /\ Len(Repaired(d)) = Len(d)
          BY <1>1, <1>5, <1>7, <3>2
        <5>2. ls[1] \in {Torn, Garbage} \/ (ls[1].line = "event" /\ ls[1].seq # Len(d))
          BY <1>7, <4>1
        <5> QED
          BY <4>2, <5>1, <5>2, AppendedStray
      <4>4. Begins(Repaired(e), E) /\ Begins(d, Repaired(e)) /\ Len(Repaired(e)) # Len(e)
        BY <1>1, <1>2, <1>7, <2>2, <4>3 DEF Begins
      <4> QED
        BY <1>2, <2>1, <4>3, <4>4 DEF FileOf
    <3> QED
      BY <3>1, <3>2
  <2> QED
    BY <2>4, <2>5
<1> QED
  BY <1>5, <1>6, <1>7

\* What a loss of power leaves of a group log: the beginning of it up to the
\* n-th line, and perhaps a torn one.
LEMMA CutValid ==
    ASSUME NEW S, Torn \in S, NEW d \in Seq(S), NEW n \in Nat, n < Len(d), NEW x \in Cut(d, n)
    PROVE  /\ x \in Seq(S)
           /\ Len(x) \in {n, n + 1}
           /\ \A i \in 1 .. n : x[i] = d[i]
           /\ Len(x) = n + 1 => x[n + 1] = Torn
           /\ Begins(Repaired(x), Repaired(d))
           /\ \A i \in 1 .. Len(Repaired(d)) : i <= n => i <= Len(Repaired(x))
<1>1. PICK y : y = SubSeq(d, 1, n)
  OBVIOUS
<1>2. y \in Seq(S) /\ Len(y) = n /\ \A i \in 1 .. n : y[i] = d[i]
  <2>1. n \in 0 .. Len(d)
    OBVIOUS
  <2> QED
    BY <1>1, <2>1, BeginningOf
<1>3. /\ x \in Seq(S)
      /\ \A i \in 1 .. n : x[i] = d[i]
      /\ Len(x) = n \/ (Len(x) = n + 1 /\ x[n + 1] = Torn)
  <2>1. CASE x = y
    BY <1>2, <2>1
  <2>2. CASE x = y \o <<Torn>>
    <3>0. PICK t : t = <<Torn>>
      OBVIOUS
    <3>1. t \in Seq(S) /\ Len(t) = 1 /\ t[1] = Torn
      BY <3>0
    <3>2. /\ x \in Seq(S) /\ Len(x) = Len(y) + Len(t)
          /\ \A i \in 1 .. Len(y) : x[i] = y[i]
          /\ \A i \in 1 .. Len(t) : x[Len(y) + i] = t[i]
      BY <1>2, <2>2, <3>0, <3>1, Behind
    <3>3. 1 \in 1 .. Len(t)
      BY <3>1
    <3> QED
      BY <1>2, <3>1, <3>2, <3>3
  <2> QED
    BY <1>1, <2>1, <2>2 DEF Cut
<1>4. PICK r : r = Len(Repaired(d))
  OBVIOUS
<1>5. /\ r \in 0 .. Len(d) /\ r \in Nat /\ Len(d) \in Nat
      /\ ValidTo(d, r) /\ (r = Len(d) \/ ~ValidTo(d, r + 1))
      /\ \A i \in 1 .. r : Repaired(d)[i] = d[i]
  BY <1>4, RepairedValid DEF ValidPart
<1>6. PICK m \in Nat : /\ Len(Repaired(x)) = m /\ m <= n /\ m <= r
                       /\ m = n \/ m = r
                       /\ \A i \in 1 .. m : Repaired(x)[i] = x[i]
  <2>1. CASE n <= r
    <3>1. ValidTo(x, n)
      <4>1. n \in 0 .. r
        BY <2>1
      <4> QED
        BY <1>3, <1>5, <4>1, ValidBeginning
    <3>2. n = Len(x) \/ ~ValidTo(x, n + 1)
      <4>1. x[n + 1] = Torn => x[n + 1] \in {Torn, Garbage}
        OBVIOUS
      <4> QED
        BY <1>3, <4>1, MarkNotValid
    <3>3. ValidPart(x, n)
      BY <1>3, <3>1, <3>2 DEF ValidPart
    <3>4. Len(Repaired(x)) = n /\ \A i \in 1 .. n : Repaired(x)[i] = x[i]
      BY <1>3, <3>3, RepairedIs
    <3> QED
      BY <2>1, <3>4
  <2>2. CASE r < n
    <3>1. ValidTo(x, r)
      <4>1. r \in 0 .. r /\ \A i \in 1 .. r : x[i] = d[i]
        BY <1>3, <1>5, <2>2
      <4> QED
        BY <1>5, <4>1, ValidBeginning
    <3>2. ~ValidTo(x, r + 1)
      <4>1. r + 1 \in Nat /\ r + 1 \in 0 .. r + 1 /\ \A i \in 1 .. r + 1 : d[i] = x[i]
        BY <1>3, <1>5, <2>2
      <4>2. ~ValidTo(d, r + 1)
        BY <1>5, <2>2
      <4> QED
        BY <4>1, <4>2, ValidBeginning
    <3>3. ValidPart(x, r)
      BY <1>3, <1>5, <2>2, <3>1, <3>2 DEF ValidPart
    <3>4. Len(Repaired(x)) = r /\ \A i \in 1 .. r : Repaired(x)[i] = x[i]
      BY <1>3, <3>3, RepairedIs
    <3> QED
      BY <1>5, <2>2, <3>4
  <2> QED
    BY <1>5, <2>1, <2>2
<1>7. Begins(Repaired(x), Repaired(d))
  <2>1. ASSUME NEW i \in 1 .. m PROVE i <= r /\ Repaired(x)[i] = Repaired(d)[i]
    <3>1. i \in 1 .. n /\ i \in 1 .. r
      BY <1>5, <1>6
    <3> QED
      BY <1>3, <1>5, <1>6, <3>1, SMTT(20)
  <2> QED
    BY <1>4, <1>6, <2>1 DEF Begins
<1>8. \A i \in 1 .. Len(Repaired(d)) : i <= n => i <= Len(Repaired(x))
  BY <1>4, <1>5, <1>6
<1> QED
  BY <1>3, <1>7, <1>8

-----------------------------------------------------------------------------
(* Sleeps and times.                                                       *)

\* The time slept grows with every sleep, and with nothing else.
LEMMA SleptMore ==
    ASSUME NEW b, NEW i \in Nat, NEW j \in Nat, i <= j
    PROVE  /\ Slept(b, i, j) \in Nat
           /\ b[j + 1] # "sleep" => Slept(b, i, j + 1) = Slept(b, i, j)
           /\ b[j + 1] = "sleep" => Slept(b, i, j + 1) = Slept(b, i, j) + SleepMs
           /\ Slept(b, i, i) = 0
<1> DEFINE K(m) == {k \in i + 1 .. m : b[k] = "sleep"}
<1>1. SleepMs \in Nat
  BY OptionsKnown
<1>2. \A s \in Nat, n \in Nat : s * n \in Nat /\ s * (n + 1) = s * n + s /\ s * 0 = 0
  OBVIOUS
<1>3. IsFiniteSet(K(j)) /\ Cardinality(K(j)) \in Nat
  <2>1. K(j) \in SUBSET (1 .. j)
    OBVIOUS
  <2> HIDE DEF K
  <2> QED
    BY <2>1, PositionsFinite
<1>4. Slept(b, i, j) = SleepMs * Cardinality(K(j))
      /\ Slept(b, i, j + 1) = SleepMs * Cardinality(K(j + 1))
      /\ Slept(b, i, i) = SleepMs * Cardinality(K(i))
  BY DEF Slept
<1>5. ASSUME b[j + 1] # "sleep" PROVE K(j + 1) = K(j)
  BY <1>5
<1>6. ASSUME b[j + 1] = "sleep" PROVE Cardinality(K(j + 1)) = Cardinality(K(j)) + 1
  <2>1. K(j + 1) = K(j) \union {j + 1} /\ j + 1 \notin K(j)
    BY <1>6
  <2> HIDE DEF K
  <2> QED
    BY <1>3, <2>1, FS_AddElement
<1>7. Cardinality(K(i)) = 0
  <2>1. K(i) = {}
    OBVIOUS
  <2> HIDE DEF K
  <2> QED
    BY <2>1, FS_EmptySet
<1> HIDE DEF K
<1>8. Slept(b, i, j) \in Nat /\ Slept(b, i, i) = 0
  BY <1>1, <1>2, <1>3, <1>4, <1>7
<1>9. ASSUME b[j + 1] = "sleep" PROVE Slept(b, i, j + 1) = Slept(b, i, j) + SleepMs
  BY <1>1, <1>2, <1>3, <1>4, <1>6, <1>9
<1> QED
  BY <1>4, <1>5, <1>8, <1>9

-----------------------------------------------------------------------------
(* Logs that follow a body.                                                *)

\* A beginning of a beginning is one.
LEMMA BeginsTrans ==
    ASSUME NEW S, NEW x \in Seq(S), NEW y \in Seq(S), NEW z \in Seq(S), Begins(x, y), Begins(y, z)
    PROVE  Begins(x, z)
<1>1. Len(x) \in Nat /\ Len(y) \in Nat
  OBVIOUS
<1>2. ASSUME NEW i \in 1 .. Len(x) PROVE i <= Len(z) /\ x[i] = z[i]
  <2>1. i \in 1 .. Len(y) /\ x[i] = y[i]
    BY <1>1 DEF Begins
  <2> QED
    BY <2>1 DEF Begins
<1> QED
  BY <1>2 DEF Begins

\* A log is a beginning of itself.
LEMMA BeginsItself ==
    ASSUME NEW S, NEW x \in Seq(S)
    PROVE  Begins(x, x)
BY DEF Begins

\* What was read is read from every longer log.
LEMMA ReadMore ==
    ASSUME NEW S, NEW x \in Seq(S), NEW y \in Seq(S), NEW vs \in Seq(Nat), Read(vs, x), Begins(x, y)
    PROVE  Read(vs, y)
<1>1. ASSUME NEW i \in 1 .. Len(vs)
      PROVE  i <= Len(y) /\ y[i].line = "event" /\ vs[i] = ValueOf(y[i])
  <2>1. i \in 1 .. Len(x) /\ x[i].line = "event" /\ vs[i] = ValueOf(x[i])
    BY DEF Read
  <2>2. i <= Len(y) /\ x[i] = y[i]
    BY <2>1 DEF Begins
  <2> QED
    BY <2>1, <2>2
<1> QED
  BY <1>1 DEF Read

\* A beginning of a log that follows the body follows it.
LEMMA FollowsLess ==
    ASSUME NEW S, NEW b, NEW x \in Seq(S), NEW y \in Seq(S), Follows(b, y), Begins(x, y)
    PROVE  Follows(b, x)
<1>1. Len(x) \in Nat /\ Len(y) \in Nat
  OBVIOUS
<1>2. ASSUME NEW i \in 1 .. Len(x) PROVE i \in 1 .. Len(y) /\ x[i] = y[i]
  BY <1>1 DEF Begins
<1>3. Len(x) <= Len(y)
  <2>1. CASE Len(x) = 0
    BY <1>1, <2>1
  <2>2. CASE Len(x) # 0
    <3>1. Len(x) \in 1 .. Len(x)
      BY <1>1, <2>2
    <3> QED
      BY <1>1, <1>2, <3>1
  <2> QED
    BY <2>1, <2>2
<1>4. \A i \in 1 .. Len(x) : i < Len(x) => x[i].line = "event"
  BY <1>1, <1>2, <1>3 DEF Follows
<1>5. \A i \in 1 .. Len(x) : x[i].line = "event" =>
        i <= Len(b) /\ x[i].effect = b[i] /\ x[i].seq = i - 1
  BY <1>2 DEF Follows
<1>6. \A i, j \in 1 .. Len(x) :
        i <= j /\ x[i].line = "event" /\ x[j].line = "event" /\ Clocked(b, i) /\ Clocked(b, j) =>
           x[j].val >= x[i].val + Slept(b, i, j)
  BY <1>2 DEF Follows
<1>7. \A i, j \in 1 .. Len(x) :
        i <= j /\ x[i].line = "event" /\ x[j].line = "event" /\ b[i] = "mono" /\ b[j] = "mono" =>
           x[j].val >= x[i].val
  BY <1>2 DEF Follows
<1> QED
  BY <1>4, <1>5, <1>6, <1>7 DEF Follows

\* A line that is no event may end it.
LEMMA FollowsMark ==
    ASSUME NEW S, NEW b, NEW y \in Seq(S), NEW x \in Seq(S), Follows(b, y),
           Len(x) = Len(y) + 1, \A i \in 1 .. Len(y) : x[i] = y[i] /\ y[i].line = "event",
           x[Len(x)].line # "event"
    PROVE  Follows(b, x)
<1>1. Len(x) \in Nat /\ Len(y) \in Nat
  OBVIOUS
<1>2. ASSUME NEW i \in 1 .. Len(x), x[i].line = "event" PROVE i \in 1 .. Len(y) /\ x[i] = y[i]
  BY <1>1, <1>2
<1>4. \A i \in 1 .. Len(x) : i < Len(x) => x[i].line = "event"
  BY <1>1
<1>5. \A i \in 1 .. Len(x) : x[i].line = "event" =>
        i <= Len(b) /\ x[i].effect = b[i] /\ x[i].seq = i - 1
  BY <1>2 DEF Follows
<1>6. \A i, j \in 1 .. Len(x) :
        i <= j /\ x[i].line = "event" /\ x[j].line = "event" /\ Clocked(b, i) /\ Clocked(b, j) =>
           x[j].val >= x[i].val + Slept(b, i, j)
  BY <1>2 DEF Follows
<1>7. \A i, j \in 1 .. Len(x) :
        i <= j /\ x[i].line = "event" /\ x[j].line = "event" /\ b[i] = "mono" /\ b[j] = "mono" =>
           x[j].val >= x[i].val
  BY <1>2 DEF Follows
<1> QED
  BY <1>4, <1>5, <1>6, <1>7 DEF Follows

\* The lines of the contexts and of the files of unchanged code.
LEMMA EventsNumbered ==
    ASSUME NEW R, NEW E \in Seq(Recordings(R)), NEW b, Follows(b, E)
    PROVE  /\ Numbered(E)
           /\ \A i \in 1 .. Len(E) : E[i].line = "event" /\ E[i].val \in Nat
                                     /\ i <= Len(b) /\ E[i].effect = b[i]
           /\ E \in Seq(Lines(R))
<1>1. \A i \in 1 .. Len(E) : E[i].line = "event" /\ E[i].val \in Nat
  BY DEF Recordings
<1>2. \A i \in 1 .. Len(E) : E[i].seq = i - 1 /\ i <= Len(b) /\ E[i].effect = b[i]
  BY <1>1 DEF Follows
<1>3. Numbered(E)
  BY <1>1, <1>2 DEF Numbered
<1> QED
  BY <1>1, <1>2, <1>3, EventsAreLines

\* The time v is past every sleep between a clocked event of E and the effect
\* behind its n-th.
Past(b, E, n, v) == \A i \in 1 .. n : Clocked(b, i) => v >= E[i].val + Slept(b, i, n + 1)

\* The reading v of the monotonic clock is not behind one of the first n events.
NotBehind(b, E, n, v) == \A i \in 1 .. n : b[i] = "mono" => v >= E[i].val

\* The next event of the body continues it, if its time is past the sleeps.
LEMMA FollowsNext ==
    ASSUME NEW R, NEW b, NEW E \in Seq(Recordings(R)), NEW ev \in Recordings(R),
           Follows(b, E), Len(E) < Len(b), Len(b) \in Nat,
           ev.seq = Len(E), ev.effect = b[Len(E) + 1],
           Clocked(b, Len(E) + 1) => Past(b, E, Len(E), ev.val),
           b[Len(E) + 1] = "mono" => NotBehind(b, E, Len(E), ev.val)
    PROVE  Follows(b, Append(E, ev)) /\ Begins(E, Append(E, ev))
<1>1. PICK n \in Nat : n = Len(E)
  OBVIOUS
<1>b. PICK x : x = Append(E, ev)
  OBVIOUS
<1>2. Len(x) = n + 1 /\ x[n + 1] = ev /\ \A i \in 1 .. n : x[i] = E[i]
  BY <1>1, <1>b
<1>a. \A i \in 1 .. Len(E) : E[i].line = "event" /\ E[i].val \in Nat
  BY EventsNumbered
<1>3. /\ x[n + 1].line = "event" /\ x[n + 1].effect = b[n + 1] /\ x[n + 1].seq = n
      /\ x[n + 1].val = ev.val /\ ev.val \in Nat
  BY <1>1, <1>2 DEF Recordings
<1>4. \A i \in 1 .. Len(x) : i \in 1 .. n \/ i = n + 1
  BY <1>2
<1>5. \A i \in 1 .. Len(x) : x[i].line = "event"
  BY <1>1, <1>2, <1>3, <1>4, <1>a
<1>6. ASSUME NEW i \in 1 .. Len(x)
      PROVE  i <= Len(b) /\ x[i].effect = b[i] /\ x[i].seq = i - 1
  <2>1. CASE i \in 1 .. n
    BY <1>1, <1>2, <1>a, <2>1 DEF Follows
  <2>2. CASE i = n + 1
    BY <1>1, <1>3, <2>2
  <2> QED
    BY <1>4, <2>1, <2>2
<1>7. ASSUME NEW i \in 1 .. Len(x), NEW j \in 1 .. Len(x), i <= j, Clocked(b, i), Clocked(b, j)
      PROVE  x[j].val >= x[i].val + Slept(b, i, j)
  <2>1. CASE j \in 1 .. n
    <3>1. i \in 1 .. n /\ E[i].line = "event" /\ E[j].line = "event" /\ x[i] = E[i] /\ x[j] = E[j]
      BY <1>1, <1>2, <1>7, <1>a, <2>1
    <3>2. E[j].val >= E[i].val + Slept(b, i, j)
      BY <1>1, <1>7, <2>1, <3>1 DEF Follows
    <3> QED
      BY <3>1, <3>2
  <2>2. CASE i = n + 1 /\ j = n + 1
    <3>1. Slept(b, n + 1, n + 1) = 0
      BY <1>1, SleptMore
    <3> QED
      BY <1>3, <2>2, <3>1
  <2>3. CASE i \in 1 .. n /\ j = n + 1
    BY <1>1, <1>2, <1>3, <1>7, <2>3 DEF Past
  <2> QED
    BY <1>4, <1>7, <2>1, <2>2, <2>3
<1>10. ASSUME NEW i \in 1 .. Len(x), NEW j \in 1 .. Len(x), i <= j, b[i] = "mono", b[j] = "mono"
       PROVE  x[j].val >= x[i].val
  <2>1. CASE j \in 1 .. n
    <3>1. i \in 1 .. n /\ E[i].line = "event" /\ E[j].line = "event" /\ x[i] = E[i] /\ x[j] = E[j]
      BY <1>1, <1>2, <1>10, <1>a, <2>1
    <3>2. E[j].val >= E[i].val
      BY <1>1, <1>10, <2>1, <3>1 DEF Follows
    <3> QED
      BY <3>1, <3>2
  <2>2. CASE i = n + 1 /\ j = n + 1
    BY <1>3, <2>2
  <2>3. CASE i \in 1 .. n /\ j = n + 1
    BY <1>1, <1>2, <1>3, <1>10, <2>3 DEF NotBehind
  <2> QED
    BY <1>4, <1>10, <2>1, <2>2, <2>3
<1>8. Follows(b, x)
  BY <1>5, <1>6, <1>7, <1>10 DEF Follows
<1>9. Begins(E, x)
  BY <1>1, <1>2 DEF Begins
<1> QED
  BY <1>b, <1>8, <1>9

\* One more value is read where the next event is.
LEMMA ReadNext ==
    ASSUME NEW S, NEW r \in Seq(S), NEW vs \in Seq(Nat), Read(vs, r), Len(vs) < Len(r),
           r[Len(vs) + 1].line = "event", NEW v \in Nat, v = ValueOf(r[Len(vs) + 1])
    PROVE  Read(Append(vs, v), r)
<1>1. PICK n \in Nat : n = Len(vs)
  OBVIOUS
<1>2. PICK ws : ws = Append(vs, v)
  OBVIOUS
<1>3. Len(ws) = n + 1 /\ ws[n + 1] = v /\ \A i \in 1 .. n : ws[i] = vs[i]
  BY <1>1, <1>2
<1>4. ASSUME NEW i \in 1 .. n + 1
      PROVE  i <= Len(r) /\ r[i].line = "event" /\ ws[i] = ValueOf(r[i])
  <2>1. CASE i \in 1 .. n
    BY <1>1, <1>3, <2>1 DEF Read
  <2>2. CASE i = n + 1
    BY <1>1, <1>3, <2>2
  <2> QED
    BY <2>1, <2>2
<1> QED
  BY <1>2, <1>3, <1>4 DEF Read

-----------------------------------------------------------------------------
(* The invariant of replay.                                                *)

\* The values outs given to the body b are those of the first events of the
\* context c, and the clocks are past every sleep and every reading among them.
InStep(b, outs, c) ==
    /\ Len(outs) = IF c.mode = "Record" THEN Len(c.events) ELSE c.cursor
    /\ \A i \in 1 .. Len(outs) : Clocked(b, i) =>
          c.clock >= c.events[i].val + Slept(b, i, Len(outs))
    /\ \A i \in 1 .. Len(outs) : b[i] = "mono" => c.mono >= c.events[i].val

\* The driver fl of a flow with the file d, and the context c of its run.
Tracks(b, dur, fl, d, c) ==
    /\ Follows(b, c.events)
    /\ c.grouped <=> dur = "group"
    /\ Read(fl.outs, c.events)
    /\ dur = "group" => FileOf(c.events, c.persisted, d)
    /\ fl.st = "exec" => c.mode = "Record"
    /\ fl.st # "err" => InStep(b, fl.outs, c)

\* No I/O error of the flow was discarded: what must be kept, k, is in the
\* context, and a group log holds all of its events.
Honest(dur, fl, d, k, c) ==
    /\ Read(k, c.events)
    /\ fl.st # "err" /\ dur = "group" => d = c.events /\ c.persisted = Len(c.events)

\* Between two readings of the clock every sleep has elapsed, and the monotonic
\* clock does not go back.
Elapsed(b, outs) ==
    /\ \A i, j \in 1 .. Len(outs) : i <= j /\ b[i] = "now" /\ b[j] = "now" =>
          outs[j] >= outs[i] + Slept(b, i, j)
    /\ \A i, j \in 1 .. Len(outs) : i <= j /\ b[i] = "mono" /\ b[j] = "mono" => outs[j] >= outs[i]

\* A flow with the file d, of which a loss of power may leave s.
Durable(b, dur, fl, d, s) ==
    /\ Follows(b, Shown(dur, d)) /\ Follows(b, Shown(dur, s))
    /\ Elapsed(b, fl.outs)

\* A completed group log is valid to its end, and is all that a loss of power
\* may leave once the marker is synchronised.
Synced(d, s) ==
    /\ Begins(Repaired(s), Repaired(d))
    /\ \A i \in 1 .. Len(d) : d[i].line = "completed" => i = Len(d) /\ Repaired(d) = d
    /\ \A i \in 1 .. Len(s) : s[i].line = "completed" => s = d

\* No I/O error of the flow was discarded: k is what must be kept, t the
\* answers given.
Promised(dur, fl, d, s, k, t) ==
    /\ Read(k, Shown(dur, d))
    /\ \A i \in 1 .. Len(fl.outs) : i <= Len(k) => fl.outs[i] = k[i]
    /\ dur = "fsync" => s = d
    /\ fl.st = "new" => d = <<>> /\ s = <<>> /\ k = <<>>
    /\ fl.st # "off" => t = {} /\ Unmarked(d)
    /\ t # {} => IsCompleted(Shown(dur, d)) /\ t = {Last(Shown(dur, d)).result}
    /\ dur = "group" => Synced(d, s)

\* The contexts that are installed or set aside.
Placed == ({cell} \union {flow[f].prev : f \in Flows}) \ {NoContext}

\* Runs are nested: the flow of a context that is set aside is inside an activity,
\* and no flow has two contexts.
Nested ==
    /\ cell # NoContext => flow[cell.owner].st \in {"body", "exec", "err"}
    /\ \A f \in Flows : flow[f].st \in {"new", "off"} => flow[f].prev = NoContext
    /\ \A f \in Flows : flow[f].prev # NoContext =>
          /\ flow[flow[f].prev.owner].st = "exec"
          /\ cell # NoContext => cell.owner # flow[f].prev.owner
          /\ \A g \in Flows \ {f} :
                flow[g].prev # NoContext => flow[g].prev.owner # flow[f].prev.owner

\* The counters of a context.
Counted(c) == c.cursor <= Len(c.events) /\ c.persisted <= Len(c.events)

\* The types of the histories, and what else TypeOK says.
Bounded ==
    /\ durability \in [Flows -> {"fsync", "group", "buffered"}]
    /\ kept \in [Flows -> Seq(Nat)]
    /\ told \in [Flows -> SUBSET Seq(Nat)]
    /\ \A f \in Flows : flow[f].act <= Len(ran)
    /\ \A f \in Flows : body[f] \in Bodies[f] \union Redeployed[f]

TracksIn(c) ==
    c.owner \notin irregular =>
        /\ Tracks(body[c.owner], durability[c.owner], flow[c.owner], disk[c.owner], c)
        /\ c.owner \notin swallowed =>
              Honest(durability[c.owner], flow[c.owner], disk[c.owner], kept[c.owner], c)

DurableIn(f) ==
    f \notin irregular =>
        /\ Durable(body[f], durability[f], flow[f], disk[f], stable[f])
        /\ f \notin swallowed =>
              Promised(durability[f], flow[f], disk[f], stable[f], kept[f], told[f])

ReplayInv ==
    /\ ResultsInv
    /\ Bounded
    /\ Nested
    /\ \A c \in Placed : Counted(c) /\ TracksIn(c)
    /\ \A f \in Flows : DurableIn(f)

-----------------------------------------------------------------------------
(* What an effect of the body keeps.  The body b takes its next effect, the *)
(* context c becomes c2 and the driver fl becomes fl2.                     *)

\* The clock after the next effect is past every sleep before it.
NextClock(b, n, c, clock) ==
    /\ clock \in Nat
    /\ Past(b, c.events, n, clock)

\* The monotonic clock after it is not behind.
NextMono(b, n, c, mono) ==
    /\ mono \in Nat
    /\ NotBehind(b, c.events, n, mono)

\* The next effect has the value v, and leaves the clocks of the context c2.
TimedNext(b, n, v, c, c2) ==
    /\ NextClock(b, n, c, c2.clock) /\ (Clocked(b, n + 1) => v = c2.clock)
    /\ NextMono(b, n, c, c2.mono) /\ (b[n + 1] = "mono" => v = c2.mono)

\* An effect that is no sleep may leave the clock alone.
LEMMA ClockStays ==
    ASSUME NEW R, NEW c \in Contexts(R), NEW b, NEW outs \in Seq(Nat), Follows(b, c.events),
           Read(outs, c.events), InStep(b, outs, c), b[Len(outs) + 1] # "sleep"
    PROVE  NextClock(b, Len(outs), c, c.clock)
<1>1. PICK n \in Nat : n = Len(outs)
  OBVIOUS
<1>2. c.clock \in Nat
  BY DEF Contexts
<1>3. ASSUME NEW i \in 1 .. n, Clocked(b, i) PROVE c.clock >= c.events[i].val + Slept(b, i, n + 1)
  <2>1. c.clock >= c.events[i].val + Slept(b, i, n)
    BY <1>1, <1>3 DEF InStep
  <2>2. Slept(b, i, n + 1) = Slept(b, i, n)
    <3>1. i \in Nat /\ i <= n /\ b[n + 1] # "sleep"
      BY <1>1
    <3> QED
      BY <3>1, SleptMore
  <2> QED
    BY <2>1, <2>2
<1>4. Past(b, c.events, n, c.clock)
  BY <1>3, Zenon DEF Past
<1> QED
  BY <1>1, <1>2, <1>4, Zenon DEF NextClock

\* A sleep moves it.
LEMMA ClockMoves ==
    ASSUME NEW R, NEW c \in Contexts(R), NEW b, NEW outs \in Seq(Nat), Follows(b, c.events),
           Read(outs, c.events), InStep(b, outs, c), b[Len(outs) + 1] = "sleep"
    PROVE  NextClock(b, Len(outs), c, c.clock + SleepMs)
<1>1. PICK n \in Nat : n = Len(outs)
  OBVIOUS
<1>2. c.clock \in Nat /\ SleepMs \in Nat /\ c.events \in Seq(Recordings(R))
  BY OptionsKnown DEF Contexts
<1>3. ASSUME NEW i \in 1 .. n, Clocked(b, i)
      PROVE  c.clock + SleepMs >= c.events[i].val + Slept(b, i, n + 1)
  <2>1. c.clock >= c.events[i].val + Slept(b, i, n)
    BY <1>1, <1>3 DEF InStep
  <2>2. Slept(b, i, n + 1) = Slept(b, i, n) + SleepMs /\ Slept(b, i, n) \in Nat
    <3>1. i \in Nat /\ i <= n /\ b[n + 1] = "sleep"
      BY <1>1
    <3> QED
      BY <3>1, SleptMore
  <2>3. i \in 1 .. Len(c.events)
    BY <1>1, <1>2 DEF Read
  <2>4. c.events[i].val \in Nat
    BY <1>2, <2>3, EventsNumbered
  <2>5. \A x, y, z, s \in Nat : x >= y + z => x + s >= y + (z + s)
    OBVIOUS
  <2> QED
    BY <1>2, <2>1, <2>2, <2>4, <2>5
<1>4. Past(b, c.events, n, c.clock + SleepMs)
  BY <1>3, Zenon DEF Past
<1>5. c.clock + SleepMs \in Nat
  BY <1>2
<1> QED
  BY <1>1, <1>4, <1>5, Zenon DEF NextClock

\* A replayed reading of the clock sets it.
LEMMA ClockReplayed ==
    ASSUME NEW R, NEW c \in Contexts(R), NEW b, Follows(b, c.events), NEW n \in Nat,
           n < Len(c.events), Clocked(b, n + 1)
    PROVE  NextClock(b, n, c, c.events[n + 1].val)
<1>1. c.events \in Seq(Recordings(R)) /\ Len(c.events) \in Nat
  BY DEF Contexts
<1>2. \A i \in 1 .. Len(c.events) : c.events[i].line = "event" /\ c.events[i].val \in Nat
  BY <1>1, EventsNumbered
<1>3. n + 1 \in 1 .. Len(c.events)
  BY <1>1
<1>4. ASSUME NEW i \in 1 .. n, Clocked(b, i)
      PROVE  c.events[n + 1].val >= c.events[i].val + Slept(b, i, n + 1)
  <2>1. i \in 1 .. Len(c.events) /\ i <= n + 1
    BY <1>1
  <2> QED
    BY <1>2, <1>3, <1>4, <2>1 DEF Follows
<1> QED
  BY <1>2, <1>3, <1>4 DEF NextClock, Past

\* Whatever the effect, the monotonic clock may stay or go forward,
LEMMA MonoStays ==
    ASSUME NEW R, NEW c \in Contexts(R), NEW b, NEW outs \in Seq(Nat), Follows(b, c.events),
           Read(outs, c.events), InStep(b, outs, c), NEW m \in Nat, m >= c.mono
    PROVE  NextMono(b, Len(outs), c, m)
<1>1. PICK n \in Nat : n = Len(outs)
  OBVIOUS
<1>2. c.mono \in Nat /\ c.events \in Seq(Recordings(R))
  BY DEF Contexts
<1>3. ASSUME NEW i \in 1 .. n, b[i] = "mono" PROVE m >= c.events[i].val
  <2>1. c.mono >= c.events[i].val
    BY <1>1, <1>3 DEF InStep
  <2>2. i \in 1 .. Len(c.events)
    BY <1>1, <1>2 DEF Read
  <2>3. c.events[i].val \in Nat
    BY <1>2, <2>2, EventsNumbered
  <2> QED
    BY <1>2, <2>1, <2>3
<1> QED
  BY <1>1, <1>3 DEF NextMono, NotBehind

\* and a replayed reading of it sets it.
LEMMA MonoReplayed ==
    ASSUME NEW R, NEW c \in Contexts(R), NEW b, Follows(b, c.events), NEW n \in Nat,
           n < Len(c.events), b[n + 1] = "mono"
    PROVE  NextMono(b, n, c, c.events[n + 1].val)
<1>1. c.events \in Seq(Recordings(R)) /\ Len(c.events) \in Nat
  BY DEF Contexts
<1>2. \A i \in 1 .. Len(c.events) : c.events[i].line = "event" /\ c.events[i].val \in Nat
  BY <1>1, EventsNumbered
<1>3. n + 1 \in 1 .. Len(c.events)
  BY <1>1
<1>4. ASSUME NEW i \in 1 .. n, b[i] = "mono" PROVE c.events[n + 1].val >= c.events[i].val
  <2>1. i \in 1 .. Len(c.events) /\ i <= n + 1
    BY <1>1
  <2> QED
    BY <1>2, <1>3, <1>4, <2>1 DEF Follows
<1> QED
  BY <1>2, <1>3, <1>4 DEF NextMono, NotBehind

\* The body is given the value of the next event of the events E.
LEMMA ElapsedNext ==
    ASSUME NEW R, NEW E \in Seq(Recordings(R)), NEW b, Follows(b, E), NEW outs \in Seq(Nat),
           Read(outs, E), Elapsed(b, outs), Len(outs) < Len(E), NEW v \in Nat,
           v = ValueOf(E[Len(outs) + 1])
    PROVE  /\ Elapsed(b, Append(outs, v))
           /\ Read(Append(outs, v), E)
           /\ Append(outs, v) \in Seq(Nat)
           /\ Len(Append(outs, v)) = Len(outs) + 1
<1>1. PICK n \in Nat : n = Len(outs)
  OBVIOUS
<1>2. PICK ws : ws = Append(outs, v)
  OBVIOUS
<1>3. Len(ws) = n + 1 /\ ws[n + 1] = v /\ \A i \in 1 .. n : ws[i] = outs[i]
  BY <1>1, <1>2
<1>4. \A i \in 1 .. Len(E) : E[i].line = "event" /\ E[i].val \in Nat /\ E[i].effect = b[i]
  BY EventsNumbered
<1>5. n + 1 \in 1 .. Len(E)
  BY <1>1
<1>6. Read(ws, E)
  BY <1>1, <1>2, <1>4, <1>5, ReadNext
<1>7. ASSUME NEW i \in 1 .. n + 1 PROVE i \in 1 .. Len(E) /\ ws[i] = ValueOf(E[i])
  BY <1>3, <1>5, <1>6 DEF Read
<1>8. ASSUME NEW i \in 1 .. n + 1, NEW j \in 1 .. n + 1, i <= j, b[i] = "now", b[j] = "now"
      PROVE  ws[j] >= ws[i] + Slept(b, i, j)
  <2>1. i \in 1 .. Len(E) /\ j \in 1 .. Len(E) /\ ws[i] = E[i].val /\ ws[j] = E[j].val
    BY <1>4, <1>7, <1>8 DEF ValueOf
  <2>2. Clocked(b, i) /\ Clocked(b, j)
    BY <1>8 DEF Clocked
  <2>3. E[j].val >= E[i].val + Slept(b, i, j)
    BY <1>4, <1>8, <2>1, <2>2 DEF Follows
  <2> QED
    BY <2>1, <2>3
<1>11. ASSUME NEW i \in 1 .. n + 1, NEW j \in 1 .. n + 1, i <= j, b[i] = "mono", b[j] = "mono"
       PROVE  ws[j] >= ws[i]
  <2>1. i \in 1 .. Len(E) /\ j \in 1 .. Len(E) /\ ws[i] = E[i].val /\ ws[j] = E[j].val
    BY <1>4, <1>7, <1>11 DEF ValueOf
  <2>2. E[j].val >= E[i].val
    BY <1>4, <1>11, <2>1 DEF Follows
  <2> QED
    BY <2>1, <2>2
<1>9. Elapsed(b, ws)
  BY <1>3, <1>8, <1>11 DEF Elapsed
<1>10. ws \in Seq(Nat)
  BY <1>2, AppendProperties
<1> QED
  BY <1>1, <1>2, <1>3, <1>6, <1>9, <1>10

\* Replay: the driver is given the value of the event at the cursor.
LEMMA ReplayTracks ==
    ASSUME NEW R, NEW c \in Contexts(R), NEW c2 \in Contexts(R), NEW b, NEW dur, NEW d,
           NEW fl \in Drivers(R), NEW fl2, Tracks(b, dur, fl, d, c), fl.st = "body",
           c.mode = "Replay", c.cursor < Len(c.events),
           c2.mode = "Replay", c2.events = c.events, c2.grouped = c.grouped,
           c2.persisted = c.persisted, c2.cursor = c.cursor + 1,
           TimedNext(b, c.cursor, c.events[c.cursor + 1].val, c, c2),
           fl2.st = "body", fl2.outs = Append(fl.outs, ValueOf(c.events[c.cursor + 1]))
    PROVE  Tracks(b, dur, fl2, d, c2)
<1>1. PICK n \in Nat : n = c.cursor
  BY DEF Contexts
<1>2. PICK E \in Seq(Recordings(R)) : E = c.events
  BY DEF Contexts
<1>3. Follows(b, E) /\ Read(fl.outs, E) /\ Len(fl.outs) = n
  BY <1>1, <1>2 DEF Tracks, InStep
<1>4. fl.outs \in Seq(Nat) /\ n + 1 \in 1 .. Len(E)
  BY <1>1, <1>2 DEF Drivers
<1>5. PICK v : v = ValueOf(E[n + 1])
  OBVIOUS
<1>6. E[n + 1].line = "event" /\ E[n + 1].val \in Nat /\ v \in Nat
  BY <1>3, <1>4, <1>5, EventsNumbered DEF ValueOf
<1>7. Read(Append(fl.outs, v), E) /\ Len(Append(fl.outs, v)) = n + 1
  BY <1>3, <1>4, <1>5, <1>6, ReadNext, SMTT(30)
<1>8. InStep(b, fl2.outs, c2)
  <2>1. Len(fl2.outs) = n + 1 /\ c2.cursor = n + 1 /\ c2.mode # "Record"
    BY <1>1, <1>2, <1>5, <1>7
  <2>2. ASSUME NEW i \in 1 .. n + 1, Clocked(b, i)
        PROVE  c2.clock >= c2.events[i].val + Slept(b, i, n + 1)
    <3>1. CASE i \in 1 .. n
      BY <1>1, <2>2, <3>1 DEF TimedNext, NextClock, Past
    <3>2. CASE i = n + 1
      <4>1. Slept(b, n + 1, n + 1) = 0
        BY SleptMore
      <4>2. c2.clock = c2.events[n + 1].val
        BY <1>1, <2>2, <3>2 DEF TimedNext
      <4> QED
        BY <1>1, <1>2, <1>6, <3>2, <4>1, <4>2
    <3> QED
      BY <3>1, <3>2
  <2>3. ASSUME NEW i \in 1 .. n + 1, b[i] = "mono" PROVE c2.mono >= c2.events[i].val
    <3>1. CASE i \in 1 .. n
      BY <1>1, <2>3, <3>1 DEF TimedNext, NextMono, NotBehind
    <3>2. CASE i = n + 1
      <4>1. c2.mono = c2.events[n + 1].val
        BY <1>1, <2>3, <3>2 DEF TimedNext
      <4> QED
        BY <1>1, <1>2, <1>6, <3>2, <4>1
    <3> QED
      BY <3>1, <3>2
  <2> QED
    BY <2>1, <2>2, <2>3 DEF InStep
<1>9. Read(fl2.outs, c2.events)
  BY <1>1, <1>2, <1>5, <1>7
<1>10. Follows(b, c2.events)
  BY <1>2, <1>3
<1>11. c2.grouped <=> dur = "group"
  BY DEF Tracks
<1>12. dur = "group" => FileOf(c2.events, c2.persisted, d)
  BY DEF Tracks
<1> QED
  BY <1>8, <1>9, <1>10, <1>11, <1>12 DEF Tracks

-----------------------------------------------------------------------------
(* What recording an event keeps.                                          *)

\* c2 is c but for the counters of its appender.
SameRun(c, c2) ==
    /\ c2.events = c.events /\ c2.owner = c.owner /\ c2.mode = c.mode
    /\ c2.cursor = c.cursor /\ c2.clock = c.clock /\ c2.mono = c.mono /\ c2.grouped = c.grouped

Pending(c) == SubSeq(c.events, c.persisted + 1, Len(c.events))

\* A pump that has written everything, and one that failed half way: the
\* context c, the file d and what is stable of it, s, become c2, d2 and s2.
Wrote(c, d, s, c2, d2, s2) ==
    /\ SameRun(c, c2)
    /\ IF c.grouped
       THEN c2.persisted = Len(c.events) /\ d2 = Appended(d, Pending(c)) /\ s2 \in {s, d2}
       ELSE c2.persisted = c.persisted /\ d2 = d /\ s2 = s

Tore(c, d, s, c2, d2, s2) ==
    /\ SameRun(c, c2)
    /\ c.grouped
    /\ c2.persisted = c.persisted /\ d2 \in PartlyAppended(d, Pending(c)) /\ s2 = s

PumpTo(c, d, s, c2, d2, s2) ==
    Wrote(c, d, s, c2, d2, s2) \/ Tore(c, d, s, c2, d2, s2)

\* The lines that a pump writes.
LEMMA PendingLines ==
    ASSUME NEW R, NEW c \in Contexts(R), c.persisted <= Len(c.events)
    PROVE  /\ Pending(c) \in Seq(Recordings(R))
           /\ Len(Pending(c)) = Len(c.events) - c.persisted
           /\ \A i \in 1 .. Len(Pending(c)) : Pending(c)[i] = c.events[c.persisted + i]
<1>1. PICK E : E = c.events
  OBVIOUS
<1>2. PICK p : p = c.persisted
  OBVIOUS
<1>3. E \in Seq(Recordings(R)) /\ p \in Nat /\ p <= Len(E)
  BY <1>1, <1>2 DEF Contexts
<1>4. PICK ls : ls = SubSeq(E, p + 1, Len(E))
  OBVIOUS
<1>5. p + 1 \in 1 .. Len(E) + 1 /\ Len(E) \in 0 .. Len(E) /\ Len(E) \in Nat
  BY <1>3
<1>6. /\ ls \in Seq(Recordings(R)) /\ Len(ls) = Len(E) - p
      /\ \A i \in 1 .. Len(ls) : ls[i] = E[p + i]
  BY <1>3, <1>4, <1>5
<1> QED
  BY <1>1, <1>2, <1>4, <1>6 DEF Pending

\* They are a part of the events, and so is what a failed write leaves of them.
LEMMA PumpedPart ==
    ASSUME NEW R, NEW c \in Contexts(R), c.persisted <= Len(c.events), NEW d, NEW s, NEW c2,
           NEW d2, NEW s2, c.grouped,
           PumpTo(c, d, s, c2, d2, s2)
    PROVE  \E ls, m :
              /\ ls \in Seq(Lines(R))
              /\ Part(c.events, c.persisted, m, ls)
              /\ d2 = Appended(d, ls)
              /\ \/ c2.persisted = c.persisted
                 \/ c2.persisted = Len(c.events) /\ Len(ls) = Len(c.events) - c.persisted
              /\ Unmarked(ls)
<1>1. PICK pl : pl = Pending(c)
  OBVIOUS
<1>2. /\ pl \in Seq(Recordings(R)) /\ Len(pl) = Len(c.events) - c.persisted
      /\ \A i \in 1 .. Len(pl) : pl[i] = c.events[c.persisted + i]
  BY <1>1, PendingLines
<1>3. c.events \in Seq(Recordings(R)) /\ c.persisted \in Nat /\ Len(c.events) \in Nat
      /\ Len(pl) \in Nat
  BY <1>2 DEF Contexts
<1>4. pl \in Seq(Lines(R)) /\ \A i \in 1 .. Len(pl) : pl[i].line = "event"
  <2>1. \A i \in 1 .. Len(pl) : pl[i].line = "event"
    BY <1>2 DEF Recordings
  <2> QED
    BY <1>2, <2>1, EventsAreLines
<1>5. CASE Wrote(c, d, s, c2, d2, s2)
  <2>1. d2 = Appended(d, pl) /\ c2.persisted = Len(c.events)
    BY <1>1, <1>5 DEF Wrote
  <2>2. Part(c.events, c.persisted, Len(pl), pl)
    BY <1>2, <1>3 DEF Part
  <2>3. Unmarked(pl)
    BY <1>4 DEF Unmarked
  <2> QED
    BY <1>2, <1>4, <2>1, <2>2, <2>3
<1>6. CASE Tore(c, d, s, c2, d2, s2)
  <2>1. c2.persisted = c.persisted /\ d2 \in PartlyAppended(d, pl)
    BY <1>1, <1>6 DEF Tore
  <2>2. PICK n \in 0 .. Len(pl) - 1, t \in {<<>>, <<Torn>>} : d2 = Appended(d, SubSeq(pl, 1, n) \o t)
    BY <2>1 DEF PartlyAppended
  <2>3. PICK x : x = SubSeq(pl, 1, n)
    OBVIOUS
  <2>4. x \in Seq(Lines(R)) /\ Len(x) = n /\ n \in Nat /\ \A i \in 1 .. n : x[i] = pl[i]
    <3>1. n \in 0 .. Len(pl) /\ n \in Nat
      BY <1>3, <2>2
    <3> QED
      BY <1>4, <2>3, <3>1, BeginningOf
  <2>5. PICK ls : ls = x \o t
    OBVIOUS
  <2>6. /\ ls \in Seq(Lines(R)) /\ \A i \in 1 .. n : ls[i] = pl[i]
        /\ Len(ls) = n \/ (Len(ls) = n + 1 /\ ls[n + 1] = Torn)
    <3>1. CASE t = <<>>
      <4>1. ls = x
        BY <2>4, <2>5, <3>1, ConcatEmptySeq
      <4> QED
        BY <2>4, <4>1
    <3>2. CASE t = <<Torn>>
      <4>1. t \in Seq(Lines(R)) /\ Len(t) = 1 /\ t[1] = Torn /\ 1 \in 1 .. Len(t)
        BY <3>2, MarksAreLines
      <4>2. /\ ls \in Seq(Lines(R)) /\ Len(ls) = Len(x) + Len(t)
            /\ \A i \in 1 .. Len(x) : ls[i] = x[i]
            /\ \A i \in 1 .. Len(t) : ls[Len(x) + i] = t[i]
        <5>1. t \in Seq(Lines(R)) /\ x \in Seq(Lines(R))
          BY <2>4, <4>1
        <5> QED
          BY <2>5, <5>1, Behind
      <4> QED
        BY <2>4, <4>1, <4>2
    <3> QED
      BY <2>2, <3>1, <3>2
  <2>7. Part(c.events, c.persisted, n, ls)
    <3>1. n \in 0 .. Len(c.events) - c.persisted /\ \A i \in 1 .. n : i \in 1 .. Len(pl)
      BY <1>2, <1>3, <2>2
    <3> QED
      BY <1>2, <2>6, <3>1 DEF Part
  <2>8. ASSUME NEW i \in 1 .. Len(ls) PROVE ls[i].line # "completed"
    <3>1. CASE i \in 1 .. n
      <4>1. i \in 1 .. Len(pl) /\ ls[i] = pl[i]
        BY <1>3, <2>2, <2>6, <3>1
      <4> QED
        BY <1>4, <4>1
    <3>2. CASE i = n + 1
      BY <2>4, <2>6, <3>2 DEF Torn
    <3> QED
      BY <2>4, <2>6, <3>1, <3>2
  <2> QED
    BY <2>1, <2>2, <2>3, <2>5, <2>6, <2>7, <2>8 DEF Unmarked
<1> QED
  BY <1>5, <1>6 DEF PumpTo

\* No completion marker appears where none was and none is written.
LEMMA NoMarker ==
    ASSUME NEW R, NEW d \in Seq(Lines(R)), NEW ls \in Seq(Lines(R)),
           Unmarked(d),
           Unmarked(ls)
    PROVE  Unmarked(Appended(d, ls))
<1>1. PICK S : S = {x \in Lines(R) : x.line # "completed"}
  OBVIOUS
<1>2. Torn \in S /\ Garbage \in S
  BY <1>1, MarksAreLines DEF Torn, Garbage
<1>3. \A i \in 1 .. Len(d) : d[i] \in S
  BY <1>1 DEF Unmarked
<1>4. \A i \in 1 .. Len(ls) : ls[i] \in S
  BY <1>1 DEF Unmarked
<1>5. d \in Seq(S) /\ ls \in Seq(S)
  BY <1>3, <1>4
<1>6. Appended(d, ls) \in Seq(S)
  BY <1>2, <1>5, AppendedOK
<1>7. \A i \in 1 .. Len(Appended(d, ls)) : Appended(d, ls)[i] \in S
  BY <1>6
<1> QED
  BY <1>1, <1>7 DEF Unmarked

\* The file of a pump.
LEMMA PumpedTracks ==
    ASSUME NEW R, NEW c \in Contexts(R), c.persisted <= Len(c.events), NEW d \in Seq(Lines(R)),
           NEW s, NEW c2, NEW d2, NEW s2, c.grouped, NEW b, Follows(b, c.events),
           FileOf(c.events, c.persisted, d),
           PumpTo(c, d, s, c2, d2, s2)
    PROVE  /\ FileOf(c.events, c2.persisted, d2)
           /\ Begins(Repaired(d), Repaired(d2))
           /\ d2 \in Seq(Lines(R))
           /\ Unmarked(d) => Unmarked(d2)
<1>1. PICK ls, m :
              /\ ls \in Seq(Lines(R))
              /\ Part(c.events, c.persisted, m, ls)
              /\ d2 = Appended(d, ls)
              /\ \/ c2.persisted = c.persisted
                 \/ c2.persisted = Len(c.events) /\ Len(ls) = Len(c.events) - c.persisted
              /\ Unmarked(ls)
  BY PumpedPart
<1>2. PICK E : E = c.events
  OBVIOUS
<1>3. PICK p : p = c.persisted
  OBVIOUS
<1>4. E \in Seq(Recordings(R)) /\ p \in Nat /\ p <= Len(E) /\ Follows(b, E) /\ FileOf(E, p, d)
  BY <1>2, <1>3 DEF Contexts
<1>5. E \in Seq(Lines(R)) /\ Numbered(E)
  BY <1>4, EventsNumbered
<1>6. Part(E, p, m, ls) /\ d2 = Appended(d, ls)
  BY <1>1, <1>2, <1>3
<1>7. /\ FileOf(E, p, d2)
      /\ Len(ls) = Len(E) - p => FileOf(E, Len(E), d2)
      /\ Begins(Repaired(d), Repaired(d2))
      /\ d2 \in Seq(Lines(R))
  BY <1>1, <1>4, <1>5, <1>6, MarksAreLines, PumpedFile
<1>8. FileOf(c.events, c2.persisted, d2)
  BY <1>1, <1>2, <1>3, <1>7
<1> QED
  BY <1>1, <1>7, <1>8, NoMarker

\* What the body takes next is recorded: c3 is the context c with the event,
\* before the pump that makes it c2.
Records(b, n, v, c, c3) ==
    /\ c3.events = Append(c.events, Event(n, b[n + 1], v))
    /\ c3.mode = "Record" /\ c3.grouped = c.grouped /\ c3.persisted = c.persisted
    /\ TimedNext(b, n, v, c, c3)

\* The value that the body is given for an event.
OutOf(e, v) == IF e = "sleep" THEN 0 ELSE v

\* The context after a record.
LEMMA RecordedRun ==
    ASSUME NEW R, NEW c \in Contexts(R), NEW c3 \in Contexts(R), NEW c2, NEW b \in Seq(Effects),
           NEW outs \in Seq(Nat), Follows(b, c.events), Read(outs, c.events),
           Len(outs) = Len(c.events), Len(outs) < Len(b), NEW v \in Nat,
           Records(b, Len(outs), v, c, c3), SameRun(c3, c2)
    PROVE  /\ Follows(b, c2.events) /\ Begins(c.events, c2.events)
           /\ c2.events \in Seq(Recordings(R)) /\ Len(c2.events) = Len(outs) + 1
           /\ OutOf(b[Len(outs) + 1], v) = ValueOf(c2.events[Len(outs) + 1])
           /\ OutOf(b[Len(outs) + 1], v) \in Nat
           /\ Read(outs, c2.events)
           /\ InStep(b, Append(outs, OutOf(b[Len(outs) + 1], v)), c2)
<1>1. PICK n \in Nat : n = Len(outs)
  OBVIOUS
<1>2. PICK E \in Seq(Recordings(R)) : E = c.events
  BY DEF Contexts
<1>3. PICK x \in Seq(Recordings(R)) : x = c2.events
  BY DEF Contexts, SameRun
<1>4. Len(E) = n /\ Len(b) \in Nat /\ x = Append(E, Event(n, b[n + 1], v))
  BY <1>1, <1>2, <1>3 DEF Records, SameRun
<1>6. ASSUME Clocked(b, n + 1) PROVE Past(b, E, n, v)
  BY <1>1, <1>2, <1>6 DEF Records, TimedNext, NextClock
<1>c. ASSUME b[n + 1] = "mono" PROVE NotBehind(b, E, n, v)
  BY <1>1, <1>2, <1>c DEF Records, TimedNext, NextMono
<1>a. PICK ev : ev = Event(n, b[n + 1], v)
  OBVIOUS
<1>b. ev.seq = n /\ ev.effect = b[n + 1] /\ ev.val = v /\ x = Append(E, ev)
  BY <1>4, <1>a DEF Event
<1>7. Follows(b, x) /\ Begins(E, x) /\ Len(x) = n + 1 /\ x[n + 1] = ev
  <2>1. Len(x) = n + 1 /\ x[n + 1] = ev
    BY <1>2, <1>4, <1>b
  <2>2. ev \in Recordings(R) /\ E \in Seq(Recordings(R))
    BY <1>2, <1>3, <2>1
  <2>3. Follows(b, E) /\ Len(E) < Len(b) /\ Len(b) \in Nat /\ ev.seq = Len(E)
        /\ ev.effect = b[Len(E) + 1]
    BY <1>1, <1>2, <1>4, <1>b
  <2>4. /\ Clocked(b, Len(E) + 1) => Past(b, E, Len(E), ev.val)
        /\ b[Len(E) + 1] = "mono" => NotBehind(b, E, Len(E), ev.val)
    BY <1>4, <1>6, <1>b, <1>c
  <2>5. Follows(b, Append(E, ev)) /\ Begins(E, Append(E, ev))
    BY <2>2, <2>3, <2>4, FollowsNext
  <2> QED
    BY <1>b, <2>1, <2>5
<1>8. PICK out : out = OutOf(b[n + 1], v)
  OBVIOUS
<1>9. out = ValueOf(x[n + 1]) /\ out \in Nat /\ x[n + 1].val = v
  BY <1>7, <1>8, <1>b DEF OutOf, ValueOf
<1>10. Read(outs, x)
  BY <1>2, <1>7, ReadMore
<1>11. InStep(b, Append(outs, out), c2)
  <2>1. Len(Append(outs, out)) = n + 1 /\ c2.mode = "Record"
    BY <1>1, <1>9, SMTT(20) DEF Records, SameRun
  <2>2. ASSUME NEW i \in 1 .. n + 1, Clocked(b, i)
        PROVE  c2.clock >= x[i].val + Slept(b, i, n + 1)
    <3>0. c2.clock = c3.clock /\ NextClock(b, n, c, c2.clock)
      BY <1>1 DEF Records, TimedNext, SameRun
    <3>1. CASE i \in 1 .. n
      <4>1. x[i] = E[i]
        BY <1>4, <1>7, <3>1 DEF Begins
      <4> QED
        BY <1>2, <2>2, <3>0, <3>1, <4>1 DEF NextClock, Past
    <3>2. CASE i = n + 1
      <4>1. Slept(b, n + 1, n + 1) = 0
        BY SleptMore
      <4>2. c2.clock = v
        BY <1>1, <2>2, <3>0, <3>2 DEF Records, TimedNext
      <4> QED
        BY <1>9, <3>2, <4>1, <4>2
    <3> QED
      BY <3>1, <3>2
  <2>3. ASSUME NEW i \in 1 .. n + 1, b[i] = "mono" PROVE c2.mono >= x[i].val
    <3>0. c2.mono = c3.mono /\ NextMono(b, n, c, c2.mono)
      BY <1>1 DEF Records, TimedNext, SameRun
    <3>1. CASE i \in 1 .. n
      <4>1. x[i] = E[i]
        BY <1>4, <1>7, <3>1 DEF Begins
      <4> QED
        BY <1>2, <2>3, <3>0, <3>1, <4>1 DEF NextMono, NotBehind
    <3>2. CASE i = n + 1
      <4>1. c2.mono = v
        BY <1>1, <2>3, <3>0, <3>2 DEF Records, TimedNext
      <4> QED
        BY <1>9, <3>2, <4>1
    <3> QED
      BY <3>1, <3>2
  <2> QED
    BY <1>3, <1>7, <2>1, <2>2, <2>3 DEF InStep
<1> QED
  BY <1>1, <1>2, <1>3, <1>7, <1>8, <1>9, <1>10, <1>11

\* A file that held the events held all of them after the pump.
LEMMA RecordedWhole ==
    ASSUME NEW R, NEW c3 \in Contexts(R), NEW E \in Seq(Recordings(R)), NEW ev, NEW s, NEW c2,
           NEW d2, NEW s2, NEW b, Follows(b, c3.events), c3.events = Append(E, ev),
           c3.persisted = Len(E), c3.grouped, Wrote(c3, E, s, c2, d2, s2)
    PROVE  d2 = c3.events
<1>1. PICK x \in Seq(Recordings(R)) : x = c3.events
  BY DEF Contexts
<1>2. PICK n \in Nat : n = Len(E)
  OBVIOUS
<1>3. Len(x) = n + 1 /\ \A i \in 1 .. n : x[i] = E[i]
  BY <1>1, <1>2
<1>4. PICK pl : pl = Pending(c3)
  OBVIOUS
<1>5. /\ pl \in Seq(Recordings(R)) /\ Len(pl) = Len(x) - n
      /\ \A i \in 1 .. Len(pl) : pl[i] = x[n + i]
  <2>1. c3.persisted <= Len(c3.events) /\ c3.persisted = n
    BY <1>1, <1>2, <1>3
  <2>2. /\ Pending(c3) \in Seq(Recordings(R))
        /\ Len(Pending(c3)) = Len(c3.events) - c3.persisted
        /\ \A i \in 1 .. Len(Pending(c3)) : Pending(c3)[i] = c3.events[c3.persisted + i]
    BY <2>1, PendingLines
  <2> QED
    BY <1>1, <1>4, <2>1, <2>2
<1>6. Numbered(x)
  BY <1>1, EventsNumbered
<1>7. Repaired(E) = E
  <2>1. \A i \in 1 .. n : E[i].line = "event" /\ E[i].seq = i - 1
    <3>1. \A i \in 1 .. n : i \in 1 .. Len(x)
      BY <1>3
    <3> QED
      BY <1>3, <1>6, <3>1 DEF Numbered
  <2>2. ValidTo(E, Len(E))
    BY <1>2, <2>1, NumberedValid
  <2> QED
    BY <2>2, RepairedWhole
<1>8. d2 = E \o pl
  <2>1. d2 = Appended(E, pl)
    BY <1>4 DEF Wrote
  <2> QED
    BY <1>5, <1>7, <2>1, AppendedWhole
<1>9. /\ d2 \in Seq(Recordings(R)) /\ Len(d2) = Len(E) + Len(pl)
      /\ \A i \in 1 .. Len(E) : d2[i] = E[i]
      /\ \A i \in 1 .. Len(pl) : d2[Len(E) + i] = pl[i]
  <2>1. E \in Seq(Recordings(R)) /\ pl \in Seq(Recordings(R))
    BY <1>5
  <2> QED
    BY <1>8, <2>1, Behind
<1>10. ASSUME NEW i \in 1 .. n + 1 PROVE d2[i] = x[i]
  <2>1. CASE i \in 1 .. n
    BY <1>2, <1>3, <1>9, <2>1
  <2>2. CASE i = n + 1
    <3>1. 1 \in 1 .. Len(pl)
      BY <1>3, <1>5
    <3> QED
      BY <1>2, <1>5, <1>9, <2>2, <3>1
  <2> QED
    BY <2>1, <2>2
<1>11. Len(d2) = Len(x)
  BY <1>2, <1>3, <1>5, <1>9
<1> QED
  BY <1>1, <1>3, <1>9, <1>10, <1>11, SeqEqual

\* The driver and its context after a record: fl2 has the value, or has failed.
LEMMA RecordTracks ==
    ASSUME NEW R, NEW c \in Contexts(R), NEW c3 \in Contexts(R), NEW c2, NEW b \in Seq(Effects),
           NEW dur, NEW fl \in Drivers(R), NEW fl2, NEW d \in Seq(Lines(R)), NEW s, NEW d2, NEW s2,
           Tracks(b, dur, fl, d, c), Len(fl.outs) = Len(c.events), Len(fl.outs) < Len(b),
           c.persisted <= Len(c.events), NEW v \in Nat, Records(b, Len(fl.outs), v, c, c3),
           PumpTo(c3, d, s, c2, d2, s2),
           \/ /\ fl2.st = "body"
              /\ fl2.outs = Append(fl.outs, OutOf(b[Len(fl.outs) + 1], v))
           \/ fl2.st = "err" /\ fl2.outs = fl.outs
    PROVE  /\ Tracks(b, dur, fl2, d2, c2)
           /\ dur = "group" => Begins(Repaired(d), Repaired(d2))
           /\ Unmarked(d) => Unmarked(d2)
           /\ Begins(c.events, c2.events)
           /\ d2 \in Seq(Lines(R))
           /\ c2.persisted <= Len(c2.events)
<1>1. SameRun(c3, c2)
  BY DEF PumpTo, Wrote, Tore
<1>2. Follows(b, c.events) /\ Read(fl.outs, c.events) /\ fl.outs \in Seq(Nat)
  BY DEF Tracks, Drivers
<1>3. PICK out : out = OutOf(b[Len(fl.outs) + 1], v)
  OBVIOUS
<1>4. /\ Follows(b, c2.events) /\ Begins(c.events, c2.events)
      /\ c2.events \in Seq(Recordings(R)) /\ Len(c2.events) = Len(fl.outs) + 1
      /\ out = ValueOf(c2.events[Len(fl.outs) + 1]) /\ out \in Nat
      /\ Read(fl.outs, c2.events)
      /\ InStep(b, Append(fl.outs, out), c2)
  <2>1. PICK outs : outs = fl.outs
    OBVIOUS
  <2>2. /\ outs \in Seq(Nat) /\ Read(outs, c.events) /\ Len(outs) = Len(c.events)
        /\ Len(outs) < Len(b) /\ Records(b, Len(outs), v, c, c3)
    BY <1>2, <2>1
  <2>3. /\ Follows(b, c2.events) /\ Begins(c.events, c2.events)
        /\ c2.events \in Seq(Recordings(R)) /\ Len(c2.events) = Len(outs) + 1
        /\ OutOf(b[Len(outs) + 1], v) = ValueOf(c2.events[Len(outs) + 1])
        /\ OutOf(b[Len(outs) + 1], v) \in Nat
        /\ Read(outs, c2.events)
        /\ InStep(b, Append(outs, OutOf(b[Len(outs) + 1], v)), c2)
    BY <1>1, <1>2, <2>2, RecordedRun
  <2> QED
    BY <1>3, <2>1, <2>3
<1>5. Read(fl2.outs, c2.events)
  <2>1. Len(fl.outs) \in Nat /\ Len(fl.outs) + 1 \in 1 .. Len(c2.events)
        /\ Len(fl.outs) < Len(c2.events)
    BY <1>2, <1>4
  <2>2. c2.events[Len(fl.outs) + 1].line = "event"
    BY <1>4, <2>1, EventsNumbered
  <2>3. Read(Append(fl.outs, out), c2.events)
    BY <1>2, <1>4, <2>1, <2>2, ReadNext
  <2> QED
    BY <1>3, <1>4, <2>3
<1>6. c2.grouped <=> dur = "group"
  <2>1. c2.grouped = c.grouped
    BY <1>1 DEF SameRun, Records
  <2> QED
    BY <2>1 DEF Tracks
<1>7. fl2.st # "err" => InStep(b, fl2.outs, c2)
  BY <1>3, <1>4
<1>8. c3.persisted = c.persisted /\ c3.events = c2.events /\ c3.grouped = c.grouped
  BY <1>1 DEF Records, SameRun
<1>9. c.events \in Seq(Recordings(R)) /\ Len(c.events) \in Nat /\ c.persisted \in Nat
      /\ c3.persisted <= Len(c3.events)
  <2>1. c.events \in Seq(Recordings(R)) /\ c.persisted \in Nat /\ Len(c.events) \in Nat
    BY DEF Contexts
  <2>2. Len(c3.events) = Len(c.events) + 1
    BY <1>4, <1>8
  <2> QED
    BY <1>8, <2>1, <2>2
<1>10. CASE dur = "group"
  <2>1. c3.grouped /\ FileOf(c.events, c.persisted, d)
    BY <1>8, <1>10 DEF Tracks
  <2>2. FileOf(c3.events, c3.persisted, d)
    <3>1. Repaired(d) \in Seq(Lines(R)) /\ c.events \in Seq(Lines(R)) /\ c3.events \in Seq(Lines(R))
      BY <1>4, <1>8, <1>9, RepairedValid, EventsAreLines
    <3>2. Begins(Repaired(d), c3.events)
      BY <1>4, <1>8, <2>1, <3>1, BeginsTrans DEF FileOf
    <3> QED
      BY <1>8, <2>1, <3>2 DEF FileOf
  <2>3. Follows(b, c3.events)
    BY <1>4, <1>8
  <2>4. /\ FileOf(c3.events, c2.persisted, d2)
        /\ Begins(Repaired(d), Repaired(d2))
        /\ d2 \in Seq(Lines(R))
        /\ Unmarked(d) => Unmarked(d2)
    BY <1>9, <2>1, <2>2, <2>3, PumpedTracks
  <2>5. c2.persisted <= Len(c2.events)
    <3>1. c2.persisted = Len(c3.events) \/ c2.persisted = c3.persisted
      BY <2>1 DEF PumpTo, Wrote, Tore
    <3> QED
      BY <1>4, <1>8, <1>9, <3>1
  <2>6. Tracks(b, dur, fl2, d2, c2)
    <3>1. FileOf(c2.events, c2.persisted, d2)
      BY <1>8, <2>4
    <3> QED
      BY <1>4, <1>5, <1>6, <1>7, <3>1 DEF Tracks
  <2> QED
    BY <1>4, <2>4, <2>5, <2>6
<1>11. CASE dur # "group"
  <2>1. ~c3.grouped
    BY <1>8, <1>11 DEF Tracks
  <2>2. d2 = d /\ c2.persisted = c3.persisted
    BY <2>1 DEF PumpTo, Wrote, Tore
  <2>3. Tracks(b, dur, fl2, d2, c2)
    BY <1>4, <1>5, <1>6, <1>7, <1>11 DEF Tracks
  <2> QED
    BY <1>4, <1>8, <1>9, <1>11, <2>2, <2>3
<1> QED
  BY <1>10, <1>11

\* The files of a flow after a record.
LEMMA RecordDurable ==
    ASSUME NEW R, NEW c2, NEW b, NEW dur, NEW fl, NEW fl2, NEW d \in Seq(Lines(R)),
           NEW s \in Seq(Lines(R)), NEW d2 \in Seq(Lines(R)), NEW s2,
           c2.events \in Seq(Recordings(R)), Durable(b, dur, fl, d, s), Tracks(b, dur, fl2, d2, c2),
           dur # "group" => d2 = d /\ s2 = s, s2 \in {s, d2}, Elapsed(b, fl2.outs)
    PROVE  Durable(b, dur, fl2, d2, s2)
<1>1. Follows(b, Shown(dur, d2))
  <2>1. CASE dur = "group"
    <3>1. Repaired(d2) \in Seq(Lines(R)) /\ c2.events \in Seq(Lines(R))
      BY RepairedValid, EventsAreLines
    <3>2. Begins(Repaired(d2), c2.events) /\ Follows(b, c2.events)
      BY <2>1 DEF Tracks, FileOf
    <3>3. Follows(b, Repaired(d2))
      BY <3>1, <3>2, FollowsLess
    <3> QED
      BY <2>1, <3>3 DEF Shown
  <2>2. CASE dur # "group"
    BY <2>2 DEF Durable, Shown
  <2> QED
    BY <2>1, <2>2
<1>2. Follows(b, Shown(dur, s2))
  BY <1>1 DEF Durable
<1> QED
  BY <1>1, <1>2 DEF Durable

\* A group log that grows keeps its promise.
LEMMA GroupPromised ==
    ASSUME NEW R, NEW dur, dur = "group", NEW fl, NEW fl2, NEW d \in Seq(Lines(R)),
           NEW s \in Seq(Lines(R)), NEW d2 \in Seq(Lines(R)), NEW s2, NEW k, NEW k2, NEW t,
           Promised(dur, fl, d, s, k, t), fl.st # "off", fl2.st # "new",
           Begins(Repaired(d), Repaired(d2)), s2 \in {s, d2}, Unmarked(d2),
           Read(k2, Repaired(d2)),
           \A i \in 1 .. Len(fl2.outs) : i <= Len(k2) => fl2.outs[i] = k2[i]
    PROVE  Promised(dur, fl2, d2, s2, k2, t)
<1>1. t = {} /\ Unmarked(d) /\ Synced(d, s)
  BY DEF Promised
<1>2. Begins(Repaired(s2), Repaired(d2))
  <2>1. Repaired(s) \in Seq(Lines(R)) /\ Repaired(d) \in Seq(Lines(R)) /\ Repaired(d2) \in Seq(Lines(R))
    BY RepairedValid
  <2>2. CASE s2 = s
    BY <1>1, <2>1, <2>2, BeginsTrans DEF Synced
  <2>3. CASE s2 = d2
    BY <2>1, <2>3, BeginsItself
  <2> QED
    BY <2>2, <2>3
<1>3. \A i \in 1 .. Len(s2) : s2[i].line = "completed" => s2 = d2
  BY <1>1 DEF Synced, Unmarked
<1>4. Synced(d2, s2)
  BY <1>2, <1>3 DEF Synced, Unmarked
<1> QED
  BY <1>1, <1>4 DEF Promised, Shown

\* A run that is not "new" or "off" and writes no file keeps its promise.
LEMMA QuietPromised ==
    ASSUME NEW dur, NEW fl, NEW fl2, NEW d, NEW s, NEW k, NEW t,
           Promised(dur, fl, d, s, k, t), fl.st # "off", fl2.st # "new",
           \A i \in 1 .. Len(fl2.outs) : i <= Len(k) => fl2.outs[i] = k[i]
    PROVE  Promised(dur, fl2, d, s, k, t)
BY DEF Promised

\* A value is recorded and given to the body, and the pump has not failed.
LEMMA RecordPromised ==
    ASSUME NEW R, NEW c \in Contexts(R), NEW c3 \in Contexts(R), NEW c2, NEW b \in Seq(Effects),
           NEW dur, NEW fl \in Drivers(R), NEW fl2, NEW d \in Seq(Lines(R)),
           NEW s \in Seq(Lines(R)), NEW d2 \in Seq(Lines(R)), NEW s2, NEW k \in Seq(Nat),
           Tracks(b, dur, fl, d, c), Honest(dur, fl, d, k, c), fl.st # "err", fl.st # "off",
           Len(fl.outs) = Len(c.events), NEW v \in Nat,
           Records(b, Len(fl.outs), v, c, c3), Wrote(c3, d, s, c2, d2, s2),
           NEW k2, NEW t, Promised(dur, fl, d, s, k, t),
           fl2.st = "body", fl2.outs = Append(fl.outs, OutOf(b[Len(fl.outs) + 1], v)),
           Tracks(b, dur, fl2, d2, c2), Begins(c.events, c2.events), Unmarked(d) => Unmarked(d2),
           c2.events \in Seq(Recordings(R)), fl2.outs \in Seq(Nat),
           IF c.grouped THEN k2 = fl2.outs ELSE k2 = k
    PROVE  Honest(dur, fl2, d2, k2, c2) /\ Promised(dur, fl2, d2, s2, k2, t)
<1>1. SameRun(c3, c2) /\ c3.events = c2.events /\ c3.persisted = c.persisted /\ c3.grouped = c.grouped
  BY DEF Wrote, SameRun, Records
<1>2. Read(fl2.outs, c2.events) /\ Follows(b, c2.events)
  BY DEF Tracks
<1>3. Unmarked(d2)
  BY DEF Promised
<1>4. PICK E \in Seq(Recordings(R)) : E = c.events
  BY DEF Contexts
<1>5. CASE dur = "group"
  <2>1. c.grouped /\ d = E /\ c.persisted = Len(E) /\ k2 = fl2.outs
    BY <1>4, <1>5 DEF Tracks, Honest
  <2>2. d2 = c2.events
    <3>1. PICK ev : c3.events = Append(E, ev)
      BY <1>4 DEF Records
    <3>2. Follows(b, c3.events) /\ c3.persisted = Len(E) /\ c3.grouped /\ Wrote(c3, E, s, c2, d2, s2)
      BY <1>1, <1>2, <2>1
    <3>3. d2 = c3.events
      BY <1>4, <3>1, <3>2, RecordedWhole
    <3> QED
      BY <1>1, <3>3
  <2>3. c2.persisted = Len(c2.events) /\ s2 \in {s, d2}
    BY <1>1, <2>1 DEF Wrote
  <2>4. Repaired(d2) = d2 /\ Repaired(d) = d
    <3>1. Numbered(c2.events)
      BY <1>2, EventsNumbered
    <3>2. Numbered(E)
      BY <1>4, EventsNumbered DEF Tracks
    <3>3. Len(d2) \in Nat /\ Len(d) \in Nat
      OBVIOUS
    <3>4. ValidTo(d2, Len(d2))
      BY <2>2, <3>1, <3>3, NumberedValid DEF Numbered
    <3>5. ValidTo(d, Len(d))
      BY <2>1, <3>2, <3>3, NumberedValid DEF Numbered
    <3> QED
      BY <3>4, <3>5, RepairedWhole
  <2>5. Honest(dur, fl2, d2, k2, c2)
    BY <1>2, <2>1, <2>2, <2>3 DEF Honest
  <2>6. Begins(Repaired(d), Repaired(d2)) /\ Read(k2, Repaired(d2)) /\ fl2.st # "new"
    BY <1>2, <1>4, <2>1, <2>2, <2>4
  <2>7. \A i \in 1 .. Len(fl2.outs) : i <= Len(k2) => fl2.outs[i] = k2[i]
    BY <2>1
  <2> QED
    BY <1>3, <1>5, <2>3, <2>5, <2>6, <2>7, GroupPromised
<1>6. CASE dur # "group"
  <2>1. ~c.grouped /\ ~c3.grouped /\ k2 = k
    BY <1>1, <1>6 DEF Tracks
  <2>2. d2 = d /\ s2 = s
    BY <2>1 DEF Wrote
  <2>3. c.events \in Seq(Lines(R)) /\ c2.events \in Seq(Lines(R))
    BY <1>4, EventsAreLines
  <2>4. Read(k, c.events) /\ Read(k, c2.events)
    BY <2>3, ReadMore DEF Honest
  <2>5. Honest(dur, fl2, d2, k2, c2)
    BY <1>6, <2>1, <2>4 DEF Honest
  <2>6. ASSUME NEW i \in 1 .. Len(fl2.outs), i <= Len(k) PROVE fl2.outs[i] = k[i]
    <3>1. i \in 1 .. Len(k)
      BY <2>6
    <3>2. k[i] = ValueOf(c2.events[i]) /\ fl2.outs[i] = ValueOf(c2.events[i])
      BY <1>2, <2>4, <3>1 DEF Read
    <3> QED
      BY <3>2
  <2>7. Promised(dur, fl2, d, s, k, t)
    BY <2>6, QuietPromised
  <2> QED
    BY <2>1, <2>2, <2>5, <2>7
<1> QED
  BY <1>5, <1>6

\* The file d, and what is stable of it, s, become d2 and s2, and nothing that
\* was valid is lost.
Grown(dur, d, s, d2, s2) ==
    /\ dur = "group" => Begins(Repaired(d), Repaired(d2))
    /\ Unmarked(d) => Unmarked(d2)
    /\ s2 \in {s, d2}
    /\ dur # "group" => d2 = d /\ s2 = s

\* ctx.call fails because its record could not be written.
LEMMA ThrownPromised ==
    ASSUME NEW R, NEW c \in Contexts(R), NEW c2,
           NEW dur, NEW fl \in Drivers(R), NEW fl2, NEW d \in Seq(Lines(R)),
           NEW s \in Seq(Lines(R)), NEW d2 \in Seq(Lines(R)), NEW s2, NEW k \in Seq(Nat), NEW t,
           Honest(dur, fl, d, k, c), fl.st # "off", Promised(dur, fl, d, s, k, t),
           fl2.st = "err", fl2.outs = fl.outs,
           c2.events \in Seq(Recordings(R)), Begins(c.events, c2.events),
           Grown(dur, d, s, d2, s2)
    PROVE  Honest(dur, fl2, d2, k, c2) /\ Promised(dur, fl2, d2, s2, k, t)
<1>1. Honest(dur, fl2, d2, k, c2)
  <2>1. c.events \in Seq(Lines(R)) /\ c2.events \in Seq(Lines(R))
    BY EventsAreLines DEF Contexts
  <2>2. Read(k, c2.events)
    BY <2>1, ReadMore DEF Honest
  <2> QED
    BY <2>2 DEF Honest
<1>2. \A i \in 1 .. Len(fl2.outs) : i <= Len(k) => fl2.outs[i] = k[i]
  BY DEF Promised
<1>3. CASE dur = "group"
  <2>1. Repaired(d) \in Seq(Lines(R)) /\ Repaired(d2) \in Seq(Lines(R))
    BY RepairedValid
  <2>2. Read(k, Repaired(d)) /\ Unmarked(d2)
    BY <1>3 DEF Promised, Shown, Grown
  <2>3. Read(k, Repaired(d2))
    BY <1>3, <2>1, <2>2, ReadMore DEF Grown
  <2> QED
    BY <1>1, <1>2, <1>3, <2>2, <2>3, GroupPromised, ZenonT(40) DEF Grown
<1>4. CASE dur # "group"
  <2>1. Promised(dur, fl2, d, s, k, t)
    BY <1>2, QuietPromised
  <2> QED
    BY <1>1, <1>4, <2>1 DEF Grown
<1> QED
  BY <1>3, <1>4

-----------------------------------------------------------------------------
(* A step of one flow leaves the others alone.                             *)

\* Only the flow f and its files may change.
Unmoved(f) ==
    /\ durability' = durability
    /\ \A g \in Flows \ {f} :
          /\ flow'[g] = flow[g] /\ body'[g] = body[g]
          /\ disk'[g] = disk[g] /\ stable'[g] = stable[g]
          /\ kept'[g] = kept[g] /\ told'[g] = told[g]
          /\ g \in swallowed' <=> g \in swallowed
          /\ g \in irregular' <=> g \in irregular

\* The contexts have the form of contexts.
LEMMA PlacedOK ==
    ASSUME ResultsInv
    PROVE  /\ Placed \subseteq Contexts(ran)
           /\ \A c \in Placed : c # NoContext /\ c.owner \in Flows
           /\ \A f \in Flows : flow[f].prev # NoContext => flow[f].prev \in Placed
           /\ cell # NoContext => cell \in Placed
<1>1. \A f \in Flows : flow[f].prev \in Contexts(ran) \union {NoContext}
  BY DEF ResultsInv, FlowsTrue, Drivers
<1>2. Placed \subseteq Contexts(ran)
  BY <1>1 DEF ResultsInv, LogsTrue, Placed
<1>3. \A c \in Placed : c # NoContext
  BY DEF Placed
<1>4. \A c \in Contexts(ran) : c.owner \in Flows
  BY DEF Contexts
<1> QED
  BY <1>2, <1>3, <1>4 DEF Placed

\* A context is not NoContext.
LEMMA ContextThere ==
    ASSUME NEW R, NEW c \in Contexts(R)
    PROVE  c # NoContext /\ c.owner \in Flows
<1>1. c.installed = TRUE /\ c.owner \in Flows
  BY DEF Contexts
<1>2. NoContext.installed = FALSE
  BY DEF NoContext
<1> QED
  BY <1>1, <1>2

\* The files of another flow,
LEMMA FrameDurable ==
    ASSUME NEW f, Unmoved(f), NEW g \in Flows \ {f}, DurableIn(g)
    PROVE  DurableIn(g)'
<1>1. /\ durability' = durability /\ flow'[g] = flow[g] /\ body'[g] = body[g]
      /\ disk'[g] = disk[g] /\ stable'[g] = stable[g]
      /\ kept'[g] = kept[g] /\ told'[g] = told[g]
      /\ g \in swallowed' <=> g \in swallowed
      /\ g \in irregular' <=> g \in irregular
  BY DEF Unmoved
<1> QED
  BY <1>1 DEF DurableIn

\* and its context.
LEMMA FrameTracks ==
    ASSUME NEW f, Unmoved(f), NEW c, c.owner \in Flows \ {f}, TracksIn(c)
    PROVE  TracksIn(c)'
<1>1. PICK g \in Flows \ {f} : g = c.owner
  OBVIOUS
<1>2. /\ durability' = durability /\ flow'[g] = flow[g] /\ body'[g] = body[g]
      /\ disk'[g] = disk[g] /\ kept'[g] = kept[g]
      /\ g \in swallowed' <=> g \in swallowed
      /\ g \in irregular' <=> g \in irregular
  BY <1>1 DEF Unmoved
<1> QED
  BY <1>1, <1>2 DEF TracksIn

\* The flow of the installed context takes a step and stays in its run.
LEMMA StepFrame ==
    ASSUME ReplayInv, ResultsInv', Bounded', NEW f \in Flows, MayStep(f), Unmoved(f),
           cell' \in Contexts(ran'), cell'.owner = f, flow'[f].prev = flow[f].prev,
           flow'[f].st \in {"body", "exec", "err"},
           Counted(cell'), TracksIn(cell)', DurableIn(f)'
    PROVE  ReplayInv'
<1>1. cell # NoContext /\ cell.owner = f /\ cell' # NoContext
  BY ContextThere DEF MayStep
<1>2. Nested /\ \A c \in Placed : Counted(c) /\ TracksIn(c)
  BY DEF ReplayInv
<1>3. \A g \in Flows : flow'[g].prev = flow[g].prev
  BY DEF Unmoved
<1>4. ASSUME NEW g \in Flows, flow[g].prev # NoContext
      PROVE  /\ flow[g].prev.owner \in Flows \ {f} /\ flow'[flow[g].prev.owner].st = "exec"
             /\ flow[g].prev \in Placed
  <2>1. flow[g].prev \in Placed /\ flow[g].prev.owner \in Flows
    BY <1>4, PlacedOK DEF ReplayInv
  <2>2. flow[g].prev.owner # f /\ flow[flow[g].prev.owner].st = "exec"
    BY <1>1, <1>2, <1>4 DEF Nested
  <2> QED
    BY <2>1, <2>2 DEF Unmoved
<1>5. Nested'
  <2>1. flow'[cell'.owner].st \in {"body", "exec", "err"}
    OBVIOUS
  <2>2. \A g \in Flows : flow'[g].st \in {"new", "off"} => flow'[g].prev = NoContext
    BY <1>2, <1>3 DEF Nested, Unmoved
  <2>3. ASSUME NEW g \in Flows, flow'[g].prev # NoContext
        PROVE  /\ flow'[flow'[g].prev.owner].st = "exec"
               /\ cell'.owner # flow'[g].prev.owner
               /\ \A h \in Flows \ {g} :
                     flow'[h].prev # NoContext => flow'[h].prev.owner # flow'[g].prev.owner
    BY <1>2, <1>3, <1>4, <2>3 DEF Nested
  <2> QED
    BY <2>1, <2>2, <2>3 DEF Nested
<1>6. ASSUME NEW c \in Placed' PROVE Counted(c) /\ TracksIn(c)'
  <2>1. CASE c = cell'
    BY <2>1
  <2>2. CASE c # cell'
    <3>1. PICK g \in Flows : c = flow'[g].prev /\ c # NoContext
      BY <2>2 DEF Placed
    <3>2. c = flow[g].prev
      BY <1>3, <3>1
    <3>3. c \in Placed /\ c.owner \in Flows \ {f}
      BY <1>4, <3>1, <3>2
    <3> QED
      BY <1>2, <3>3, FrameTracks
  <2> QED
    BY <2>1, <2>2
<1>7. ASSUME NEW g \in Flows PROVE DurableIn(g)'
  BY FrameDurable DEF ReplayInv
<1> QED
  BY <1>5, <1>6, <1>7 DEF ReplayInv

\* The run of the installed context ends, and the displaced context comes back.
LEMMA ReturnFrame ==
    ASSUME ReplayInv, ResultsInv', Bounded', NEW f \in Flows, MayStep(f), Unmoved(f),
           cell' = flow[f].prev, flow'[f] = Driver("off", NoContext), DurableIn(f)'
    PROVE  ReplayInv'
<1>1. cell # NoContext /\ cell.owner = f
  BY DEF MayStep
<1>2. Nested /\ \A c \in Placed : Counted(c) /\ TracksIn(c)
  BY DEF ReplayInv
<1>3. flow'[f].prev = NoContext /\ flow'[f].st = "off"
      /\ \A g \in Flows \ {f} : flow'[g].prev = flow[g].prev /\ flow'[g].st = flow[g].st
  BY DEF Unmoved, Driver
<1>4. ASSUME NEW g \in Flows, flow[g].prev # NoContext
      PROVE  /\ flow[g].prev.owner \in Flows \ {f} /\ flow'[flow[g].prev.owner].st = "exec"
             /\ flow[g].prev \in Placed
  <2>1. flow[g].prev \in Placed /\ flow[g].prev.owner \in Flows
    BY <1>4, PlacedOK DEF ReplayInv
  <2>2. flow[g].prev.owner # f /\ flow[flow[g].prev.owner].st = "exec"
    BY <1>1, <1>2, <1>4 DEF Nested
  <2> QED
    BY <2>1, <2>2 DEF Unmoved
<1>5. Nested'
  <2>1. cell' # NoContext => flow'[cell'.owner].st \in {"body", "exec", "err"}
    BY <1>4
  <2>2. \A g \in Flows : flow'[g].st \in {"new", "off"} => flow'[g].prev = NoContext
    BY <1>2, <1>3 DEF Nested
  <2>3. ASSUME NEW g \in Flows, flow'[g].prev # NoContext
        PROVE  /\ flow'[flow'[g].prev.owner].st = "exec"
               /\ cell' # NoContext => cell'.owner # flow'[g].prev.owner
               /\ \A h \in Flows \ {g} :
                     flow'[h].prev # NoContext => flow'[h].prev.owner # flow'[g].prev.owner
    <3>1. g # f /\ flow'[g].prev = flow[g].prev
      BY <1>3, <2>3
    <3>2. flow'[flow'[g].prev.owner].st = "exec"
      BY <1>4, <2>3, <3>1
    <3>3. cell' # NoContext => cell'.owner # flow'[g].prev.owner
      BY <1>2, <2>3, <3>1 DEF Nested
    <3>4. \A h \in Flows \ {g} :
             flow'[h].prev # NoContext => flow'[h].prev.owner # flow'[g].prev.owner
      BY <1>2, <1>3, <2>3, <3>1 DEF Nested
    <3> QED
      BY <3>2, <3>3, <3>4
  <2> QED
    BY <2>1, <2>2, <2>3 DEF Nested
<1>6. ASSUME NEW c \in Placed' PROVE Counted(c) /\ TracksIn(c)'
  <2>1. PICK g \in Flows : c = flow[g].prev /\ c # NoContext
    BY <1>3 DEF Placed
  <2>2. c \in Placed /\ c.owner \in Flows \ {f}
    BY <1>4, <2>1
  <2> QED
    BY <1>2, <2>2, FrameTracks
<1>7. ASSUME NEW g \in Flows PROVE DurableIn(g)'
  BY FrameDurable DEF ReplayInv
<1> QED
  BY <1>5, <1>6, <1>7 DEF ReplayInv

\* A flow that does not run has no context.
LEMMA IdleOwner ==
    ASSUME ReplayInv, NEW f \in Flows, flow[f].st \in {"new", "off"}, NEW c \in Placed
    PROVE  c.owner \in Flows \ {f} /\ Counted(c) /\ TracksIn(c)
<1>1. c.owner \in Flows /\ c # NoContext /\ Nested /\ Counted(c) /\ TracksIn(c)
  BY PlacedOK DEF ReplayInv
<1>2. c = cell \/ \E g \in Flows : c = flow[g].prev
  BY DEF Placed
<1>3. flow[c.owner].st \in {"body", "exec", "err"}
  BY <1>1, <1>2 DEF Nested
<1> QED
  BY <1>1, <1>3

\* A run begins, perhaps inside an activity of another.
LEMMA InstallFrame ==
    ASSUME ReplayInv, ResultsInv', Bounded', NEW f \in Flows, flow[f].st \in {"new", "off"},
           MayStart, Unmoved(f), cell' \in Contexts(ran'), cell'.owner = f,
           flow'[f] = Driver("body", cell), Counted(cell'), TracksIn(cell)', DurableIn(f)'
    PROVE  ReplayInv'
<1>1. cell' # NoContext /\ flow'[f].prev = cell /\ flow'[f].st = "body"
  BY ContextThere DEF Driver
<1>2. Nested
  BY DEF ReplayInv
<1>3. \A g \in Flows \ {f} : flow'[g] = flow[g]
  BY DEF Unmoved
<1>4. cell # NoContext => cell.owner \in Flows \ {f} /\ flow[cell.owner].st = "exec"
  BY IdleOwner, PlacedOK DEF MayStart, ReplayInv
<1>5. ASSUME NEW g \in Flows \ {f}, flow[g].prev # NoContext
      PROVE  /\ flow[g].prev.owner \in Flows \ {f}
             /\ flow[flow[g].prev.owner].st = "exec"
             /\ cell # NoContext => cell.owner # flow[g].prev.owner
  <2>1. flow[g].prev \in Placed
    BY <1>5, PlacedOK DEF ReplayInv
  <2>2. flow[g].prev.owner \in Flows \ {f}
    BY <2>1, IdleOwner
  <2> QED
    BY <1>2, <1>5, <2>2 DEF Nested
<1>6. Nested'
  <2>1. flow'[cell'.owner].st \in {"body", "exec", "err"}
    BY <1>1
  <2>2. \A g \in Flows : flow'[g].st \in {"new", "off"} => flow'[g].prev = NoContext
    BY <1>1, <1>2, <1>3 DEF Nested
  <2>3. ASSUME NEW g \in Flows, flow'[g].prev # NoContext
        PROVE  /\ flow'[flow'[g].prev.owner].st = "exec"
               /\ cell'.owner # flow'[g].prev.owner
               /\ \A h \in Flows \ {g} :
                     flow'[h].prev # NoContext => flow'[h].prev.owner # flow'[g].prev.owner
    <3>1. CASE g = f
      <4>1. flow'[flow'[g].prev.owner].st = "exec" /\ cell'.owner # flow'[g].prev.owner
        BY <1>1, <1>3, <1>4, <2>3, <3>1
      <4>2. \A h \in Flows \ {g} :
               flow'[h].prev # NoContext => flow'[h].prev.owner # flow'[g].prev.owner
        BY <1>1, <1>3, <1>5, <2>3, <3>1
      <4> QED
        BY <4>1, <4>2
    <3>2. CASE g # f
      <4>1. flow'[g] = flow[g] /\ flow[g].prev # NoContext
        BY <1>3, <2>3, <3>2
      <4>2. flow'[flow'[g].prev.owner].st = "exec" /\ cell'.owner # flow'[g].prev.owner
        BY <1>3, <1>5, <3>2, <4>1
      <4>3. ASSUME NEW h \in Flows \ {g}, flow'[h].prev # NoContext
            PROVE  flow'[h].prev.owner # flow'[g].prev.owner
        <5>1. CASE h = f
          BY <1>1, <1>5, <3>2, <4>1, <4>3, <5>1
        <5>2. CASE h # f
          <6>1. flow'[h] = flow[h] /\ flow[h].prev # NoContext
            BY <1>3, <4>3, <5>2
          <6> QED
            BY <1>2, <4>1, <6>1 DEF Nested
        <5> QED
          BY <5>1, <5>2
      <4> QED
        BY <4>2, <4>3
    <3> QED
      BY <3>1, <3>2
  <2> QED
    BY <2>1, <2>2, <2>3 DEF Nested
<1>7. ASSUME NEW c \in Placed' PROVE Counted(c) /\ TracksIn(c)'
  <2>1. CASE c = cell'
    BY <2>1
  <2>2. CASE c # cell'
    <3>1. c \in Placed
      BY <1>1, <1>3, <2>2 DEF Placed
    <3> QED
      BY <3>1, IdleOwner, FrameTracks
  <2> QED
    BY <2>1, <2>2
<1>8. ASSUME NEW g \in Flows PROVE DurableIn(g)'
  BY FrameDurable DEF ReplayInv
<1> QED
  BY <1>6, <1>7, <1>8 DEF ReplayInv

\* Something happens to a flow that does not run.
LEMMA IdleFrame ==
    ASSUME ReplayInv, ResultsInv', Bounded', NEW f \in Flows, flow[f].st \in {"new", "off"},
           Unmoved(f), cell' = cell, flow' = flow, DurableIn(f)'
    PROVE  ReplayInv'
<1>1. Nested'
  BY DEF ReplayInv, Nested
<1>2. Placed' = Placed
  BY DEF Placed
<1>3. ASSUME NEW c \in Placed' PROVE Counted(c) /\ TracksIn(c)'
  BY <1>2, IdleOwner, FrameTracks
<1>4. ASSUME NEW g \in Flows PROVE DurableIn(g)'
  BY FrameDurable DEF ReplayInv
<1> QED
  BY <1>1, <1>3, <1>4 DEF ReplayInv

\* A restart leaves no context.
LEMMA RestartFrame ==
    ASSUME ReplayInv, ResultsInv', Bounded', Restart, \A f \in Flows : DurableIn(f)'
    PROVE  ReplayInv'
<1>1. cell' = NoContext
  BY DEF Restart
<1>2. ASSUME NEW f \in Flows PROVE flow'[f].prev = NoContext
  <2>1. flow'[f] = IF flow[f].st = "new" THEN flow[f] ELSE Driver("off", NoContext)
    BY DEF Restart
  <2> QED
    BY <2>1 DEF Driver, ReplayInv, Nested
<1>3. Nested'
  BY <1>1, <1>2 DEF Nested
<1>4. Placed' = {}
  BY <1>1, <1>2 DEF Placed
<1> QED
  BY <1>3, <1>4 DEF ReplayInv

-----------------------------------------------------------------------------
(* The effects of the body.                                                *)

\* What the appender does to the files of the flow it belongs to.
LEMMA PumpedIs ==
    ASSUME NEW R, NEW c \in Contexts(R), NEW p \in Pumped(c)
    PROVE  \E d2, s2 :
              /\ p.disk = [disk EXCEPT ![c.owner] = d2]
              /\ p.stable = [stable EXCEPT ![c.owner] = s2]
              /\ PumpTo(c, disk[c.owner], stable[c.owner], p.ctx, d2, s2)
              /\ p.ok => Wrote(c, disk[c.owner], stable[c.owner], p.ctx, d2, s2)
<1>1. PICK d : d = disk[c.owner]
  OBVIOUS
<1>2. PICK s : s = stable[c.owner]
  OBVIOUS
<1>3. CASE ~c.grouped
  <2>1. p = Outcome(c, d, s, TRUE)
    BY <1>1, <1>2, <1>3 DEF Pumped
  <2>2. p.disk = [disk EXCEPT ![c.owner] = d] /\ p.stable = [stable EXCEPT ![c.owner] = s]
        /\ p.ctx = c
    BY <2>1 DEF Outcome
  <2>3. Wrote(c, d, s, p.ctx, d, s)
    BY <1>3, <2>2 DEF Wrote, SameRun
  <2> QED
    BY <1>1, <1>2, <2>2, <2>3 DEF PumpTo
<1>4. CASE c.grouped
  <2>1. PICK ls : ls = Pending(c)
    OBVIOUS
  <2>2. PICK w : w = [c EXCEPT !.persisted = Len(c.events), !.unsynced = @ + Len(ls)]
    OBVIOUS
  <2>3. p \in Written(c, w, ls)
    BY <1>4, <2>1, <2>2 DEF Pumped, Pending
  <2>4. PICK d3 : d3 = Appended(d, ls)
    OBVIOUS
  <2>5. \/ p = Outcome([w EXCEPT !.unsynced = 0], d3, IF w.unsynced = 0 THEN s ELSE d3, TRUE)
        \/ p = Outcome(w, d3, s, TRUE)
        \/ p = Outcome(w, d3, s, FALSE)
        \/ \E q \in PartlyAppended(d, ls) : p = Outcome(c, q, s, FALSE)
    BY <1>1, <1>2, <2>3, <2>4 DEF Written
  <2>6. SameRun(c, w) /\ w.persisted = Len(c.events) /\ w.owner = c.owner
    BY <2>2 DEF SameRun, Contexts
  <2>7. PICK w0 : w0 = [w EXCEPT !.unsynced = 0]
    OBVIOUS
  <2>8. SameRun(c, w0) /\ w0.persisted = Len(c.events) /\ w0.owner = c.owner
    BY <2>2, <2>7 DEF SameRun, Contexts
  <2>9. \A x, y \in {s, d3} : Wrote(c, d, s, w, d3, x) /\ Wrote(c, d, s, w0, d3, x)
    BY <1>4, <2>1, <2>4, <2>6, <2>8 DEF Wrote
  <2>10. CASE p = Outcome(w0, d3, IF w.unsynced = 0 THEN s ELSE d3, TRUE)
    <3>1. PICK x \in {s, d3} : x = IF w.unsynced = 0 THEN s ELSE d3
      OBVIOUS
    <3>2. /\ p.disk = [disk EXCEPT ![c.owner] = d3] /\ p.stable = [stable EXCEPT ![c.owner] = x]
          /\ p.ctx = w0
      BY <2>8, <2>10, <3>1 DEF Outcome
    <3>3. Wrote(c, d, s, p.ctx, d3, x)
      BY <2>9, <3>1, <3>2
    <3> QED
      BY <1>1, <1>2, <3>2, <3>3 DEF PumpTo
  <2>11. CASE p = Outcome(w, d3, s, TRUE) \/ p = Outcome(w, d3, s, FALSE)
    <3>1. /\ p.disk = [disk EXCEPT ![c.owner] = d3] /\ p.stable = [stable EXCEPT ![c.owner] = s]
          /\ p.ctx = w
      BY <2>6, <2>11 DEF Outcome
    <3>2. Wrote(c, d, s, p.ctx, d3, s)
      BY <2>9, <3>1
    <3> QED
      BY <1>1, <1>2, <3>1, <3>2 DEF PumpTo
  <2>12. CASE \E q \in PartlyAppended(d, ls) : p = Outcome(c, q, s, FALSE)
    <3>1. PICK q \in PartlyAppended(d, ls) : p = Outcome(c, q, s, FALSE)
      BY <2>12
    <3>2. /\ p.disk = [disk EXCEPT ![c.owner] = q] /\ p.stable = [stable EXCEPT ![c.owner] = s]
          /\ p.ctx = c /\ p.ok = FALSE
      BY <3>1 DEF Outcome
    <3>3. Tore(c, d, s, p.ctx, q, s)
      BY <1>4, <2>1, <3>1, <3>2 DEF Tore, SameRun
    <3> QED
      BY <1>1, <1>2, <3>2, <3>3 DEF PumpTo
  <2> QED
    BY <2>5, <2>7, <2>10, <2>11, <2>12
<1> QED
  BY <1>3, <1>4

\* The flow that runs, and what the invariant says of it.
LEMMA Running ==
    ASSUME ReplayInv, NEW f \in Flows, MayStep(f)
    PROVE  /\ cell \in Contexts(ran) /\ cell.owner = f /\ Counted(cell)
           /\ flow[f] \in Drivers(ran) /\ flow[f].st \in {"body", "exec", "err"}
           /\ disk[f] \in Seq(Lines(ran)) /\ stable[f] \in Seq(Lines(ran))
           /\ body[f] \in Seq(Effects) /\ kept[f] \in Seq(Nat)
<1>1. ResultsInv /\ cell # NoContext /\ cell.owner = f
  BY DEF ReplayInv, MayStep
<1>2. cell \in Placed /\ cell \in Contexts(ran)
  BY <1>1, PlacedOK
<1>3. Counted(cell) /\ flow[f].st \in {"body", "exec", "err"}
  BY <1>1, <1>2 DEF ReplayInv, Nested
<1>4. flow[f] \in Drivers(ran) /\ body[f] \in Seq(Effects)
  BY <1>1 DEF ResultsInv, FlowsTrue, LogsTrue
<1>5. disk[f] \in Seq(Lines(ran)) /\ stable[f] \in Seq(Lines(ran))
  BY <1>1 DEF ResultsInv, LogsTrue, Files
<1>6. kept[f] \in Seq(Nat)
  BY DEF ReplayInv, Bounded
<1> QED
  BY <1>1, <1>2, <1>3, <1>4, <1>5, <1>6

\* The same, for unchanged code.
LEMMA RunsUnchanged ==
    ASSUME ReplayInv, NEW f \in Flows, MayStep(f), f \notin irregular
    PROVE  /\ Tracks(body[f], durability[f], flow[f], disk[f], cell)
           /\ f \notin swallowed => Honest(durability[f], flow[f], disk[f], kept[f], cell)
           /\ Durable(body[f], durability[f], flow[f], disk[f], stable[f])
           /\ f \notin swallowed =>
                 Promised(durability[f], flow[f], disk[f], stable[f], kept[f], told[f])
<1>1. cell \in Placed /\ cell.owner = f
  BY PlacedOK DEF ReplayInv, MayStep
<1>2. TracksIn(cell) /\ DurableIn(f)
  BY <1>1 DEF ReplayInv
<1> QED
  BY <1>1, <1>2 DEF TracksIn, DurableIn

\* With unchanged code the next event is that of the next effect, or there is
\* none.
LEMMA NextIsHit ==
    ASSUME NEW R, NEW c \in Contexts(R), Counted(c), NEW b, NEW outs \in Seq(Nat),
           Follows(b, c.events), InStep(b, outs, c), NEW e, e = b[Len(outs) + 1]
    PROVE  /\ ~Stray(c, e)
           /\ Exhausted(c) => Len(outs) = Len(c.events)
           /\ ~Exhausted(c) => /\ c.mode = "Replay" /\ c.cursor = Len(outs)
                               /\ c.cursor < Len(c.events)
                               /\ NextEvent(c) = c.events[Len(outs) + 1]
<1>1. c.events \in Seq(Recordings(R)) /\ c.cursor \in Nat /\ c.mode \in {"Record", "Replay"}
      /\ Len(c.events) \in Nat
  BY DEF Contexts
<1>2. Exhausted(c) => Len(outs) = Len(c.events)
  BY <1>1 DEF Exhausted, InStep, Counted
<1>3. ASSUME ~Exhausted(c)
      PROVE  /\ c.mode = "Replay" /\ c.cursor = Len(outs) /\ c.cursor < Len(c.events)
             /\ NextEvent(c) = c.events[Len(outs) + 1]
  BY <1>1, <1>3 DEF Exhausted, InStep, NextEvent
<1>4. ASSUME ~Exhausted(c) PROVE NextEvent(c).effect = e
  <2>1. Len(outs) + 1 \in 1 .. Len(c.events)
    BY <1>1, <1>3, <1>4
  <2> QED
    BY <1>1, <1>3, <1>4, <2>1, EventsNumbered
<1> QED
  BY <1>2, <1>3, <1>4 DEF Stray

\* The driver after an effect.
LEMMA GiveFields ==
    ASSUME FlowsTrue, NEW f \in Flows, NEW v, Give(f, v)
    PROVE  /\ flow'[f].st = "body" /\ flow'[f].outs = Append(flow[f].outs, v)
           /\ flow'[f].act = flow[f].act /\ flow'[f].prev = flow[f].prev
           /\ \A g \in Flows \ {f} : flow'[g] = flow[g]
BY DEF Give, FlowsTrue, Drivers

\* The driver after an error that ends the body.
LEMMA ThrowFields ==
    ASSUME FlowsTrue, NEW f \in Flows, flow' = [flow EXCEPT ![f].st = "err"]
    PROVE  /\ flow'[f].st = "err" /\ flow'[f].outs = flow[f].outs
           /\ flow'[f].act = flow[f].act /\ flow'[f].prev = flow[f].prev
           /\ \A g \in Flows \ {f} : flow'[g] = flow[g]
BY DEF FlowsTrue, Drivers

\* The bounds hold on when only the driver of f changes.
LEMMA BoundedStep ==
    ASSUME Bounded, NEW f \in Flows, UNCHANGED <<durability, body, told, ran>>,
           flow'[f].act = flow[f].act, \A g \in Flows \ {f} : flow'[g] = flow[g],
           kept' \in [Flows -> Seq(Nat)]
    PROVE  Bounded'
<1>1. \A g \in Flows : flow'[g].act = flow[g].act
  OBVIOUS
<1> QED
  BY <1>1 DEF Bounded

\* The body of f is given the value of the event at the cursor.
LEMMA ReplayStep ==
    ASSUME ReplayInv, ResultsInv', NEW f \in Flows, NEW e, At(f, e), NEW c \in Contexts(ran), NEW v,
           ReplayAndGive(f, c, v), ~Exhausted(cell),
           c.owner = f, c.mode = cell.mode, c.events = cell.events, c.grouped = cell.grouped,
           c.persisted = cell.persisted, c.cursor = cell.cursor,
           f \notin irregular =>
              /\ v = ValueOf(NextEvent(cell))
              /\ TimedNext(body[f], cell.cursor, NextEvent(cell).val, cell, c)
    PROVE  ReplayInv'
<1>1. MayStep(f) /\ flow[f].st = "body" /\ e = body[f][Len(flow[f].outs) + 1]
  BY DEF At
<1>2. /\ cell \in Contexts(ran) /\ cell.owner = f /\ Counted(cell)
      /\ flow[f] \in Drivers(ran) /\ disk[f] \in Seq(Lines(ran))
  BY <1>1, Running
<1>3. UNCHANGED <<durability, body, disk, stable, ran, kept, told, swallowed, irregular>> /\ Give(f, v)
  BY DEF ReplayAndGive, files, history
<1>4. /\ flow'[f].st = "body" /\ flow'[f].outs = Append(flow[f].outs, v)
      /\ flow'[f].act = flow[f].act /\ flow'[f].prev = flow[f].prev
      /\ \A g \in Flows \ {f} : flow'[g] = flow[g]
  BY <1>3, GiveFields DEF ReplayInv, ResultsInv
<1>5. PICK c2 : c2 = [c EXCEPT !.cursor = c.cursor + 1]
  OBVIOUS
<1>6. /\ c2 \in Contexts(ran) /\ c2.owner = f /\ c2.mode = c.mode /\ c2.events = c.events
      /\ c2.grouped = c.grouped /\ c2.persisted = c.persisted /\ c2.clock = c.clock
      /\ c2.mono = c.mono /\ c2.cursor = cell.cursor + 1
  <2>1. cell.cursor \in Nat
    BY <1>2 DEF Contexts
  <2>2. c.cursor + 1 \in Nat /\ c.cursor + 1 = cell.cursor + 1
    BY <2>1
  <2>3. PICK n \in Nat : n = c.cursor + 1
    BY <2>2
  <2>4. c2 = [c EXCEPT !.cursor = n]
    BY <1>5, <2>3
  <2>5. c2 \in Contexts(ran)
    BY <2>3, <2>4, CountersOK
  <2>6. c2.owner = c.owner /\ c2.mode = c.mode /\ c2.events = c.events
        /\ c2.grouped = c.grouped /\ c2.persisted = c.persisted /\ c2.clock = c.clock
        /\ c2.mono = c.mono /\ c2.cursor = n
    BY <2>4 DEF Contexts
  <2> QED
    BY <2>2, <2>3, <2>5, <2>6
<1>7. cell' = c2
  BY <1>5 DEF ReplayAndGive
<1>8. cell.cursor < Len(cell.events) /\ cell.mode = "Replay" /\ cell.cursor \in Nat
      /\ Len(cell.events) \in Nat /\ NextEvent(cell) = cell.events[cell.cursor + 1]
  BY <1>2 DEF Exhausted, Contexts, NextEvent
<1>9. Counted(cell')
  BY <1>2, <1>6, <1>7, <1>8 DEF Counted
<1>10. Bounded'
  BY <1>3, <1>4, BoundedStep DEF ReplayInv, Bounded
<1>11. Unmoved(f)
  BY <1>3, <1>4 DEF Unmoved
<1>12. ASSUME f \notin irregular
       PROVE  /\ Tracks(body[f], durability[f], flow'[f], disk[f], cell')
              /\ Elapsed(body[f], flow'[f].outs)
              /\ f \notin swallowed =>
                    /\ Honest(durability[f], flow'[f], disk[f], kept[f], cell')
                    /\ Promised(durability[f], flow'[f], disk[f], stable[f], kept[f], told[f])
  <2>1. PICK fl2 : fl2 = flow'[f]
    OBVIOUS
  <2>2. PICK fl : fl = flow[f]
    OBVIOUS
  <2>3. PICK b : b = body[f]
    OBVIOUS
  <2>4. /\ Tracks(b, durability[f], fl, disk[f], cell)
        /\ f \notin swallowed => Honest(durability[f], fl, disk[f], kept[f], cell)
        /\ Durable(b, durability[f], fl, disk[f], stable[f])
        /\ f \notin swallowed => Promised(durability[f], fl, disk[f], stable[f], kept[f], told[f])
    BY <1>1, <1>12, <2>2, <2>3, RunsUnchanged
  <2>5. InStep(b, fl.outs, cell) /\ Follows(b, cell.events) /\ Read(fl.outs, cell.events)
        /\ Elapsed(b, fl.outs)
    BY <1>1, <2>2, <2>4 DEF Tracks, Durable
  <2>6. fl \in Drivers(ran) /\ fl.outs \in Seq(Nat) /\ fl.st = "body"
    BY <1>1, <1>2, <2>2 DEF Drivers
  <2>7. cell.cursor = Len(fl.outs)
    BY <1>8, <2>5 DEF InStep
  <2>8. v = ValueOf(cell.events[Len(fl.outs) + 1]) /\ fl2.outs = Append(fl.outs, v) /\ fl2.st = "body"
    BY <1>4, <1>8, <1>12, <2>1, <2>2, <2>7
  <2>9. Tracks(b, durability[f], fl2, disk[f], c2)
    <3>1. /\ c2.mode = "Replay" /\ c2.events = cell.events /\ c2.grouped = cell.grouped
          /\ c2.persisted = cell.persisted /\ c2.cursor = cell.cursor + 1
      BY <1>6, <1>8
    <3>2. TimedNext(b, cell.cursor, cell.events[cell.cursor + 1].val, cell, c2)
      BY <1>6, <1>8, <1>12, <2>3 DEF TimedNext
    <3>3. fl2.outs = Append(fl.outs, ValueOf(cell.events[cell.cursor + 1]))
      BY <2>7, <2>8
    <3> QED
      BY <1>2, <1>6, <1>8, <2>4, <2>6, <2>8, <3>1, <3>2, <3>3, ReplayTracks
  <2>10. v \in Nat /\ cell.events \in Seq(Recordings(ran)) /\ Len(fl.outs) < Len(cell.events)
    <3>1. cell.events \in Seq(Recordings(ran)) /\ cell.cursor + 1 \in 1 .. Len(cell.events)
      BY <1>2, <1>8 DEF Contexts
    <3>2. cell.events[cell.cursor + 1].val \in Nat
      BY <2>5, <3>1, EventsNumbered
    <3> QED
      BY <1>8, <2>7, <2>8, <3>1, <3>2 DEF ValueOf
  <2>11. Elapsed(b, fl2.outs) /\ Read(fl2.outs, cell.events)
    BY <2>5, <2>6, <2>8, <2>10, ElapsedNext
  <2>12. ASSUME f \notin swallowed
         PROVE  /\ Honest(durability[f], fl2, disk[f], kept[f], c2)
                /\ Promised(durability[f], fl2, disk[f], stable[f], kept[f], told[f])
    <3>1. Honest(durability[f], fl, disk[f], kept[f], cell)
          /\ Promised(durability[f], fl, disk[f], stable[f], kept[f], told[f])
      BY <2>4, <2>12
    <3>2. Honest(durability[f], fl2, disk[f], kept[f], c2)
      BY <1>6, <2>6, <2>8, <3>1 DEF Honest
    <3>3. \A i \in 1 .. Len(fl2.outs) : i <= Len(kept[f]) => fl2.outs[i] = kept[f][i]
      <4>1. kept[f] \in Seq(Nat) /\ Read(kept[f], cell.events)
        BY <1>1, <3>1, Running DEF Honest
      <4> QED
        BY <2>11, <4>1 DEF Read
    <3> QED
      BY <2>6, <2>8, <3>1, <3>2, <3>3, QuietPromised
  <2> QED
    BY <1>7, <2>1, <2>3, <2>9, <2>11, <2>12
<1>13. TracksIn(cell)'
  BY <1>3, <1>6, <1>7, <1>12 DEF TracksIn
<1>14. DurableIn(f)'
  <2>1. ASSUME f \notin irregular PROVE Durable(body[f], durability[f], flow'[f], disk[f], stable[f])
    BY <1>1, <1>12, <2>1, RunsUnchanged DEF Durable
  <2> QED
    BY <1>3, <1>12, <2>1 DEF DurableIn
<1> QED
  BY <1>1, <1>3, <1>4, <1>6, <1>7, <1>9, <1>10, <1>11, <1>13, <1>14, StepFrame

\* The driver fl of the body b becomes fl2: it is given the value v of its next
\* effect, or an error.
Got(b, fl, fl2, v) ==
    \/ /\ fl2.st = "body"
       /\ fl2.outs = Append(fl.outs, OutOf(b[Len(fl.outs) + 1], v))
    \/ fl2.st = "err" /\ fl2.outs = fl.outs

\* A record keeps the flow in step with its context, and its files in order.
LEMMA RecordKeeps ==
    ASSUME NEW R, NEW c \in Contexts(R), NEW c3 \in Contexts(R), NEW c2, NEW b \in Seq(Effects),
           NEW dur, NEW fl \in Drivers(R), NEW fl2, NEW d \in Seq(Lines(R)),
           NEW s \in Seq(Lines(R)), NEW d2, NEW s2,
           Tracks(b, dur, fl, d, c), Len(fl.outs) = Len(c.events), Len(fl.outs) < Len(b),
           c.persisted <= Len(c.events), NEW v \in Nat, Records(b, Len(fl.outs), v, c, c3),
           PumpTo(c3, d, s, c2, d2, s2), Durable(b, dur, fl, d, s), Got(b, fl, fl2, v)
    PROVE  /\ Tracks(b, dur, fl2, d2, c2)
           /\ Durable(b, dur, fl2, d2, s2)
           /\ Grown(dur, d, s, d2, s2)
           /\ Begins(c.events, c2.events)
           /\ d2 \in Seq(Lines(R)) /\ c2.events \in Seq(Recordings(R)) /\ fl2.outs \in Seq(Nat)
<1>1. SameRun(c3, c2)
  BY DEF PumpTo, Wrote, Tore
<1>2. Follows(b, c.events) /\ Read(fl.outs, c.events) /\ fl.outs \in Seq(Nat) /\ Elapsed(b, fl.outs)
  BY DEF Tracks, Drivers, Durable
<1>3. /\ Tracks(b, dur, fl2, d2, c2)
      /\ dur = "group" => Begins(Repaired(d), Repaired(d2))
      /\ Unmarked(d) => Unmarked(d2)
      /\ Begins(c.events, c2.events)
      /\ d2 \in Seq(Lines(R))
  <2>1. \/ /\ fl2.st = "body"
           /\ fl2.outs = Append(fl.outs, OutOf(b[Len(fl.outs) + 1], v))
        \/ fl2.st = "err" /\ fl2.outs = fl.outs
    BY DEF Got
  <2> QED
    BY <2>1, RecordTracks, ZenonT(60)
<1>4. PICK outs \in Seq(Nat) : outs = fl.outs
  BY <1>2
<1>5. PICK out : out = OutOf(b[Len(outs) + 1], v)
  OBVIOUS
<1>6. /\ Follows(b, c2.events) /\ c2.events \in Seq(Recordings(R)) /\ Len(c2.events) = Len(outs) + 1
      /\ out = ValueOf(c2.events[Len(outs) + 1]) /\ out \in Nat /\ Read(outs, c2.events)
  <2>1. Follows(b, c.events) /\ Read(outs, c.events) /\ Len(outs) = Len(c.events)
        /\ Len(outs) < Len(b) /\ Records(b, Len(outs), v, c, c3)
    BY <1>2, <1>4
  <2>2. /\ Follows(b, c2.events) /\ Begins(c.events, c2.events)
        /\ c2.events \in Seq(Recordings(R)) /\ Len(c2.events) = Len(outs) + 1
        /\ OutOf(b[Len(outs) + 1], v) = ValueOf(c2.events[Len(outs) + 1])
        /\ OutOf(b[Len(outs) + 1], v) \in Nat
        /\ Read(outs, c2.events)
        /\ InStep(b, Append(outs, OutOf(b[Len(outs) + 1], v)), c2)
    BY <1>1, <2>1, RecordedRun
  <2> QED
    BY <1>5, <2>2
<1>7. Elapsed(b, Append(outs, out)) /\ Append(outs, out) \in Seq(Nat)
  <2>1. Len(outs) < Len(c2.events) /\ Elapsed(b, outs)
    BY <1>2, <1>4, <1>6
  <2> QED
    BY <1>4, <1>6, <2>1, ElapsedNext
<1>8. Elapsed(b, fl2.outs) /\ fl2.outs \in Seq(Nat)
  BY <1>2, <1>4, <1>5, <1>7 DEF Got
<1>9. s2 \in {s, d2}
  BY DEF PumpTo, Wrote, Tore
<1>10. dur # "group" => d2 = d /\ s2 = s
  <2>1. c3.grouped = c.grouped
    BY DEF Records
  <2>2. c.grouped <=> dur = "group"
    BY DEF Tracks
  <2> QED
    BY <2>1, <2>2 DEF PumpTo, Wrote, Tore
<1>11. Durable(b, dur, fl2, d2, s2)
  BY <1>3, <1>6, <1>8, <1>9, <1>10, RecordDurable
<1>12. Grown(dur, d, s, d2, s2)
  BY <1>3, <1>9, <1>10 DEF Grown
<1> QED
  BY <1>3, <1>6, <1>8, <1>11, <1>12

\* The body of f gets the value it recorded, or an error; ok says whether the
\* pump succeeded.
Recording(f, v, ok) ==
    /\ flow'[f].act = flow[f].act /\ flow'[f].prev = flow[f].prev
    /\ \A g \in Flows \ {f} : flow'[g] = flow[g]
    /\ \/ /\ flow'[f].st = "body"
          /\ flow'[f].outs = Append(flow[f].outs, OutOf(body[f][Len(flow[f].outs) + 1], v))
          /\ IF ok
             THEN /\ swallowed' = swallowed
                  /\ kept' = IF cell.grouped THEN [kept EXCEPT ![f] = flow'[f].outs] ELSE kept
             ELSE swallowed' = swallowed \union {f} /\ kept' = kept
       \/ /\ flow'[f].st = "err" /\ flow'[f].outs = flow[f].outs
          /\ swallowed' = swallowed /\ kept' = kept

\* The files of f after a pump.
LEMMA PumpedFlow ==
    ASSUME ReplayInv, ResultsInv', NEW f \in Flows, NEW c3 \in Contexts(ran), c3.owner = f,
           NEW p \in Pumped(c3), disk' = p.disk, stable' = p.stable, cell' = p.ctx
    PROVE  /\ PumpTo(c3, disk[f], stable[f], cell', disk'[f], stable'[f])
           /\ p.ok => Wrote(c3, disk[f], stable[f], cell', disk'[f], stable'[f])
           /\ \A g \in Flows \ {f} : disk'[g] = disk[g] /\ stable'[g] = stable[g]
<1>1. PICK d2, s2 :
              /\ p.disk = [disk EXCEPT ![c3.owner] = d2]
              /\ p.stable = [stable EXCEPT ![c3.owner] = s2]
              /\ PumpTo(c3, disk[c3.owner], stable[c3.owner], p.ctx, d2, s2)
              /\ p.ok => Wrote(c3, disk[c3.owner], stable[c3.owner], p.ctx, d2, s2)
  BY PumpedIs
<1>2. disk \in Files(ran) /\ stable \in Files(ran)
  BY DEF ReplayInv, ResultsInv, LogsTrue
<1>3. disk'[f] = d2 /\ stable'[f] = s2
      /\ \A g \in Flows \ {f} : disk'[g] = disk[g] /\ stable'[g] = stable[g]
  BY <1>1, <1>2 DEF Files
<1> QED
  BY <1>1, <1>3

\* The body of f records the value v for its next effect.
LEMMA RecordStep ==
    ASSUME ReplayInv, ResultsInv', NEW f \in Flows, MayStep(f), flow[f].st \in {"body", "exec"},
           NEW c3 \in Contexts(ran), c3.owner = f, c3.persisted = cell.persisted,
           c3.cursor = cell.cursor, Len(c3.events) = Len(cell.events) + 1,
           NEW p \in Pumped(c3), cell' = p.ctx, disk' = p.disk, stable' = p.stable,
           UNCHANGED <<durability, body, ran, told, irregular>>, NEW v \in Nat, Recording(f, v, p.ok),
           f \notin irregular =>
              /\ Len(flow[f].outs) = Len(cell.events) /\ Len(flow[f].outs) < Len(body[f])
              /\ Records(body[f], Len(flow[f].outs), v, cell, c3)
    PROVE  ReplayInv'
<1>1. /\ cell \in Contexts(ran) /\ cell.owner = f /\ Counted(cell)
      /\ flow[f] \in Drivers(ran)
      /\ disk[f] \in Seq(Lines(ran)) /\ stable[f] \in Seq(Lines(ran))
      /\ body[f] \in Seq(Effects) /\ kept[f] \in Seq(Nat)
  BY Running
<1>2. PICK d2 : d2 = disk'[f]
  OBVIOUS
<1>3. PICK s2 : s2 = stable'[f]
  OBVIOUS
<1>4. PICK c2 : c2 = cell'
  OBVIOUS
<1>5. PICK fl2 : fl2 = flow'[f]
  OBVIOUS
<1>6. /\ PumpTo(c3, disk[f], stable[f], c2, d2, s2)
      /\ p.ok => Wrote(c3, disk[f], stable[f], c2, d2, s2)
      /\ \A g \in Flows \ {f} : disk'[g] = disk[g] /\ stable'[g] = stable[g]
  BY <1>2, <1>3, <1>4, PumpedFlow
<1>7. \/ c2.persisted = Len(c3.events) \/ c2.persisted = c3.persisted
  BY <1>6 DEF PumpTo, Wrote, Tore
<1>8. SameRun(c3, c2)
  BY <1>6 DEF PumpTo, Wrote, Tore
<1>9. Counted(c2) /\ c2.owner = f
  <2>1. c2.events = c3.events /\ c2.cursor = c3.cursor /\ c2.owner = f
    BY <1>8 DEF SameRun
  <2>2. /\ Len(cell.events) \in Nat /\ cell.cursor \in Nat /\ cell.persisted \in Nat
        /\ cell.cursor <= Len(cell.events) /\ cell.persisted <= Len(cell.events)
    BY <1>1 DEF Contexts, Counted
  <2>3. \A x, y \in Nat : x <= y => x <= y + 1 /\ y + 1 <= y + 1
    OBVIOUS
  <2> QED
    BY <1>7, <2>1, <2>2, <2>3 DEF Counted
<1>10. c2 \in Contexts(ran) /\ ran' = ran
  <2>1. OutcomeTrue(ran, p)
    BY PumpedOK DEF ReplayInv, ResultsInv, LogsTrue
  <2> QED
    BY <1>4, <2>1 DEF OutcomeTrue
<1>11. /\ fl2.prev = flow[f].prev /\ fl2.act = flow[f].act
       /\ \A g \in Flows \ {f} : flow'[g] = flow[g]
       /\ \/ /\ fl2.st = "body"
             /\ fl2.outs = Append(flow[f].outs, OutOf(body[f][Len(flow[f].outs) + 1], v))
          \/ fl2.st = "err" /\ fl2.outs = flow[f].outs
  BY <1>5 DEF Recording
<1>12. \A g \in Flows \ {f} : kept'[g] = kept[g] /\ (g \in swallowed' <=> g \in swallowed)
  <2>1. kept \in [Flows -> Seq(Nat)]
    BY DEF ReplayInv, Bounded
  <2> QED
    BY <2>1 DEF Recording
<1>13. Unmoved(f)
  BY <1>6, <1>11, <1>12 DEF Unmoved
<1>14. kept' \in [Flows -> Seq(Nat)]
  <2>1. kept \in [Flows -> Seq(Nat)]
    BY DEF ReplayInv, Bounded
  <2>2. flow'[f].outs \in Seq(Nat)
    BY DEF ResultsInv, FlowsTrue, Drivers
  <2>3. kept' = kept \/ kept' = [kept EXCEPT ![f] = flow'[f].outs]
    BY DEF Recording
  <2> QED
    BY <2>1, <2>2, <2>3
<1>15. Bounded'
  BY <1>5, <1>11, <1>14, BoundedStep DEF ReplayInv
<1>16. ASSUME f \notin irregular
       PROVE  /\ Tracks(body[f], durability[f], fl2, d2, c2)
              /\ Durable(body[f], durability[f], fl2, d2, s2)
              /\ f \notin swallowed' =>
                    /\ Honest(durability[f], fl2, d2, kept'[f], c2)
                    /\ Promised(durability[f], fl2, d2, s2, kept'[f], told[f])
  <2>1. PICK fl \in Drivers(ran) : fl = flow[f]
    BY <1>1
  <2>2. PICK b \in Seq(Effects) : b = body[f]
    BY <1>1
  <2>3. PICK dur : dur = durability[f]
    OBVIOUS
  <2>4. PICK d \in Seq(Lines(ran)) : d = disk[f]
    BY <1>1
  <2>5. PICK s \in Seq(Lines(ran)) : s = stable[f]
    BY <1>1
  <2>6. PICK k \in Seq(Nat) : k = kept[f]
    BY <1>1
  <2>7. PICK t : t = told[f]
    OBVIOUS
  <2>8. /\ Tracks(b, dur, fl, d, cell) /\ Durable(b, dur, fl, d, s)
        /\ f \notin swallowed => Honest(dur, fl, d, k, cell) /\ Promised(dur, fl, d, s, k, t)
    BY <1>16, <2>1, <2>2, <2>3, <2>4, <2>5, <2>6, <2>7, RunsUnchanged
  <2>9. /\ Len(fl.outs) = Len(cell.events) /\ Len(fl.outs) < Len(b)
        /\ Records(b, Len(fl.outs), v, cell, c3)
    BY <1>16, <2>1, <2>2
  <2>10. /\ PumpTo(c3, d, s, c2, d2, s2)
         /\ p.ok => Wrote(c3, d, s, c2, d2, s2)
    BY <1>6, <2>4, <2>5
  <2>11. \/ /\ fl2.st = "body"
            /\ fl2.outs = Append(fl.outs, OutOf(b[Len(fl.outs) + 1], v))
         \/ fl2.st = "err" /\ fl2.outs = fl.outs
    BY <1>11, <2>1, <2>2
  <2>12. cell.persisted <= Len(cell.events)
    BY <1>1 DEF Counted
  <2>13. /\ Tracks(b, dur, fl2, d2, c2)
         /\ Durable(b, dur, fl2, d2, s2)
         /\ Grown(dur, d, s, d2, s2)
         /\ Begins(cell.events, c2.events)
         /\ d2 \in Seq(Lines(ran)) /\ c2.events \in Seq(Recordings(ran)) /\ fl2.outs \in Seq(Nat)
    <3>1. /\ cell \in Contexts(ran) /\ c3 \in Contexts(ran) /\ b \in Seq(Effects)
          /\ fl \in Drivers(ran) /\ d \in Seq(Lines(ran)) /\ s \in Seq(Lines(ran)) /\ v \in Nat
      BY <1>1, <2>1, <2>2, <2>4, <2>5
    <3>2. Got(b, fl, fl2, v) /\ PumpTo(c3, d, s, c2, d2, s2)
          /\ Tracks(b, dur, fl, d, cell) /\ Durable(b, dur, fl, d, s)
      BY <2>8, <2>10, <2>11 DEF Got
    <3> QED
      BY <2>9, <2>12, <3>1, <3>2, RecordKeeps
  <2>14. ASSUME f \notin swallowed'
         PROVE  Honest(dur, fl2, d2, kept'[f], c2) /\ Promised(dur, fl2, d2, s2, kept'[f], t)
    <3>1. PICK k2 : k2 = kept'[f]
      OBVIOUS
    <3>2. f \notin swallowed
      BY <2>14 DEF Recording
    <3>3. Honest(dur, fl, d, k, cell) /\ Promised(dur, fl, d, s, k, t)
      BY <2>8, <3>2
    <3>4. fl.st # "err" /\ fl.st # "off"
      BY <2>1
    <3>5. CASE fl2.st = "body"
      <4>1. p.ok
        BY <1>5, <2>14, <3>5 DEF Recording
      <4>2. kept' = IF cell.grouped THEN [kept EXCEPT ![f] = fl2.outs] ELSE kept
        BY <1>5, <3>5, <4>1 DEF Recording
      <4>3. kept \in [Flows -> Seq(Nat)]
        BY DEF ReplayInv, Bounded
      <4>4. IF cell.grouped THEN k2 = fl2.outs ELSE k2 = k
        BY <2>6, <3>1, <4>2, <4>3
      <4>5. fl2.outs = Append(fl.outs, OutOf(b[Len(fl.outs) + 1], v)) /\ Wrote(c3, d, s, c2, d2, s2)
        BY <2>10, <2>11, <3>5, <4>1
      <4>6. Honest(dur, fl2, d2, k2, c2) /\ Promised(dur, fl2, d2, s2, k2, t)
        <5>1. /\ cell \in Contexts(ran) /\ c3 \in Contexts(ran) /\ b \in Seq(Effects)
              /\ fl \in Drivers(ran) /\ d \in Seq(Lines(ran)) /\ s \in Seq(Lines(ran)) /\ v \in Nat
              /\ k \in Seq(Nat)
          BY <1>1, <2>1, <2>2, <2>4, <2>5, <2>6
        <5>2. Tracks(b, dur, fl, d, cell) /\ (Unmarked(d) => Unmarked(d2))
          BY <2>8, <2>13 DEF Grown
        <5> QED
          BY <2>9, <2>13, <3>3, <3>4, <3>5, <4>4, <4>5, <5>1, <5>2, RecordPromised
      <4> QED
        BY <3>1, <4>6
    <3>6. CASE fl2.st = "err"
      <4>1. kept' = kept /\ fl2.outs = fl.outs
        BY <1>5, <2>11, <3>6 DEF Recording
      <4>2. Honest(dur, fl2, d2, k, c2) /\ Promised(dur, fl2, d2, s2, k, t)
        <5>1. /\ cell \in Contexts(ran) /\ fl \in Drivers(ran) /\ k \in Seq(Nat)
              /\ d \in Seq(Lines(ran)) /\ s \in Seq(Lines(ran))
          BY <1>1, <2>1, <2>4, <2>5, <2>6
        <5>2. fl2.outs = fl.outs
          BY <4>1
        <5> QED
          BY <2>13, <3>3, <3>4, <3>6, <5>1, <5>2, ThrownPromised
      <4> QED
        BY <2>6, <4>1, <4>2
    <3> QED
      BY <2>11, <3>5, <3>6
  <2> QED
    BY <2>2, <2>3, <2>7, <2>13, <2>14
<1>17. TracksIn(cell)'
  BY <1>2, <1>4, <1>5, <1>9, <1>16 DEF TracksIn
<1>18. DurableIn(f)'
  BY <1>2, <1>3, <1>5, <1>16 DEF DurableIn
<1>19. cell' \in Contexts(ran') /\ cell'.owner = f /\ Counted(cell')
  BY <1>4, <1>9, <1>10
<1>20. flow'[f].prev = flow[f].prev /\ flow'[f].st \in {"body", "exec", "err"}
  BY <1>5, <1>11
<1> QED
  BY <1>13, <1>15, <1>17, <1>18, <1>19, <1>20, StepFrame

\* What the invariant says when a body of unchanged code takes an effect.
LEMMA UnchangedNext ==
    ASSUME ReplayInv, NEW f \in Flows, NEW e, At(f, e), f \notin irregular
    PROVE  /\ ~Stray(cell, e)
           /\ Exhausted(cell) => Len(flow[f].outs) = Len(cell.events)
           /\ e # "sleep" => NextClock(body[f], Len(flow[f].outs), cell, cell.clock)
           /\ e = "sleep" => NextClock(body[f], Len(flow[f].outs), cell, cell.clock + SleepMs)
           /\ \A m \in Nat : m >= cell.mono => NextMono(body[f], Len(flow[f].outs), cell, m)
           /\ ~Exhausted(cell) =>
                 /\ cell.cursor = Len(flow[f].outs)
                 /\ Clocked(body[f], cell.cursor + 1) =>
                       NextClock(body[f], cell.cursor, cell, NextEvent(cell).val)
                 /\ body[f][cell.cursor + 1] = "mono" =>
                       NextMono(body[f], cell.cursor, cell, NextEvent(cell).val)
<1>1. MayStep(f) /\ flow[f].st = "body" /\ e = body[f][Len(flow[f].outs) + 1]
  BY DEF At
<1>2. PICK b : b = body[f]
  OBVIOUS
<1>3. PICK outs : outs = flow[f].outs
  OBVIOUS
<1>4. cell \in Contexts(ran) /\ Counted(cell) /\ outs \in Seq(Nat)
  BY <1>1, <1>3, Running DEF Drivers
<1>5. Follows(b, cell.events) /\ Read(outs, cell.events) /\ InStep(b, outs, cell)
  BY <1>1, <1>2, <1>3, RunsUnchanged DEF Tracks
<1>6. e = b[Len(outs) + 1]
  BY <1>1, <1>2, <1>3
<1>7. /\ ~Stray(cell, e)
      /\ Exhausted(cell) => Len(outs) = Len(cell.events)
      /\ ~Exhausted(cell) => /\ cell.mode = "Replay" /\ cell.cursor = Len(outs)
                             /\ cell.cursor < Len(cell.events)
                             /\ NextEvent(cell) = cell.events[Len(outs) + 1]
  BY <1>4, <1>5, <1>6, NextIsHit
<1>8. e # "sleep" => NextClock(b, Len(outs), cell, cell.clock)
  BY <1>4, <1>5, <1>6, ClockStays
<1>9. e = "sleep" => NextClock(b, Len(outs), cell, cell.clock + SleepMs)
  BY <1>4, <1>5, <1>6, ClockMoves
<1>10. ASSUME ~Exhausted(cell), Clocked(b, cell.cursor + 1)
       PROVE  NextClock(b, cell.cursor, cell, NextEvent(cell).val)
  <2>1. cell.cursor \in Nat /\ cell.cursor < Len(cell.events)
        /\ NextEvent(cell) = cell.events[cell.cursor + 1]
    BY <1>4, <1>7, <1>10 DEF Contexts
  <2>2. NextClock(b, cell.cursor, cell, cell.events[cell.cursor + 1].val)
    BY <1>4, <1>5, <1>10, <2>1, ClockReplayed
  <2> QED
    BY <2>1, <2>2
<1>11. ASSUME NEW m \in Nat, m >= cell.mono PROVE NextMono(b, Len(outs), cell, m)
  BY <1>4, <1>5, <1>11, MonoStays
<1>12. ASSUME ~Exhausted(cell), b[cell.cursor + 1] = "mono"
       PROVE  NextMono(b, cell.cursor, cell, NextEvent(cell).val)
  <2>1. cell.cursor \in Nat /\ cell.cursor < Len(cell.events)
        /\ NextEvent(cell) = cell.events[cell.cursor + 1]
    BY <1>4, <1>7, <1>12 DEF Contexts
  <2>2. NextMono(b, cell.cursor, cell, cell.events[cell.cursor + 1].val)
    BY <1>4, <1>5, <1>12, <2>1, MonoReplayed
  <2> QED
    BY <2>1, <2>2
<1> QED
  BY <1>2, <1>3, <1>7, <1>8, <1>9, <1>10, <1>11, <1>12

\* An effect that neither reads nor moves a clock leaves both alone.
LEMMA ClocksStay ==
    ASSUME ReplayInv, NEW f \in Flows, NEW e, At(f, e), f \notin irregular,
           e \notin {"now", "mono", "sleep"}, NEW v, NEW c, c.clock = cell.clock, c.mono = cell.mono
    PROVE  /\ TimedNext(body[f], Len(flow[f].outs), v, cell, c)
           /\ ~Exhausted(cell) => cell.cursor = Len(flow[f].outs)
<1>1. body[f][Len(flow[f].outs) + 1] = e /\ MayStep(f)
  BY DEF At
<1>2. cell.mono \in Nat
  BY <1>1, Running DEF Contexts
<1>3. /\ NextClock(body[f], Len(flow[f].outs), cell, cell.clock)
      /\ NextMono(body[f], Len(flow[f].outs), cell, cell.mono)
      /\ ~Exhausted(cell) => cell.cursor = Len(flow[f].outs)
  BY <1>2, UnchangedNext
<1>4. ~Clocked(body[f], Len(flow[f].outs) + 1) /\ body[f][Len(flow[f].outs) + 1] # "mono"
  BY <1>1 DEF Clocked
<1> QED
  BY <1>3, <1>4 DEF TimedNext

\* The context after record_event, before its pump.
LEMMA RecordedFields ==
    ASSUME NEW R, NEW c \in Contexts(R), NEW e \in Effects, NEW v \in Nat,
           e \in Activities => v \in 1 .. Len(R) /\ R[v] = e,
           NEW c3, c3 = Recorded(c, e, v)
    PROVE  /\ c3 \in Contexts(R) /\ c3.owner = c.owner /\ c3.persisted = c.persisted
           /\ c3.cursor = c.cursor /\ c3.grouped = c.grouped
           /\ c3.clock = c.clock /\ c3.mono = c.mono /\ c3.mode = c.mode
           /\ c3.events = Append(c.events, Event(Len(c.events), e, v))
           /\ Len(c3.events) = Len(c.events) + 1
<1>1. PICK E : E = Append(c.events, Event(Len(c.events), e, v))
  OBVIOUS
<1>2. c3 = [c EXCEPT !.events = E] /\ c3 \in Contexts(R)
  BY <1>1, RecordedOK DEF Recorded
<1>3. c.events \in Seq(Recordings(R))
  BY DEF Contexts
<1>4. Len(E) = Len(c.events) + 1
  BY <1>1, <1>3
<1>5. /\ c3.owner = c.owner /\ c3.persisted = c.persisted
      /\ c3.cursor = c.cursor /\ c3.grouped = c.grouped
      /\ c3.clock = c.clock /\ c3.mono = c.mono /\ c3.mode = c.mode /\ c3.events = E
  BY <1>2 DEF Contexts
<1> QED
  BY <1>1, <1>2, <1>4, <1>5

\* The context c in Record mode.
LEMMA RecordFields ==
    ASSUME NEW R, NEW c \in Contexts(R), NEW c1, c1 = [c EXCEPT !.mode = "Record"]
    PROVE  /\ c1 \in Contexts(R) /\ c1.owner = c.owner /\ c1.persisted = c.persisted
           /\ c1.cursor = c.cursor /\ c1.grouped = c.grouped
           /\ c1.clock = c.clock /\ c1.mono = c.mono
           /\ c1.mode = "Record" /\ c1.events = c.events
BY DEF Contexts

\* A reader of the clock, the generator or the timer records what it read.
LEMMA RecordAndGiveStep ==
    ASSUME ReplayInv, ResultsInv', NEW f \in Flows, NEW e \in Effects \ Activities, At(f, e),
           NEW c \in Contexts(ran), NEW v \in Nat, NEW out, out = OutOf(e, v),
           RecordAndGive(f, c, e, v, out),
           c.owner = f, c.events = cell.events, c.grouped = cell.grouped,
           c.persisted = cell.persisted, c.cursor = cell.cursor,
           f \notin irregular =>
              Exhausted(cell) /\ TimedNext(body[f], Len(flow[f].outs), v, cell, c)
    PROVE  ReplayInv'
<1>1. /\ MayStep(f) /\ flow[f].st = "body" /\ e = body[f][Len(flow[f].outs) + 1]
      /\ Len(flow[f].outs) < Len(body[f])
  BY DEF At
<1>2. PICK c3 : c3 = Recorded([c EXCEPT !.mode = "Record"], e, v)
  OBVIOUS
<1>3. /\ c3 \in Contexts(ran) /\ c3.owner = f /\ c3.persisted = cell.persisted
      /\ c3.cursor = cell.cursor /\ c3.grouped = cell.grouped
      /\ c3.clock = c.clock /\ c3.mono = c.mono
      /\ c3.mode = "Record" /\ c3.events = Append(cell.events, Event(Len(cell.events), e, v))
      /\ Len(c3.events) = Len(cell.events) + 1
  <2>1. PICK c1 : c1 = [c EXCEPT !.mode = "Record"]
    OBVIOUS
  <2>2. /\ c1 \in Contexts(ran) /\ c1.owner = f /\ c1.persisted = cell.persisted
        /\ c1.cursor = cell.cursor /\ c1.grouped = cell.grouped
        /\ c1.clock = c.clock /\ c1.mono = c.mono
        /\ c1.mode = "Record" /\ c1.events = cell.events
    BY <2>1, RecordFields
  <2>3. c3 = Recorded(c1, e, v) /\ e \in Effects /\ e \notin Activities
    BY <1>2, <2>1
  <2> QED
    BY <2>2, <2>3, RecordedFields
<1>4. PICK p \in Pumped(c3) :
        /\ cell' = p.ctx /\ disk' = p.disk /\ stable' = p.stable
        /\ swallowed' = IF p.ok THEN swallowed ELSE swallowed \union {c.owner}
        /\ Give(f, out) /\ IF p.ok THEN Keep(f, out) ELSE UNCHANGED kept
        /\ UNCHANGED <<durability, body, ran, told, irregular>>
  BY <1>2 DEF RecordAndGive
<1>5. /\ flow'[f].st = "body" /\ flow'[f].outs = Append(flow[f].outs, out)
      /\ flow'[f].act = flow[f].act /\ flow'[f].prev = flow[f].prev
      /\ \A g \in Flows \ {f} : flow'[g] = flow[g]
  BY <1>4, GiveFields DEF ReplayInv, ResultsInv
<1>6. Recording(f, v, p.ok)
  BY <1>1, <1>4, <1>5 DEF Recording, Keep
<1>7. ASSUME f \notin irregular
      PROVE  /\ Len(flow[f].outs) = Len(cell.events) /\ Len(flow[f].outs) < Len(body[f])
             /\ Records(body[f], Len(flow[f].outs), v, cell, c3)
  <2>1. Len(flow[f].outs) = Len(cell.events)
    BY <1>7, UnchangedNext
  <2>2. c3.events = Append(cell.events, Event(Len(flow[f].outs), body[f][Len(flow[f].outs) + 1], v))
    BY <1>1, <1>3, <2>1
  <2>3. TimedNext(body[f], Len(flow[f].outs), v, cell, c3)
    BY <1>3, <1>7 DEF TimedNext
  <2> QED
    BY <1>1, <1>3, <2>1, <2>2, <2>3 DEF Records
<1> QED
  BY <1>1, <1>3, <1>4, <1>6, <1>7, RecordStep

\* ctx.now.
LEMMA NowStep ==
    ASSUME ReplayInv, ResultsInv', NEW f \in Flows, Now(f)
    PROVE  ReplayInv'
<1>1. At(f, "now") /\ MayStep(f) /\ body[f][Len(flow[f].outs) + 1] = "now"
  BY DEF Now, At
<1>2. cell \in Contexts(ran) /\ cell.owner = f /\ cell.clock \in Nat /\ cell.mono \in Nat
  BY <1>1, Running DEF Contexts
<1>3. "now" \in Effects \ Activities
  BY NotActivities DEF Readers
<1>4. CASE /\ Hit(cell, "now")
           /\ ReplayAndGive(f, [cell EXCEPT !.clock = NextEvent(cell).val], NextEvent(cell).val)
  <2>1. ~Exhausted(cell) /\ NextEvent(cell).effect = "now"
    BY <1>4 DEF Hit
  <2>2. PICK v \in Nat : v = NextEvent(cell).val
    BY <1>2, <2>1, NextEventOK DEF Recordings
  <2>3. PICK c : c = [cell EXCEPT !.clock = v]
    OBVIOUS
  <2>4. c \in Contexts(ran)
    BY <1>2, <2>2, <2>3, CountersOK
  <2>5. /\ c.owner = f /\ c.mode = cell.mode /\ c.events = cell.events /\ c.grouped = cell.grouped
        /\ c.persisted = cell.persisted /\ c.cursor = cell.cursor
        /\ c.clock = v /\ c.mono = cell.mono
    BY <1>2, <2>3 DEF Contexts
  <2>6. ReplayAndGive(f, c, v)
    BY <1>4, <2>2, <2>3
  <2>7. ASSUME f \notin irregular
        PROVE  /\ v = ValueOf(NextEvent(cell))
               /\ TimedNext(body[f], cell.cursor, NextEvent(cell).val, cell, c)
    <3>1. /\ cell.cursor = Len(flow[f].outs)
          /\ Clocked(body[f], cell.cursor + 1) => NextClock(body[f], cell.cursor, cell, NextEvent(cell).val)
          /\ NextMono(body[f], Len(flow[f].outs), cell, cell.mono)
      BY <1>1, <1>2, <2>1, <2>7, UnchangedNext
    <3>2. Clocked(body[f], cell.cursor + 1) /\ body[f][cell.cursor + 1] # "mono"
      BY <1>1, <3>1 DEF Clocked
    <3>3. TimedNext(body[f], cell.cursor, NextEvent(cell).val, cell, c)
      BY <2>2, <2>5, <3>1, <3>2 DEF TimedNext
    <3> QED
      BY <2>1, <2>2, <3>3 DEF ValueOf
  <2> QED
    BY <1>1, <2>1, <2>4, <2>5, <2>6, <2>7, ReplayStep
<1>5. CASE Stray(cell, "now") /\ ReplayAndGive(f, cell, cell.clock)
  <2>1. f \in irregular /\ ~Exhausted(cell)
    BY <1>1, <1>5, UnchangedNext DEF Stray
  <2> QED
    BY <1>1, <1>2, <1>5, <2>1, ReplayStep
<1>6. CASE Exhausted(cell) /\ RecordAndGive(f, cell, "now", cell.clock, cell.clock)
  <2>1. ASSUME f \notin irregular
        PROVE  TimedNext(body[f], Len(flow[f].outs), cell.clock, cell, cell)
    <3>1. /\ NextClock(body[f], Len(flow[f].outs), cell, cell.clock)
          /\ NextMono(body[f], Len(flow[f].outs), cell, cell.mono)
      BY <1>1, <1>2, <2>1, UnchangedNext
    <3> QED
      BY <1>1, <3>1 DEF TimedNext
  <2>2. cell.clock = OutOf("now", cell.clock)
    BY DEF OutOf
  <2> QED
    BY <1>1, <1>2, <1>3, <1>6, <2>1, <2>2, RecordAndGiveStep
<1> QED
  BY <1>4, <1>5, <1>6 DEF Now

\* time.monotonic.
LEMMA MonotonicStep ==
    ASSUME ReplayInv, ResultsInv', NEW f \in Flows, Monotonic(f)
    PROVE  ReplayInv'
<1>1. At(f, "mono") /\ MayStep(f) /\ body[f][Len(flow[f].outs) + 1] = "mono"
  BY DEF Monotonic, At
<1>2. cell \in Contexts(ran) /\ cell.owner = f /\ cell.clock \in Nat /\ cell.mono \in Nat
  BY <1>1, Running DEF Contexts
<1>3. "mono" \in Effects \ Activities
  BY NotActivities DEF Readers
<1>4. CASE /\ Hit(cell, "mono")
           /\ ReplayAndGive(f, [cell EXCEPT !.mono = NextEvent(cell).val], NextEvent(cell).val)
  <2>1. ~Exhausted(cell) /\ NextEvent(cell).effect = "mono"
    BY <1>4 DEF Hit
  <2>2. PICK v \in Nat : v = NextEvent(cell).val
    BY <1>2, <2>1, NextEventOK DEF Recordings
  <2>3. PICK c : c = [cell EXCEPT !.mono = v]
    OBVIOUS
  <2>4. c \in Contexts(ran)
    BY <1>2, <2>2, <2>3, CountersOK
  <2>5. /\ c.owner = f /\ c.mode = cell.mode /\ c.events = cell.events /\ c.grouped = cell.grouped
        /\ c.persisted = cell.persisted /\ c.cursor = cell.cursor
        /\ c.clock = cell.clock /\ c.mono = v
    BY <1>2, <2>3 DEF Contexts
  <2>6. ReplayAndGive(f, c, v)
    BY <1>4, <2>2, <2>3
  <2>7. ASSUME f \notin irregular
        PROVE  /\ v = ValueOf(NextEvent(cell))
               /\ TimedNext(body[f], cell.cursor, NextEvent(cell).val, cell, c)
    <3>1. /\ cell.cursor = Len(flow[f].outs)
          /\ body[f][cell.cursor + 1] = "mono" => NextMono(body[f], cell.cursor, cell, NextEvent(cell).val)
          /\ NextClock(body[f], Len(flow[f].outs), cell, cell.clock)
      BY <1>1, <2>1, <2>7, UnchangedNext
    <3>2. ~Clocked(body[f], cell.cursor + 1) /\ body[f][cell.cursor + 1] = "mono"
      BY <1>1, <3>1 DEF Clocked
    <3>3. TimedNext(body[f], cell.cursor, NextEvent(cell).val, cell, c)
      BY <2>2, <2>5, <3>1, <3>2 DEF TimedNext
    <3> QED
      BY <2>1, <2>2, <3>3 DEF ValueOf
  <2> QED
    BY <1>1, <2>1, <2>4, <2>5, <2>6, <2>7, ReplayStep
<1>5. CASE Stray(cell, "mono") /\ ReplayAndGive(f, cell, cell.clock)
  <2>1. f \in irregular /\ ~Exhausted(cell)
    BY <1>1, <1>5, UnchangedNext DEF Stray
  <2> QED
    BY <1>1, <1>2, <1>5, <2>1, ReplayStep
<1>6. CASE Exhausted(cell) /\ RecordAndGive(f, cell, "mono", cell.mono, cell.mono)
  <2>1. ASSUME f \notin irregular
        PROVE  TimedNext(body[f], Len(flow[f].outs), cell.mono, cell, cell)
    <3>1. /\ NextClock(body[f], Len(flow[f].outs), cell, cell.clock)
          /\ NextMono(body[f], Len(flow[f].outs), cell, cell.mono)
      BY <1>1, <1>2, <2>1, UnchangedNext
    <3>2. ~Clocked(body[f], Len(flow[f].outs) + 1)
      BY <1>1 DEF Clocked
    <3> QED
      BY <3>1, <3>2 DEF TimedNext
  <2>2. cell.mono = OutOf("mono", cell.mono)
    BY DEF OutOf
  <2> QED
    BY <1>1, <1>2, <1>3, <1>6, <2>1, <2>2, RecordAndGiveStep
<1> QED
  BY <1>4, <1>5, <1>6 DEF Monotonic

\* ctx.random, ctx.uuid and the other draws.
LEMMA DrawStep ==
    ASSUME ReplayInv, ResultsInv', NEW f \in Flows, Draw(f)
    PROVE  ReplayInv'
<1>1. PICK drawn : drawn = [cell EXCEPT !.rng = cell.rng + 1]
  OBVIOUS
<1>2. PICK e \in {"random", "uuid"} :
        /\ At(f, e)
        /\ \/ Hit(cell, e) /\ ReplayAndGive(f, cell, NextEvent(cell).val)
           \/ Stray(cell, e) /\ \E c \in {cell, drawn}, v \in {cell.clock, cell.rng} : ReplayAndGive(f, c, v)
           \/ Exhausted(cell) /\ RecordAndGive(f, drawn, e, cell.rng, cell.rng)
  BY <1>1 DEF Draw
<1>3. MayStep(f)
  BY <1>2 DEF At
<1>4. cell \in Contexts(ran) /\ cell.owner = f /\ cell.rng \in Nat
  BY <1>3, Running DEF Contexts
<1>5. PICK n \in Nat : n = cell.rng + 1
  BY <1>4
<1>6. /\ drawn \in Contexts(ran) /\ drawn.owner = f /\ drawn.mode = cell.mode
      /\ drawn.events = cell.events /\ drawn.grouped = cell.grouped
      /\ drawn.persisted = cell.persisted /\ drawn.cursor = cell.cursor
      /\ drawn.clock = cell.clock /\ drawn.mono = cell.mono
  <2>1. drawn \in Contexts(ran)
    BY <1>1, <1>4, <1>5, CountersOK
  <2> QED
    BY <1>1, <1>4, <1>5, <2>1 DEF Contexts
<1>7. e \in Effects \ Activities /\ e \notin {"now", "mono", "sleep"}
  BY <1>2, NotActivities DEF Readers
<1>8. ASSUME f \notin irregular, NEW v
      PROVE  /\ TimedNext(body[f], Len(flow[f].outs), v, cell, cell)
             /\ TimedNext(body[f], Len(flow[f].outs), v, cell, drawn)
             /\ ~Exhausted(cell) => cell.cursor = Len(flow[f].outs)
  BY <1>2, <1>6, <1>7, <1>8, ClocksStay
<1>9. CASE Hit(cell, e) /\ ReplayAndGive(f, cell, NextEvent(cell).val)
  <2>1. ~Exhausted(cell) /\ NextEvent(cell).effect = e
    BY <1>9 DEF Hit
  <2>2. NextEvent(cell).val = ValueOf(NextEvent(cell))
    BY <1>7, <2>1 DEF ValueOf
  <2>3. f \notin irregular => TimedNext(body[f], cell.cursor, NextEvent(cell).val, cell, cell)
    BY <1>8, <2>1
  <2> QED
    BY <1>2, <1>4, <1>9, <2>1, <2>2, <2>3, ReplayStep
<1>10. CASE Stray(cell, e) /\ \E c \in {cell, drawn}, v \in {cell.clock, cell.rng} : ReplayAndGive(f, c, v)
  <2>1. f \in irregular /\ ~Exhausted(cell)
    BY <1>2, <1>10, UnchangedNext DEF Stray
  <2>2. CASE \E v \in {cell.clock, cell.rng} : ReplayAndGive(f, cell, v)
    BY <1>2, <1>4, <2>1, <2>2, ReplayStep
  <2>3. CASE \E v \in {cell.clock, cell.rng} : ReplayAndGive(f, drawn, v)
    BY <1>2, <1>6, <2>1, <2>3, ReplayStep
  <2> QED
    BY <1>10, <2>2, <2>3
<1>11. CASE Exhausted(cell) /\ RecordAndGive(f, drawn, e, cell.rng, cell.rng)
  <2>1. cell.rng = OutOf(e, cell.rng)
    BY <1>7 DEF OutOf
  <2>2. f \notin irregular => TimedNext(body[f], Len(flow[f].outs), cell.rng, cell, drawn)
    BY <1>8
  <2> QED
    BY <1>2, <1>4, <1>6, <1>7, <1>11, <2>1, <2>2, RecordAndGiveStep
<1> QED
  BY <1>2, <1>9, <1>10, <1>11

\* ctx.sleep.
LEMMA SleepStep ==
    ASSUME ReplayInv, ResultsInv', NEW f \in Flows, Sleep(f)
    PROVE  ReplayInv'
<1>1. At(f, "sleep") /\ MayStep(f) /\ body[f][Len(flow[f].outs) + 1] = "sleep"
  BY DEF Sleep, At
<1>2. cell \in Contexts(ran) /\ cell.owner = f /\ cell.clock \in Nat /\ cell.mono \in Nat
  BY <1>1, Running DEF Contexts
<1>3. "sleep" \in Effects \ Activities
  BY NotActivities DEF Readers
<1>4. CASE Hit(cell, "sleep") /\ ReplayAndGive(f, SetNow(cell, NextEvent(cell).val), 0)
  <2>1. ~Exhausted(cell) /\ NextEvent(cell).effect = "sleep"
    BY <1>4 DEF Hit
  <2>2. PICK v \in Nat : v = NextEvent(cell).val
    BY <1>2, <2>1, NextEventOK DEF Recordings
  <2>3. PICK m \in Nat : m >= cell.mono
                         /\ m = IF v > cell.clock THEN cell.mono + (v - cell.clock) ELSE cell.mono
    BY <1>2, <2>2
  <2>4. PICK c : c = [cell EXCEPT !.clock = v, !.mono = m]
    OBVIOUS
  <2>5. /\ c \in Contexts(ran) /\ c.owner = f /\ c.mode = cell.mode
        /\ c.events = cell.events /\ c.grouped = cell.grouped
        /\ c.persisted = cell.persisted /\ c.cursor = cell.cursor /\ c.clock = v /\ c.mono = m
    <3>1. c \in Contexts(ran)
      BY <1>2, <2>2, <2>3, <2>4 DEF Contexts
    <3> QED
      BY <1>2, <2>4, <3>1 DEF Contexts
  <2>6. ReplayAndGive(f, c, 0)
    <3>1. c = SetNow(cell, v)
      BY <2>3, <2>4 DEF SetNow
    <3> QED
      BY <1>4, <2>2, <3>1
  <2>7. ASSUME f \notin irregular
        PROVE  /\ 0 = ValueOf(NextEvent(cell))
               /\ TimedNext(body[f], cell.cursor, NextEvent(cell).val, cell, c)
    <3>1. /\ cell.cursor = Len(flow[f].outs)
          /\ Clocked(body[f], cell.cursor + 1) => NextClock(body[f], cell.cursor, cell, NextEvent(cell).val)
          /\ NextMono(body[f], Len(flow[f].outs), cell, m)
      BY <1>1, <2>1, <2>3, <2>7, UnchangedNext
    <3>2. Clocked(body[f], cell.cursor + 1) /\ body[f][cell.cursor + 1] # "mono"
      BY <1>1, <3>1 DEF Clocked
    <3>3. TimedNext(body[f], cell.cursor, NextEvent(cell).val, cell, c)
      BY <2>2, <2>5, <3>1, <3>2 DEF TimedNext
    <3> QED
      BY <2>1, <3>3 DEF ValueOf
  <2> QED
    BY <1>1, <2>1, <2>5, <2>6, <2>7, ReplayStep
<1>5. CASE /\ ~Hit(cell, "sleep")
           /\ RecordAndGive(f, Advanced(cell), "sleep", Advanced(cell).clock, 0)
  <2>1. PICK wake \in Nat, m \in Nat : /\ wake = cell.clock + SleepMs /\ m = cell.mono + SleepMs
                                       /\ m >= cell.mono
    BY <1>2, OptionsKnown
  <2>2. PICK c : c = [cell EXCEPT !.clock = wake, !.mono = m]
    OBVIOUS
  <2>3. /\ c \in Contexts(ran) /\ c.owner = f /\ c.mode = cell.mode
        /\ c.events = cell.events /\ c.grouped = cell.grouped
        /\ c.persisted = cell.persisted /\ c.cursor = cell.cursor /\ c.clock = wake /\ c.mono = m
    <3>1. c \in Contexts(ran)
      BY <1>2, <2>1, <2>2 DEF Contexts
    <3> QED
      BY <1>2, <2>2, <3>1 DEF Contexts
  <2>4. RecordAndGive(f, c, "sleep", wake, 0) /\ 0 = OutOf("sleep", wake)
    <3>1. c = Advanced(cell)
      BY <2>1, <2>2 DEF Advanced
    <3> QED
      BY <1>5, <2>3, <3>1 DEF OutOf
  <2>5. ASSUME f \notin irregular
        PROVE  Exhausted(cell) /\ TimedNext(body[f], Len(flow[f].outs), wake, cell, c)
    <3>1. /\ ~Stray(cell, "sleep")
          /\ NextClock(body[f], Len(flow[f].outs), cell, cell.clock + SleepMs)
          /\ NextMono(body[f], Len(flow[f].outs), cell, m)
      BY <1>1, <2>1, <2>5, UnchangedNext
    <3>2. Exhausted(cell)
      BY <1>5, <3>1 DEF Stray, Hit
    <3> QED
      BY <1>1, <2>1, <2>3, <3>1, <3>2 DEF TimedNext
  <2> QED
    BY <1>1, <1>3, <2>1, <2>3, <2>4, <2>5, RecordAndGiveStep
<1> QED
  BY <1>4, <1>5 DEF Sleep

\* The body of f ends with an error, and nothing else happens.
LEMMA ErrStep ==
    ASSUME ReplayInv, ResultsInv', NEW f \in Flows, MayStep(f), flow[f].st \in {"body", "exec"},
           flow' = [flow EXCEPT ![f].st = "err"],
           UNCHANGED <<durability, body, cell, disk, stable, ran, kept, told, swallowed, irregular>>
    PROVE  ReplayInv'
<1>1. cell \in Contexts(ran) /\ cell.owner = f /\ Counted(cell)
  BY Running
<1>2. /\ flow'[f].st = "err" /\ flow'[f].outs = flow[f].outs
      /\ flow'[f].act = flow[f].act /\ flow'[f].prev = flow[f].prev
      /\ \A g \in Flows \ {f} : flow'[g] = flow[g]
  BY ThrowFields DEF ReplayInv, ResultsInv
<1>3. Unmoved(f)
  BY <1>2 DEF Unmoved
<1>4. Bounded'
  BY <1>2, BoundedStep DEF ReplayInv, Bounded
<1>5. ASSUME f \notin irregular
      PROVE  /\ Tracks(body[f], durability[f], flow'[f], disk[f], cell)
             /\ Durable(body[f], durability[f], flow'[f], disk[f], stable[f])
             /\ f \notin swallowed =>
                   /\ Honest(durability[f], flow'[f], disk[f], kept[f], cell)
                   /\ Promised(durability[f], flow'[f], disk[f], stable[f], kept[f], told[f])
  <2>1. /\ Tracks(body[f], durability[f], flow[f], disk[f], cell)
        /\ f \notin swallowed => Honest(durability[f], flow[f], disk[f], kept[f], cell)
        /\ Durable(body[f], durability[f], flow[f], disk[f], stable[f])
        /\ f \notin swallowed =>
              Promised(durability[f], flow[f], disk[f], stable[f], kept[f], told[f])
    BY <1>5, RunsUnchanged
  <2>2. Tracks(body[f], durability[f], flow'[f], disk[f], cell)
    BY <1>2, <2>1 DEF Tracks
  <2>3. Durable(body[f], durability[f], flow'[f], disk[f], stable[f])
    BY <1>2, <2>1 DEF Durable
  <2>4. ASSUME f \notin swallowed PROVE Honest(durability[f], flow'[f], disk[f], kept[f], cell)
    BY <1>2, <2>1, <2>4 DEF Honest
  <2>5. ASSUME f \notin swallowed
        PROVE  Promised(durability[f], flow'[f], disk[f], stable[f], kept[f], told[f])
    <3>1. Promised(durability[f], flow[f], disk[f], stable[f], kept[f], told[f])
          /\ flow[f].st # "off" /\ flow'[f].st # "new"
      BY <1>2, <2>1, <2>5
    <3>2. \A i \in 1 .. Len(flow'[f].outs) : i <= Len(kept[f]) => flow'[f].outs[i] = kept[f][i]
      BY <1>2, <3>1 DEF Promised
    <3> QED
      BY <3>1, <3>2, QuietPromised
  <2> QED
    BY <2>2, <2>3, <2>4, <2>5
<1>6. TracksIn(cell)'
  BY <1>1, <1>5 DEF TracksIn
<1>7. DurableIn(f)'
  BY <1>5 DEF DurableIn
<1> QED
  BY <1>1, <1>2, <1>3, <1>4, <1>6, <1>7, StepFrame

\* A step after which the flow f is not regular.
LEMMA SpoiledStep ==
    ASSUME ReplayInv, ResultsInv', NEW f \in Flows, MayStep(f),
           UNCHANGED <<durability, body, ran, told, kept>>, irregular' = irregular \union {f},
           \A g \in Flows \ {f} : g \in swallowed' <=> g \in swallowed,
           \A g \in Flows \ {f} : flow'[g] = flow[g],
           \A g \in Flows \ {f} : disk'[g] = disk[g] /\ stable'[g] = stable[g],
           flow'[f].act = flow[f].act, flow'[f].prev = flow[f].prev,
           flow'[f].st \in {"body", "exec", "err"},
           cell' \in Contexts(ran), cell'.owner = f, Counted(cell')
    PROVE  ReplayInv'
<1>1. Unmoved(f)
  BY DEF Unmoved
<1>2. Bounded'
  BY BoundedStep DEF ReplayInv, Bounded
<1>3. TracksIn(cell)' /\ DurableIn(f)'
  BY DEF TracksIn, DurableIn
<1> QED
  BY <1>1, <1>2, <1>3, StepFrame

\* The call of a fails, and nothing else happens.
LEMMA ThrowStep ==
    ASSUME ReplayInv, ResultsInv', NEW f \in Flows, MayStep(f), flow[f].st \in {"body", "exec"},
           NEW a, Throw(f, a),
           UNCHANGED <<durability, body, cell, disk, stable, ran, kept, told, swallowed>>
    PROVE  ReplayInv'
<1>1. cell \in Contexts(ran) /\ cell.owner = f /\ Counted(cell)
  BY Running
<1>2. CASE a \notin Recovered
  <2>1. flow' = [flow EXCEPT ![f].st = "err"] /\ UNCHANGED irregular
    BY <1>2 DEF Throw
  <2> QED
    BY <2>1, ErrStep
<1>3. CASE a \in Recovered
  <2>1. Give(f, ErrorValue) /\ irregular' = irregular \union {f}
    BY <1>3 DEF Throw
  <2>2. /\ flow'[f].st = "body"
        /\ flow'[f].act = flow[f].act /\ flow'[f].prev = flow[f].prev
        /\ \A g \in Flows \ {f} : flow'[g] = flow[g]
    BY <2>1, GiveFields DEF ReplayInv, ResultsInv
  <2> QED
    BY <1>1, <2>1, <2>2, SpoiledStep
<1> QED
  BY <1>2, <1>3

\* A reading leaves everything but the clocks and the generator alone.
LEMMA ReadingFields ==
    ASSUME NEW R, NEW c \in Contexts(R), NEW x \in Readings(c)
    PROVE  /\ x.ctx.owner = c.owner /\ x.ctx.persisted = c.persisted
           /\ x.ctx.cursor = c.cursor /\ x.ctx.events = c.events
<1>1. x.ctx \in {c, [c EXCEPT !.rng = @ + 1], [c EXCEPT !.clock = @ + SleepMs, !.mono = @ + SleepMs]}
  BY DEF Readings, Advanced
<1> QED
  BY <1>1 DEF Contexts

\* The context after the pump of one more event.
LEMMA PumpedCell ==
    ASSUME ReplayInv, ResultsInv', NEW f \in Flows, MayStep(f),
           NEW c3 \in Contexts(ran), c3.owner = f, c3.persisted = cell.persisted,
           c3.cursor = cell.cursor, Len(c3.events) = Len(cell.events) + 1,
           NEW p \in Pumped(c3), cell' = p.ctx, disk' = p.disk, stable' = p.stable
    PROVE  /\ Counted(cell') /\ cell' \in Contexts(ran) /\ cell'.owner = f
           /\ \A g \in Flows \ {f} : disk'[g] = disk[g] /\ stable'[g] = stable[g]
<1>1. cell \in Contexts(ran) /\ Counted(cell)
  BY Running
<1>2. /\ PumpTo(c3, disk[f], stable[f], cell', disk'[f], stable'[f])
      /\ \A g \in Flows \ {f} : disk'[g] = disk[g] /\ stable'[g] = stable[g]
  BY PumpedFlow
<1>3. PICK c2 : c2 = cell'
  OBVIOUS
<1>4. /\ c2.events = c3.events /\ c2.cursor = c3.cursor /\ c2.owner = f
      /\ c2.persisted = Len(c3.events) \/ c2.persisted = c3.persisted
  BY <1>2, <1>3 DEF PumpTo, Wrote, Tore, SameRun
<1>5. /\ Len(cell.events) \in Nat /\ cell.cursor \in Nat /\ cell.persisted \in Nat
      /\ cell.cursor <= Len(cell.events) /\ cell.persisted <= Len(cell.events)
  BY <1>1 DEF Contexts, Counted
<1>6. \A x, y \in Nat : x <= y => x <= y + 1 /\ y + 1 <= y + 1
  OBVIOUS
<1>7. Counted(c2)
  BY <1>4, <1>5, <1>6 DEF Counted
<1>8. OutcomeTrue(ran, p)
  BY PumpedOK DEF ReplayInv, ResultsInv, LogsTrue
<1> QED
  BY <1>2, <1>3, <1>4, <1>7, <1>8 DEF OutcomeTrue

\* The activity a starts.
LEMMA ExecStep ==
    ASSUME ReplayInv, ResultsInv', NEW f \in Flows, NEW a \in Activities, At(f, a), Exhausted(cell),
           cell' = [cell EXCEPT !.mode = "Record"],
           flow' = [flow EXCEPT ![f].st = "exec", ![f].act = Len(ran) + 1],
           ran' = Append(ran, a),
           UNCHANGED <<durability, body, disk, stable, kept, told, swallowed, irregular>>
    PROVE  ReplayInv'
<1>1. MayStep(f) /\ flow[f].st = "body"
  BY DEF At
<1>2. cell \in Contexts(ran) /\ cell.owner = f /\ Counted(cell) /\ flow[f] \in Drivers(ran)
  BY <1>1, Running
<1>3. PICK c2 : c2 = cell'
  OBVIOUS
<1>4. /\ c2 \in Contexts(ran) /\ c2.owner = f /\ c2.mode = "Record" /\ c2.events = cell.events
      /\ c2.cursor = cell.cursor /\ c2.clock = cell.clock /\ c2.mono = cell.mono
      /\ c2.grouped = cell.grouped /\ c2.persisted = cell.persisted
  BY <1>2, <1>3 DEF Contexts
<1>5. ran \in Seq(Activities) /\ flow \in [Flows -> Drivers(ran)]
  BY DEF ReplayInv, ResultsInv, LogsTrue, FlowsTrue
<1>6. c2 \in Contexts(ran')
  BY <1>4, <1>5, ContextsGrow
<1>7. /\ flow'[f].st = "exec" /\ flow'[f].outs = flow[f].outs /\ flow'[f].act = Len(ran) + 1
      /\ flow'[f].prev = flow[f].prev
      /\ \A g \in Flows \ {f} : flow'[g] = flow[g]
  BY <1>5 DEF Drivers
<1>8. Unmoved(f)
  BY <1>7 DEF Unmoved
<1>9. Bounded'
  <2>1. Len(ran) \in Nat /\ Len(ran') = Len(ran) + 1
    BY <1>5
  <2>2. \A g \in Flows : flow[g].act \in Nat /\ flow[g].act <= Len(ran)
    BY <1>5 DEF Drivers, ReplayInv, Bounded
  <2>3. ASSUME NEW g \in Flows PROVE flow'[g].act <= Len(ran')
    <3>1. CASE g = f
      BY <1>7, <2>1, <3>1
    <3>2. CASE g # f
      <4>1. flow'[g].act = flow[g].act /\ flow[g].act \in Nat /\ flow[g].act <= Len(ran)
        BY <1>7, <2>2, <2>3, <3>2
      <4> QED
        BY <2>1, <4>1
    <3> QED
      BY <3>1, <3>2
  <2> QED
    BY <2>3 DEF ReplayInv, Bounded
<1>10. ASSUME f \notin irregular
       PROVE  /\ Tracks(body[f], durability[f], flow'[f], disk[f], c2)
              /\ Durable(body[f], durability[f], flow'[f], disk[f], stable[f])
              /\ f \notin swallowed =>
                    /\ Honest(durability[f], flow'[f], disk[f], kept[f], c2)
                    /\ Promised(durability[f], flow'[f], disk[f], stable[f], kept[f], told[f])
  <2>1. /\ Tracks(body[f], durability[f], flow[f], disk[f], cell)
        /\ f \notin swallowed => Honest(durability[f], flow[f], disk[f], kept[f], cell)
        /\ Durable(body[f], durability[f], flow[f], disk[f], stable[f])
        /\ f \notin swallowed =>
              Promised(durability[f], flow[f], disk[f], stable[f], kept[f], told[f])
    BY <1>1, <1>10, RunsUnchanged
  <2>2. Len(flow[f].outs) = Len(cell.events)
    BY <1>10, UnchangedNext
  <2>3. InStep(body[f], flow[f].outs, cell)
    BY <1>1, <2>1 DEF Tracks
  <2>4. InStep(body[f], flow'[f].outs, c2)
    BY <1>4, <1>7, <2>2, <2>3 DEF InStep
  <2>5. Tracks(body[f], durability[f], flow'[f], disk[f], c2)
    BY <1>4, <1>7, <2>1, <2>4 DEF Tracks
  <2>6. Durable(body[f], durability[f], flow'[f], disk[f], stable[f])
    BY <1>7, <2>1 DEF Durable
  <2>7. ASSUME f \notin swallowed PROVE Honest(durability[f], flow'[f], disk[f], kept[f], c2)
    BY <1>1, <1>4, <1>7, <2>1, <2>7 DEF Honest
  <2>8. ASSUME f \notin swallowed
        PROVE  Promised(durability[f], flow'[f], disk[f], stable[f], kept[f], told[f])
    <3>1. Promised(durability[f], flow[f], disk[f], stable[f], kept[f], told[f])
          /\ flow[f].st # "off" /\ flow'[f].st # "new"
      BY <1>1, <1>7, <2>1, <2>8
    <3>2. \A i \in 1 .. Len(flow'[f].outs) : i <= Len(kept[f]) => flow'[f].outs[i] = kept[f][i]
      BY <1>7, <3>1 DEF Promised
    <3> QED
      BY <3>1, <3>2, QuietPromised
  <2> QED
    BY <2>5, <2>6, <2>7, <2>8
<1>11. TracksIn(cell)'
  BY <1>3, <1>4, <1>10 DEF TracksIn
<1>12. DurableIn(f)'
  BY <1>10 DEF DurableIn
<1>13. Counted(cell')
  BY <1>2, <1>3, <1>4 DEF Counted
<1> QED
  BY <1>1, <1>3, <1>4, <1>6, <1>7, <1>8, <1>9, <1>11, <1>12, <1>13, StepFrame

\* ctx.call up to the await of the activity.
LEMMA CallStep ==
    ASSUME ReplayInv, ResultsInv', NEW f \in Flows, Call(f)
    PROVE  ReplayInv'
<1>1. PICK a \in Activities :
        /\ At(f, a)
        /\ \/ Hit(cell, a) /\ ReplayAndGive(f, cell, NextEvent(cell).val)
           \/ /\ Throw(f, a)
              /\ UNCHANGED <<durability, body, cell, disk, stable, ran, kept, told, swallowed>>
           \/ /\ Exhausted(cell)
              /\ cell' = [cell EXCEPT !.mode = "Record"]
              /\ flow' = [flow EXCEPT ![f].st = "exec", ![f].act = Len(ran) + 1]
              /\ ran' = Append(ran, a)
              /\ UNCHANGED <<durability, body, disk, stable, kept, told, swallowed, irregular>>
  BY DEF Call, files, history
<1>2. MayStep(f) /\ flow[f].st = "body" /\ body[f][Len(flow[f].outs) + 1] = a
  BY <1>1 DEF At
<1>3. a \notin Readers /\ a \notin {"now", "mono", "sleep"}
  BY <1>1, BodiesAreEffects DEF Readers
<1>4. cell \in Contexts(ran) /\ cell.owner = f
  BY <1>2, Running
<1>5. CASE Hit(cell, a) /\ ReplayAndGive(f, cell, NextEvent(cell).val)
  <2>1. ~Exhausted(cell) /\ NextEvent(cell).effect = a
    BY <1>5 DEF Hit
  <2>2. NextEvent(cell).val = ValueOf(NextEvent(cell))
    BY <1>3, <2>1 DEF ValueOf
  <2>3. f \notin irregular => TimedNext(body[f], cell.cursor, NextEvent(cell).val, cell, cell)
    BY <1>1, <1>3, <2>1, ClocksStay
  <2> QED
    BY <1>1, <1>4, <1>5, <2>1, <2>2, <2>3, ReplayStep
<1>6. CASE /\ Throw(f, a)
           /\ UNCHANGED <<durability, body, cell, disk, stable, ran, kept, told, swallowed>>
  BY <1>2, <1>6, ThrowStep
<1>7. CASE /\ Exhausted(cell)
           /\ cell' = [cell EXCEPT !.mode = "Record"]
           /\ flow' = [flow EXCEPT ![f].st = "exec", ![f].act = Len(ran) + 1]
           /\ ran' = Append(ran, a)
           /\ UNCHANGED <<durability, body, disk, stable, kept, told, swallowed, irregular>>
  BY <1>1, <1>7, ExecStep
<1> QED
  BY <1>1, <1>5, <1>6, <1>7

\* An activity that throws.
LEMMA ActivityFailsStep ==
    ASSUME ReplayInv, ResultsInv', NEW f \in Flows, ActivityFails(f)
    PROVE  ReplayInv'
<1>1. MayStep(f) /\ flow[f].st = "exec" /\ Throw(f, ran[flow[f].act])
      /\ UNCHANGED <<durability, body, cell, disk, stable, ran, kept, told, swallowed>>
  BY DEF ActivityFails, files
<1> QED
  BY <1>1, ThrowStep

\* An activity that records what it reads.
LEMMA ActivityReadsStep ==
    ASSUME ReplayInv, ResultsInv', NEW f \in Flows, ActivityReads(f)
    PROVE  ReplayInv'
<1>1. /\ MayStep(f) /\ flow[f].st = "exec" /\ irregular' = irregular \union {f}
      /\ UNCHANGED <<durability, body, flow, ran, kept, told>>
  BY DEF ActivityReads
<1>2. cell \in Contexts(ran) /\ cell.owner = f
  BY <1>1, Running
<1>3. PICK x \in Readings(cell) : \E p \in Pumped(Recorded(x.ctx, x.effect, x.val)) :
             /\ cell' = p.ctx /\ disk' = p.disk /\ stable' = p.stable
             /\ swallowed' = IF p.ok THEN swallowed ELSE swallowed \union {f}
  BY DEF ActivityReads
<1>4. PICK c3 : c3 = Recorded(x.ctx, x.effect, x.val)
  OBVIOUS
<1>5. PICK p \in Pumped(c3) :
             /\ cell' = p.ctx /\ disk' = p.disk /\ stable' = p.stable
             /\ swallowed' = IF p.ok THEN swallowed ELSE swallowed \union {f}
  BY <1>3, <1>4
<1>6. x.ctx \in Contexts(ran) /\ x.effect \in Effects /\ x.effect \notin Activities /\ x.val \in Nat
  BY <1>2, <1>3, ReadingsOK
<1>7. /\ x.ctx.owner = cell.owner /\ x.ctx.persisted = cell.persisted
      /\ x.ctx.cursor = cell.cursor /\ x.ctx.events = cell.events
  BY <1>2, <1>3, ReadingFields
<1>8. /\ c3 \in Contexts(ran) /\ c3.owner = f /\ c3.persisted = cell.persisted
      /\ c3.cursor = cell.cursor /\ Len(c3.events) = Len(cell.events) + 1
  <2>1. PICK y \in Contexts(ran), e \in Effects, v \in Nat : y = x.ctx /\ e = x.effect /\ v = x.val
    BY <1>6
  <2>2. e \in Activities => v \in 1 .. Len(ran) /\ ran[v] = e
    BY <1>6, <2>1
  <2>3. c3 = Recorded(y, e, v)
    BY <1>4, <2>1
  <2>4. /\ c3 \in Contexts(ran) /\ c3.owner = y.owner /\ c3.persisted = y.persisted
        /\ c3.cursor = y.cursor /\ Len(c3.events) = Len(y.events) + 1
    BY <2>2, <2>3, RecordedFields
  <2> QED
    BY <1>2, <1>7, <2>1, <2>4
<1>9. /\ Counted(cell') /\ cell' \in Contexts(ran) /\ cell'.owner = f
      /\ \A g \in Flows \ {f} : disk'[g] = disk[g] /\ stable'[g] = stable[g]
  BY <1>1, <1>5, <1>8, PumpedCell
<1> QED
  BY <1>1, <1>5, <1>9, SpoiledStep

\* ctx.call after the await: the result is recorded.
LEMMA ActivityReturnsStep ==
    ASSUME ReplayInv, ResultsInv', NEW f \in Flows, ActivityReturns(f)
    PROVE  ReplayInv'
<1>1. MayStep(f) /\ flow[f].st = "exec" /\ UNCHANGED <<durability, body, ran, told, swallowed>>
  BY DEF ActivityReturns
<1>2. cell \in Contexts(ran) /\ cell.owner = f /\ flow[f] \in Drivers(ran)
  BY <1>1, Running
<1>3. PICK v : v = flow[f].act
  OBVIOUS
<1>4. PICK n : n = Len(flow[f].outs)
  OBVIOUS
<1>5. PICK e : e = ran[v]
  OBVIOUS
<1>6. v \in 1 .. Len(ran) /\ e = body[f][n + 1] /\ n < Len(body[f]) /\ ran \in Seq(Activities)
  BY <1>1, <1>3, <1>4, <1>5 DEF ReplayInv, ResultsInv, FlowsTrue, LogsTrue, Given
<1>7. v \in Nat /\ e \in Activities
  <2>1. Len(ran) \in Nat /\ \A i \in 1 .. Len(ran) : ran[i] \in Activities
    BY <1>6
  <2>2. v \in 1 .. Len(ran)
    BY <1>6
  <2>3. v \in Nat
    BY <2>1, <2>2
  <2>4. ran[v] \in Activities
    BY <2>1, <2>2
  <2> QED
    BY <1>5, <2>3, <2>4
<1>8. e \in Effects /\ e \notin {"now", "mono", "sleep"}
  BY <1>7, BodiesAreEffects DEF Effects, Readers
<1>9. PICK p \in Pumped(Recorded(cell, e, v)) :
          /\ cell' = p.ctx /\ disk' = p.disk /\ stable' = p.stable
          /\ IF p.ok THEN Give(f, v) /\ Keep(f, v) /\ UNCHANGED irregular
             ELSE Throw(f, e) /\ UNCHANGED kept
  BY <1>3, <1>5 DEF ActivityReturns
<1>10. FlowsTrue
  BY DEF ReplayInv, ResultsInv
<1>11. ASSUME p.ok \/ e \notin Recovered PROVE Recording(f, v, p.ok) /\ UNCHANGED irregular
  <2>1. OutOf(body[f][Len(flow[f].outs) + 1], v) = v
    BY <1>4, <1>6, <1>8 DEF OutOf
  <2>2. CASE p.ok
    <3>1. /\ flow'[f].st = "body" /\ flow'[f].outs = Append(flow[f].outs, v)
          /\ flow'[f].act = flow[f].act /\ flow'[f].prev = flow[f].prev
          /\ \A g \in Flows \ {f} : flow'[g] = flow[g]
      BY <1>9, <1>10, <2>2, GiveFields
    <3>2. kept' = IF cell.grouped THEN [kept EXCEPT ![f] = flow'[f].outs] ELSE kept
      BY <1>9, <2>2, <3>1 DEF Keep
    <3> QED
      BY <1>1, <1>9, <2>1, <2>2, <3>1, <3>2 DEF Recording
  <2>3. CASE ~p.ok
    <3>0. flow' = [flow EXCEPT ![f].st = "err"] /\ UNCHANGED irregular
      BY <1>9, <1>11, <2>3 DEF Throw
    <3>1. /\ flow'[f].st = "err" /\ flow'[f].outs = flow[f].outs
          /\ flow'[f].act = flow[f].act /\ flow'[f].prev = flow[f].prev
          /\ \A g \in Flows \ {f} : flow'[g] = flow[g]
      BY <1>10, <3>0, ThrowFields
    <3> QED
      BY <1>1, <1>9, <2>3, <3>0, <3>1 DEF Recording
  <2> QED
    BY <2>2, <2>3
<1>12. PICK c3 : c3 = Recorded(cell, e, v)
  OBVIOUS
<1>13. /\ c3 \in Contexts(ran) /\ c3.owner = f /\ c3.persisted = cell.persisted
       /\ c3.cursor = cell.cursor /\ c3.grouped = cell.grouped
       /\ c3.clock = cell.clock /\ c3.mono = cell.mono
       /\ c3.mode = cell.mode /\ c3.events = Append(cell.events, Event(Len(cell.events), e, v))
       /\ Len(c3.events) = Len(cell.events) + 1
  <2>1. v \in 1 .. Len(ran) /\ ran[v] = e
    BY <1>5, <1>6
  <2>2. /\ c3 \in Contexts(ran) /\ c3.owner = cell.owner /\ c3.persisted = cell.persisted
        /\ c3.cursor = cell.cursor /\ c3.grouped = cell.grouped
        /\ c3.clock = cell.clock /\ c3.mono = cell.mono /\ c3.mode = cell.mode
        /\ c3.events = Append(cell.events, Event(Len(cell.events), e, v))
        /\ Len(c3.events) = Len(cell.events) + 1
    <3>1. cell \in Contexts(ran) /\ e \in Effects /\ v \in Nat /\ c3 = Recorded(cell, e, v)
      BY <1>2, <1>7, <1>8, <1>12
    <3>2. e \in Activities => v \in 1 .. Len(ran) /\ ran[v] = e
      BY <2>1
    <3> QED
      BY ONLY <3>1, <3>2, RecordedFields
  <2> QED
    BY <1>2, <2>2
<1>14. ASSUME f \notin irregular
       PROVE  /\ Len(flow[f].outs) = Len(cell.events) /\ Len(flow[f].outs) < Len(body[f])
              /\ Records(body[f], Len(flow[f].outs), v, cell, c3)
  <2>1. PICK b : b = body[f]
    OBVIOUS
  <2>2. PICK outs : outs = flow[f].outs
    OBVIOUS
  <2>3. Tracks(b, durability[f], flow[f], disk[f], cell)
    BY <1>1, <1>14, <2>1, RunsUnchanged
  <2>4. cell.mode = "Record" /\ InStep(b, outs, cell) /\ Follows(b, cell.events)
        /\ Read(outs, cell.events)
    BY <1>1, <2>2, <2>3 DEF Tracks
  <2>5. outs \in Seq(Nat) /\ n = Len(outs) /\ e = b[Len(outs) + 1]
    BY <1>2, <1>4, <1>6, <2>1, <2>2 DEF Drivers
  <2>6. Len(outs) = Len(cell.events)
    BY <2>4 DEF InStep
  <2>7. NextClock(b, Len(outs), cell, cell.clock)
    BY <1>2, <1>8, <2>4, <2>5, ClockStays
  <2>8. NextMono(b, Len(outs), cell, cell.mono)
    <3>1. cell.mono \in Nat /\ cell.mono >= cell.mono
      BY <1>2 DEF Contexts
    <3> QED
      BY <1>2, <2>4, <2>5, <3>1, MonoStays
  <2>a. ~Clocked(b, Len(outs) + 1) /\ b[Len(outs) + 1] # "mono"
    BY <1>8, <2>5 DEF Clocked
  <2>b. TimedNext(b, Len(outs), v, cell, c3)
    BY <1>13, <2>7, <2>8, <2>a DEF TimedNext
  <2>9. Records(b, Len(outs), v, cell, c3)
    BY <1>13, <2>4, <2>5, <2>6, <2>b DEF Records
  <2> QED
    BY <1>4, <1>6, <2>1, <2>2, <2>6, <2>9
<1>15. p \in Pumped(c3)
  BY <1>9, <1>12
<1>16. CASE p.ok \/ e \notin Recovered
  <2>1. Recording(f, v, p.ok) /\ UNCHANGED <<durability, body, ran, told, irregular>>
    BY <1>1, <1>11, <1>16
  <2> QED
    BY <1>1, <1>7, <1>9, <1>13, <1>14, <1>15, <2>1, RecordStep
<1>17. CASE ~p.ok /\ e \in Recovered
  <2>1. Give(f, ErrorValue) /\ irregular' = irregular \union {f} /\ kept' = kept
    BY <1>9, <1>17 DEF Throw
  <2>2. /\ flow'[f].st = "body"
        /\ flow'[f].act = flow[f].act /\ flow'[f].prev = flow[f].prev
        /\ \A g \in Flows \ {f} : flow'[g] = flow[g]
    BY <1>10, <2>1, GiveFields
  <2>3. /\ Counted(cell') /\ cell' \in Contexts(ran) /\ cell'.owner = f
        /\ \A g \in Flows \ {f} : disk'[g] = disk[g] /\ stable'[g] = stable[g]
    BY <1>1, <1>9, <1>13, <1>15, PumpedCell
  <2> QED
    BY <1>1, <2>1, <2>2, <2>3, SpoiledStep
<1> QED
  BY <1>16, <1>17

-----------------------------------------------------------------------------
(* finish_workflow.                                                        *)

\* The completion marker C behind the file of a run.
LEMMA MarkedFile ==
    ASSUME NEW R, NEW E \in Seq(Recordings(R)), NEW b, Follows(b, E), NEW p, NEW d \in Seq(Lines(R)),
           FileOf(E, p, d), NEW C \in Lines(R), C.line = "completed",
           NEW d2, d2 = Appended(d, <<C>>)
    PROVE  /\ Follows(b, Repaired(d2)) /\ Begins(Repaired(d), Repaired(d2))
           /\ d2 \in Seq(Lines(R))
           /\ d = E => /\ Repaired(d2) = d2 /\ Len(d2) = Len(d) + 1 /\ d2[Len(d2)] = C
                       /\ \A i \in 1 .. Len(d) : d2[i] = d[i]
<1>1. E \in Seq(Lines(R)) /\ Numbered(E) /\ \A i \in 1 .. Len(E) : E[i].line = "event"
  BY EventsNumbered, EventsAreLines
<1>2. PICK ls : ls = <<C>>
  OBVIOUS
<1>3. ls \in Seq(Lines(R)) /\ Len(ls) = 1 /\ ls[1] = C /\ d2 = Appended(d, ls)
  BY <1>2
<1>4. Torn \in Lines(R) /\ Garbage \in Lines(R)
  BY MarksAreLines
<1>5. d2 \in Seq(Lines(R))
  BY <1>3, <1>4, AppendedOK
<1>6. PICK r : r = Repaired(d)
  OBVIOUS
<1>7. r \in Seq(Lines(R)) /\ Len(r) \in 0 .. Len(d) /\ Begins(r, E) /\ Closed(d)
  BY <1>6, RepairedValid DEF FileOf
<1>8. Follows(b, r) /\ Begins(r, r)
  BY <1>1, <1>7, FollowsLess, BeginsItself
<1>9. d = E => Len(r) = Len(d)
  <2>1. ASSUME d = E PROVE Len(r) = Len(d)
    <3>1. ValidTo(d, Len(d))
      BY <1>1, <2>1, NumberedValid DEF Numbered
    <3> QED
      BY <1>6, <3>1, RepairedWhole
  <2> QED
    BY <2>1
<1>10. CASE Len(r) = Len(d)
  <2>1. r = d /\ Repaired(d) = d
    BY <1>6, <1>10, RepairedTwice
  <2>2. d2 = d \o ls
    BY <1>3, <1>6, <1>10, AppendedWhole
  <2>3. /\ Len(d2) = Len(d) + 1 /\ d2[Len(d) + 1] = C
        /\ \A i \in 1 .. Len(d) : d2[i] = d[i]
    <3>1. /\ Len(d2) = Len(d) + Len(ls)
          /\ \A i \in 1 .. Len(d) : d2[i] = d[i]
          /\ \A i \in 1 .. Len(ls) : d2[Len(d) + i] = ls[i]
      <4>1. d \in Seq(Lines(R)) /\ ls \in Seq(Lines(R))
        BY <1>3
      <4>2. /\ Len(d \o ls) = Len(d) + Len(ls)
            /\ \A i \in 1 .. Len(d) : (d \o ls)[i] = d[i]
            /\ \A i \in 1 .. Len(ls) : (d \o ls)[Len(d) + i] = ls[i]
        BY <4>1, Behind
      <4> QED
        BY <2>2, <4>2
    <3>2. Len(ls) = 1 /\ ls[1] = C /\ 1 \in 1 .. Len(ls)
      BY <1>3
    <3> QED
      BY <3>1, <3>2
  <2>4. \A i \in 1 .. Len(d) : d[i] = E[i] /\ i \in 1 .. Len(E)
    BY <1>7, <2>1 DEF Begins
  <2>5. \A i \in 1 .. Len(d) : d2[i].line = "event" /\ d[i].line = "event" /\ d2[i].seq = i - 1
    BY <1>1, <2>3, <2>4 DEF Numbered
  <2>6. PICK n \in Nat : n = Len(d2)
    BY <1>5
  <2>7. Len(d) \in Nat /\ n = Len(d) + 1
    BY <2>3, <2>6
  <2>8. ASSUME NEW i \in 1 .. n
        PROVE  /\ d2[i].line \in {"event", "completed"}
               /\ d2[i].line = "event" => d2[i].seq = i - 1
               /\ i < n => d2[i].line = "event"
    <3>1. CASE i \in 1 .. Len(d)
      BY <2>5, <3>1
    <3>2. CASE i = Len(d) + 1
      BY <2>3, <2>7, <3>2
    <3> QED
      BY <2>7, <3>1, <3>2
  <2>9. ValidTo(d2, Len(d2))
    BY <2>6, <2>8, NumberedValid
  <2>10. Repaired(d2) = d2
    BY <1>5, <2>9, RepairedWhole
  <2>11. d2[Len(d2)] = C
    BY <2>3
  <2>12. Follows(b, d2)
    <3>1. Follows(b, d) /\ \A i \in 1 .. Len(d) : d2[i] = d[i] /\ d[i].line = "event"
      BY <1>8, <2>1, <2>3, <2>5
    <3>2. d2[Len(d2)].line # "event"
      BY <2>11
    <3> QED
      BY <1>5, <2>3, <3>1, <3>2, FollowsMark
  <2>13. Begins(d, d2)
    BY <2>3, SMTT(30) DEF Begins
  <2> QED
    BY <1>5, <2>1, <2>3, <2>10, <2>11, <2>12, <2>13
<1>11. CASE Len(r) < Len(d)
  <2>1. C # Torn
    BY DEF Torn
  <2>2. \A i \in 1 .. Len(ls) : ls[i] = Torn => i = Len(ls)
    BY <1>3, <2>1
  <2>3. Repaired(d2) = r
    <3>1. Len(Repaired(d)) < Len(d)
      BY <1>6, <1>11
    <3>2. Repaired(Appended(d, ls)) = Repaired(d)
      BY <1>3, <1>4, <1>7, <2>2, <3>1, AppendedBroken
    <3> QED
      BY <1>3, <1>6, <3>2
  <2>4. d # E
    BY <1>7, <1>9, <1>11
  <2> QED
    BY <1>5, <1>6, <1>8, <2>3, <2>4
<1> QED
  BY <1>7, <1>10, <1>11

\* The group log d of a driver fl at the end of its run: the marker C, a part of
\* it or nothing was written, and nothing after an error of the body.
Ended(fl, d, C, d2) ==
    \/ d2 = d
    \/ fl.st # "err" /\ d2 = Appended(d, <<Torn>>)
    \/ fl.st # "err" /\ d2 = Appended(d, <<C>>)

\* It still follows the body.
LEMMA EndedFile ==
    ASSUME NEW R, NEW c \in Contexts(R), NEW b, NEW dur, dur = "group", NEW fl,
           NEW d \in Seq(Lines(R)), Tracks(b, dur, fl, d, c), NEW C \in Lines(R),
           C.line = "completed", NEW d2, Ended(fl, d, C, d2)
    PROVE  /\ Follows(b, Repaired(d2)) /\ Begins(Repaired(d), Repaired(d2))
           /\ d2 \in Seq(Lines(R))
<1>1. PICK E \in Seq(Recordings(R)) : E = c.events
  BY DEF Contexts
<1>2. PICK p : p = c.persisted
  OBVIOUS
<1>3. Follows(b, E) /\ FileOf(E, p, d)
  BY <1>1, <1>2 DEF Tracks
<1>4. Repaired(d) \in Seq(Lines(R)) /\ E \in Seq(Lines(R))
  BY <1>1, RepairedValid, EventsAreLines
<1>5. Follows(b, Repaired(d)) /\ Begins(Repaired(d), Repaired(d))
  BY <1>3, <1>4, FollowsLess, BeginsItself DEF FileOf
<1>6. CASE d2 = d
  BY <1>5, <1>6
<1>7. CASE d2 = Appended(d, <<Torn>>)
  <2>1. Torn \in Lines(R) /\ Garbage \in Lines(R) /\ Closed(d)
    BY <1>3, MarksAreLines DEF FileOf
  <2>2. Repaired(d2) = Repaired(d) /\ d2 \in Seq(Lines(R))
    BY <1>7, <2>1, AppendedTorn
  <2> QED
    BY <1>5, <2>2
<1>8. CASE d2 = Appended(d, <<C>>)
  BY <1>1, <1>3, <1>8, MarkedFile
<1> QED
  BY <1>6, <1>7, <1>8 DEF Ended

\* It keeps its promise; the answer is told when the marker was written.
LEMMA EndedPromised ==
    ASSUME NEW R, NEW c \in Contexts(R), NEW b, NEW dur, dur = "group", NEW fl, NEW fl2,
           NEW d \in Seq(Lines(R)), NEW s \in Seq(Lines(R)), NEW k \in Seq(Nat), NEW t,
           Tracks(b, dur, fl, d, c), Honest(dur, fl, d, k, c), Promised(dur, fl, d, s, k, t),
           fl.st # "off", NEW C \in Lines(R), C.line = "completed", NEW d2, Ended(fl, d, C, d2),
           fl2.st = "off", fl2.outs = <<>>, NEW s2, s2 \in {s, d2}, NEW t2,
           t2 = t \/ (fl.st # "err" /\ t2 = {C.result} /\ d2 = Appended(d, <<C>>))
    PROVE  Promised(dur, fl2, d2, s2, k, t2)
<1>1. /\ Follows(b, Repaired(d2)) /\ Begins(Repaired(d), Repaired(d2))
      /\ d2 \in Seq(Lines(R))
  BY EndedFile
<1>2. Repaired(d) \in Seq(Lines(R)) /\ Repaired(d2) \in Seq(Lines(R)) /\ Repaired(s) \in Seq(Lines(R))
  BY <1>1, RepairedValid
<1>3. Read(k, Repaired(d)) /\ t = {} /\ Unmarked(d) /\ Synced(d, s)
  BY DEF Promised, Shown
<1>4. Read(k, Repaired(d2))
  BY <1>1, <1>2, <1>3, ReadMore
<1>5. ASSUME fl.st # "err", d2 = Appended(d, <<C>>)
      PROVE  /\ Repaired(d2) = d2 /\ Len(d2) = Len(d) + 1 /\ d2[Len(d2)] = C
             /\ \A i \in 1 .. Len(d) : d2[i] = d[i]
  <2>1. PICK E \in Seq(Recordings(R)) : E = c.events
    BY DEF Contexts
  <2>2. PICK p : p = c.persisted
    OBVIOUS
  <2>3. Follows(b, E) /\ FileOf(E, p, d) /\ d = E
    BY <1>5, <2>1, <2>2 DEF Tracks, Honest
  <2> QED
    BY <1>5, <2>1, <2>3, MarkedFile
<1>6. \/ Unmarked(d2)
      \/ fl.st # "err" /\ d2 = Appended(d, <<C>>)
  <2>1. CASE d2 = d
    BY <1>3, <2>1
  <2>2. CASE d2 = Appended(d, <<Torn>>)
    <3>1. PICK ls : ls = <<Torn>>
      OBVIOUS
    <3>2. ls \in Seq(Lines(R)) /\ Len(ls) = 1 /\ ls[1] = Torn
      BY <3>1, MarksAreLines
    <3>3. Unmarked(ls)
      BY <3>2 DEF Unmarked, Torn
    <3> QED
      BY <1>3, <2>2, <3>1, <3>2, <3>3, NoMarker
  <2> QED
    BY <2>1, <2>2 DEF Ended
<1>7. \A i \in 1 .. Len(d2) : d2[i].line = "completed" => i = Len(d2) /\ Repaired(d2) = d2
  <2>1. CASE Unmarked(d2)
    BY <2>1 DEF Unmarked
  <2>2. CASE fl.st # "err" /\ d2 = Appended(d, <<C>>)
    <3>1. /\ Repaired(d2) = d2 /\ Len(d2) = Len(d) + 1 /\ Len(d) \in Nat
          /\ \A i \in 1 .. Len(d) : d2[i] = d[i]
      BY <1>5, <2>2
    <3>2. ASSUME NEW i \in 1 .. Len(d2), d2[i].line = "completed" PROVE i = Len(d2)
      <4>1. i \notin 1 .. Len(d)
        BY <1>3, <3>1, <3>2 DEF Unmarked
      <4> QED
        BY <3>1, <3>2, <4>1
    <3> QED
      BY <3>1, <3>2
  <2> QED
    BY <1>6, <2>1, <2>2
<1>8. Begins(Repaired(s2), Repaired(d2))
  <2>1. CASE s2 = s
    BY <1>1, <1>2, <1>3, <2>1, BeginsTrans DEF Synced
  <2>2. CASE s2 = d2
    BY <1>2, <2>2, BeginsItself
  <2> QED
    BY <2>1, <2>2
<1>9. \A i \in 1 .. Len(s2) : s2[i].line = "completed" => s2 = d2
  BY <1>3 DEF Synced, Unmarked
<1>10. Synced(d2, s2)
  BY <1>7, <1>8, <1>9 DEF Synced
<1>11. t2 # {} => IsCompleted(Repaired(d2)) /\ t2 = {Last(Repaired(d2)).result}
  <2>1. ASSUME t2 # {} PROVE IsCompleted(Repaired(d2)) /\ t2 = {Last(Repaired(d2)).result}
    <3>1. fl.st # "err" /\ t2 = {C.result} /\ d2 = Appended(d, <<C>>)
      BY <1>3, <2>1
    <3>2. Repaired(d2) = d2 /\ Len(d2) = Len(d) + 1 /\ d2[Len(d2)] = C
      BY <1>5, <3>1
    <3>3. d2 # <<>> /\ Last(d2) = C
      BY <1>1, <3>2 DEF Last
    <3> QED
      BY <3>1, <3>2, <3>3 DEF IsCompleted
  <2> QED
    BY <2>1
<1>12. \A i \in 1 .. Len(fl2.outs) : i <= Len(k) => fl2.outs[i] = k[i]
  OBVIOUS
<1> QED
  BY <1>4, <1>10, <1>11, <1>12 DEF Promised, Shown

\* What a write through the appender leaves.
LEMMA WrittenIs ==
    ASSUME NEW R, NEW c \in Contexts(R), NEW w \in Contexts(R), w.owner = c.owner,
           NEW ls, NEW p \in Written(c, w, ls)
    PROVE  \E d2, s2 :
              /\ p.disk = [disk EXCEPT ![c.owner] = d2]
              /\ p.stable = [stable EXCEPT ![c.owner] = s2]
              /\ s2 \in {stable[c.owner], d2}
              /\ \/ d2 = Appended(disk[c.owner], ls)
                 \/ ~p.ok /\ d2 \in PartlyAppended(disk[c.owner], ls)
<1>1. PICK d : d = disk[c.owner]
  OBVIOUS
<1>2. PICK s : s = stable[c.owner]
  OBVIOUS
<1>3. PICK d3 : d3 = Appended(d, ls)
  OBVIOUS
<1>4. PICK w0 : w0 = [w EXCEPT !.unsynced = 0]
  OBVIOUS
<1>5. w0.owner = c.owner
  BY <1>4 DEF Contexts
<1>6. \/ p = Outcome(w0, d3, IF w.unsynced = 0 THEN s ELSE d3, TRUE)
      \/ p = Outcome(w, d3, s, TRUE)
      \/ p = Outcome(w, d3, s, FALSE)
      \/ \E q \in PartlyAppended(d, ls) : p = Outcome(c, q, s, FALSE)
  BY <1>1, <1>2, <1>3, <1>4 DEF Written
<1>7. CASE p = Outcome(w0, d3, IF w.unsynced = 0 THEN s ELSE d3, TRUE)
  <2>1. PICK x \in {s, d3} : x = IF w.unsynced = 0 THEN s ELSE d3
    OBVIOUS
  <2>2. p.disk = [disk EXCEPT ![c.owner] = d3] /\ p.stable = [stable EXCEPT ![c.owner] = x]
    BY <1>5, <1>7, <2>1 DEF Outcome
  <2> QED
    BY <1>1, <1>2, <1>3, <2>1, <2>2
<1>8. CASE p = Outcome(w, d3, s, TRUE) \/ p = Outcome(w, d3, s, FALSE)
  <2>1. p.disk = [disk EXCEPT ![c.owner] = d3] /\ p.stable = [stable EXCEPT ![c.owner] = s]
    BY <1>8 DEF Outcome
  <2> QED
    BY <1>1, <1>2, <1>3, <2>1
<1>9. CASE \E q \in PartlyAppended(d, ls) : p = Outcome(c, q, s, FALSE)
  <2>1. PICK q \in PartlyAppended(d, ls) : p = Outcome(c, q, s, FALSE)
    BY <1>9
  <2>2. p.disk = [disk EXCEPT ![c.owner] = q] /\ p.stable = [stable EXCEPT ![c.owner] = s]
        /\ p.ok = FALSE
    BY <2>1 DEF Outcome
  <2> QED
    BY <1>1, <1>2, <2>1, <2>2
<1> QED
  BY <1>6, <1>7, <1>8, <1>9

\* Nothing is appended,
LEMMA AppendedNothing ==
    ASSUME NEW S, NEW d \in Seq(S)
    PROVE  Appended(d, <<>>) = d
<1>1. Appended(d, <<>>) = d \o <<>>
  BY DEF Appended
<1> QED
  BY <1>1, ConcatEmptySeq

\* or a part of one line.
LEMMA PartOfLine ==
    ASSUME NEW S, NEW d \in Seq(S), NEW C \in S, NEW q \in PartlyAppended(d, <<C>>)
    PROVE  q = d \/ q = Appended(d, <<Torn>>)
<1>1. PICK ls : ls = <<C>>
  OBVIOUS
<1>2. ls \in Seq(S) /\ Len(ls) = 1
  BY <1>1
<1>3. PICK n \in 0 .. Len(ls) - 1, t \in {<<>>, <<Torn>>} : q = Appended(d, SubSeq(ls, 1, n) \o t)
  BY <1>1 DEF PartlyAppended
<1>4. n = 0
  BY <1>2, <1>3
<1>5. SubSeq(ls, 1, n) = <<>>
  BY <1>2, <1>4
<1>6. <<>> \o <<>> = <<>> /\ <<>> \o <<Torn>> = <<Torn>>
  OBVIOUS
<1>7. q = Appended(d, <<>>) \/ q = Appended(d, <<Torn>>)
  BY <1>3, <1>5, <1>6
<1> QED
  BY <1>7, AppendedNothing

\* The driver and the answers after the end of a run.
LEMMA ReturnFields ==
    ASSUME ReplayInv, NEW f \in Flows, NEW ok, Return(f, ok), kept' \in [Flows -> Seq(Nat)]
    PROVE  /\ UNCHANGED <<durability, body, ran, irregular>> /\ cell' = flow[f].prev
           /\ flow'[f] = Driver("off", NoContext)
           /\ \A g \in Flows \ {f} : flow'[g] = flow[g] /\ told'[g] = told[g]
           /\ told'[f] = IF ok /\ flow[f].st # "err" THEN told[f] \union {flow[f].outs} ELSE told[f]
           /\ Bounded'
<1>1. UNCHANGED <<durability, body, ran, irregular>> /\ cell' = flow[f].prev
  BY DEF Return
<1>2. told \in [Flows -> SUBSET Seq(Nat)] /\ flow \in [Flows -> Drivers(ran)]
  BY DEF ReplayInv, Bounded, ResultsInv, FlowsTrue
<1>3. flow[f].outs \in Seq(Nat)
  BY <1>2 DEF Drivers
<1>4. flow'[f] = Driver("off", NoContext) /\ \A g \in Flows \ {f} : flow'[g] = flow[g]
  BY <1>2 DEF Return
<1>5. told' = IF ok /\ flow[f].st # "err"
              THEN [told EXCEPT ![f] = told[f] \union {flow[f].outs}] ELSE told
  BY DEF Return
<1>6. told' \in [Flows -> SUBSET Seq(Nat)]
  BY <1>2, <1>3, <1>5
<1>7. ASSUME NEW g \in Flows PROVE flow'[g].act <= Len(ran)
  <2>1. CASE g = f
    <3>1. flow'[g].act = 0 /\ Len(ran) \in Nat
      BY <1>4, <2>1 DEF Driver, ReplayInv, ResultsInv, LogsTrue
    <3> QED
      BY <3>1
  <2>2. CASE g # f
    BY <1>4, <2>2 DEF ReplayInv, Bounded
  <2> QED
    BY <2>1, <2>2
<1>8. Bounded'
  BY <1>1, <1>6, <1>7 DEF ReplayInv, Bounded
<1> QED
  BY <1>1, <1>2, <1>4, <1>5, <1>8

\* The marker of a run.
LEMMA CompletionIs ==
    ASSUME ReplayInv, NEW f \in Flows, NEW C, C = Completion(flow[f].outs)
    PROVE  /\ C \in Lines(ran) /\ C.line = "completed" /\ C.result = flow[f].outs
           /\ CompletionLines(f) = IF flow[f].st = "err" THEN <<>> ELSE <<C>>
<1>1. flow[f].outs \in Seq(Nat)
  BY DEF ReplayInv, ResultsInv, FlowsTrue, Drivers
<1> QED
  BY <1>1 DEF Completion, CompletionLines, Lines

\* finish_workflow through the appender.
LEMMA FinishGroupStep ==
    ASSUME ReplayInv, ResultsInv', NEW f \in Flows, FinishGroup(f)
    PROVE  ReplayInv'
<1>1. BodyOver(f) /\ MayStep(f) /\ cell.grouped /\ kept' = kept /\ swallowed' = swallowed
  BY DEF FinishGroup
<1>2. /\ cell \in Contexts(ran) /\ cell.owner = f /\ flow[f].st \in {"body", "exec", "err"}
      /\ disk[f] \in Seq(Lines(ran)) /\ stable[f] \in Seq(Lines(ran)) /\ kept[f] \in Seq(Nat)
  BY <1>1, Running
<1>3. PICK C : C = Completion(flow[f].outs)
  OBVIOUS
<1>4. PICK ls : ls = CompletionLines(f)
  OBVIOUS
<1>5. /\ C \in Lines(ran) /\ C.line = "completed" /\ C.result = flow[f].outs
      /\ ls = IF flow[f].st = "err" THEN <<>> ELSE <<C>>
  BY <1>3, <1>4, CompletionIs
<1>6. PICK n \in Nat : n = Len(ls)
  BY <1>4, CompletionLinesOK DEF ReplayInv
<1>7. PICK w : w = [cell EXCEPT !.unsynced = cell.unsynced + n]
  OBVIOUS
<1>8. w \in Contexts(ran) /\ w.owner = cell.owner
  <2>1. cell.unsynced + n \in Nat
    BY <1>2, <1>6 DEF Contexts
  <2> QED
    BY <1>2, <1>7, <2>1, CountersOK
<1>9. PICK p \in Written(cell, w, ls) : disk' = p.disk /\ stable' = p.stable /\ Return(f, p.ok)
  BY <1>4, <1>6, <1>7 DEF FinishGroup
<1>10. PICK d2, s2 :
              /\ p.disk = [disk EXCEPT ![f] = d2]
              /\ p.stable = [stable EXCEPT ![f] = s2]
              /\ s2 \in {stable[f], d2}
              /\ \/ d2 = Appended(disk[f], ls)
                 \/ ~p.ok /\ d2 \in PartlyAppended(disk[f], ls)
  <2>1. cell \in Contexts(ran) /\ w \in Contexts(ran) /\ w.owner = cell.owner
        /\ p \in Written(cell, w, ls)
    BY <1>2, <1>8, <1>9
  <2>2. \E d2, s2 :
              /\ p.disk = [disk EXCEPT ![cell.owner] = d2]
              /\ p.stable = [stable EXCEPT ![cell.owner] = s2]
              /\ s2 \in {stable[cell.owner], d2}
              /\ \/ d2 = Appended(disk[cell.owner], ls)
                 \/ ~p.ok /\ d2 \in PartlyAppended(disk[cell.owner], ls)
    BY <2>1, WrittenIs
  <2> QED
    BY <1>2, <2>2
<1>11. disk \in Files(ran) /\ stable \in Files(ran)
  BY DEF ReplayInv, ResultsInv, LogsTrue
<1>12. disk'[f] = d2 /\ stable'[f] = s2
       /\ \A g \in Flows \ {f} : disk'[g] = disk[g] /\ stable'[g] = stable[g]
  BY <1>9, <1>10, <1>11 DEF Files
<1>13. /\ Ended(flow[f], disk[f], C, d2)
       /\ p.ok /\ flow[f].st # "err" => d2 = Appended(disk[f], <<C>>)
  <2>1. CASE flow[f].st = "err"
    <3>1. ls = <<>>
      BY <1>5, <2>1
    <3>2. PartlyAppended(disk[f], <<>>) = {}
      BY DEF PartlyAppended
    <3>3. d2 = disk[f]
      BY <1>2, <1>10, <3>1, <3>2, AppendedNothing
    <3> QED
      BY <2>1, <3>3 DEF Ended
  <2>2. CASE flow[f].st # "err"
    <3>1. ls = <<C>>
      BY <1>5, <2>2
    <3>2. CASE d2 = Appended(disk[f], ls)
      BY <2>2, <3>1, <3>2 DEF Ended
    <3>3. CASE ~p.ok /\ d2 \in PartlyAppended(disk[f], ls)
      <4>1. d2 = disk[f] \/ d2 = Appended(disk[f], <<Torn>>)
        BY <1>2, <1>5, <3>1, <3>3, PartOfLine
      <4> QED
        BY <2>2, <3>3, <4>1 DEF Ended
    <3> QED
      BY <1>10, <3>2, <3>3
  <2> QED
    BY <2>1, <2>2
<1>14. kept' \in [Flows -> Seq(Nat)]
  BY <1>1 DEF ReplayInv, Bounded
<1>15. /\ UNCHANGED <<durability, body, ran, irregular>> /\ cell' = flow[f].prev
       /\ flow'[f] = Driver("off", NoContext)
       /\ \A g \in Flows \ {f} : flow'[g] = flow[g] /\ told'[g] = told[g]
       /\ told'[f] = IF p.ok /\ flow[f].st # "err" THEN told[f] \union {flow[f].outs} ELSE told[f]
       /\ Bounded'
  BY <1>9, <1>14, ReturnFields
<1>16. Unmoved(f)
  BY <1>1, <1>12, <1>15 DEF Unmoved
<1>17. flow'[f].st = "off" /\ flow'[f].outs = <<>>
  BY <1>15 DEF Driver
<1>18. ASSUME f \notin irregular
       PROVE  /\ Durable(body[f], durability[f], flow'[f], d2, s2)
              /\ f \notin swallowed => Promised(durability[f], flow'[f], d2, s2, kept[f], told'[f])
  <2>1. PICK fl : fl = flow[f]
    OBVIOUS
  <2>2. PICK fl2 : fl2 = flow'[f]
    OBVIOUS
  <2>3. PICK b : b = body[f]
    OBVIOUS
  <2>4. PICK dur : dur = durability[f]
    OBVIOUS
  <2>5. PICK d \in Seq(Lines(ran)) : d = disk[f]
    BY <1>2
  <2>6. PICK s \in Seq(Lines(ran)) : s = stable[f]
    BY <1>2
  <2>7. PICK k \in Seq(Nat) : k = kept[f]
    BY <1>2
  <2>8. PICK t : t = told[f]
    OBVIOUS
  <2>9. PICK t2 : t2 = told'[f]
    OBVIOUS
  <2>10. /\ Tracks(b, dur, fl, d, cell) /\ Durable(b, dur, fl, d, s)
         /\ f \notin swallowed => Honest(dur, fl, d, k, cell) /\ Promised(dur, fl, d, s, k, t)
    BY <1>1, <1>18, <2>1, <2>3, <2>4, <2>5, <2>6, <2>7, <2>8, RunsUnchanged
  <2>11. dur = "group"
    BY <1>1, <2>10 DEF Tracks
  <2>12. Ended(fl, d, C, d2) /\ s2 \in {s, d2} /\ fl.st # "off" /\ fl2.st = "off" /\ fl2.outs = <<>>
    BY <1>2, <1>10, <1>13, <1>17, <2>1, <2>2, <2>5, <2>6
  <2>13. cell \in Contexts(ran) /\ C \in Lines(ran) /\ C.line = "completed"
    BY <1>2, <1>5
  <2>14. Follows(b, Repaired(d2))
    BY <2>5, <2>10, <2>11, <2>12, <2>13, EndedFile
  <2>15. Follows(b, Repaired(s2))
    BY <2>10, <2>11, <2>12, <2>14 DEF Durable, Shown
  <2>16. Elapsed(b, fl2.outs)
    BY <2>12 DEF Elapsed
  <2>17. Durable(b, dur, fl2, d2, s2)
    BY <2>11, <2>14, <2>15, <2>16 DEF Durable, Shown
  <2>18. ASSUME f \notin swallowed PROVE Promised(dur, fl2, d2, s2, k, t2)
    <3>1. Honest(dur, fl, d, k, cell) /\ Promised(dur, fl, d, s, k, t)
      BY <2>10, <2>18
    <3>2. t = {}
      BY <2>12, <3>1 DEF Promised
    <3>3. t2 = t \/ (fl.st # "err" /\ t2 = {C.result} /\ d2 = Appended(d, <<C>>))
      BY <1>5, <1>13, <1>15, <2>1, <2>5, <2>8, <2>9, <3>2
    <3>4. Tracks(b, dur, fl, d, cell)
      BY <2>10
    <3> QED
      BY <2>5, <2>6, <2>7, <2>11, <2>12, <2>13, <3>1, <3>3, <3>4, EndedPromised
  <2> QED
    BY <2>2, <2>3, <2>4, <2>7, <2>9, <2>17, <2>18
<1>19. DurableIn(f)'
  BY <1>1, <1>12, <1>15, <1>18 DEF DurableIn
<1> QED
  BY <1>1, <1>15, <1>16, <1>19, ReturnFrame

\* The log that a snapshot writes, with the completion marker C.
LEMMA SnapshotLog ==
    ASSUME NEW R, NEW E \in Seq(Recordings(R)), NEW b, Follows(b, E), NEW C \in Lines(R),
           C.line = "completed"
    PROVE  /\ E \o <<C>> \in Seq(Lines(R)) /\ Follows(b, E \o <<C>>) /\ Begins(E, E \o <<C>>)
           /\ IsCompleted(E \o <<C>>) /\ Last(E \o <<C>>) = C
<1>1. E \in Seq(Lines(R)) /\ \A i \in 1 .. Len(E) : E[i].line = "event"
  BY EventsAreLines, EventsNumbered
<1>2. PICK ls : ls = <<C>>
  OBVIOUS
<1>3. PICK log : log = E \o ls
  OBVIOUS
<1>4. ls \in Seq(Lines(R)) /\ Len(ls) = 1 /\ ls[1] = C /\ 1 \in 1 .. Len(ls)
  BY <1>2
<1>5. /\ E \o ls \in Seq(Lines(R)) /\ Len(E \o ls) = Len(E) + Len(ls)
      /\ \A i \in 1 .. Len(E) : (E \o ls)[i] = E[i]
      /\ \A i \in 1 .. Len(ls) : (E \o ls)[Len(E) + i] = ls[i]
  <2>1. E \in Seq(Lines(R)) /\ ls \in Seq(Lines(R))
    BY <1>1, <1>4
  <2> QED
    BY <2>1, Behind
<1>6. /\ log \in Seq(Lines(R)) /\ Len(log) = Len(E) + 1 /\ log[Len(log)] = C
      /\ \A i \in 1 .. Len(E) : log[i] = E[i]
  BY <1>3, <1>4, <1>5
<1>7. log[Len(log)].line # "event" /\ Len(E) \in Nat
  BY <1>6
<1>8. Follows(b, log)
  BY <1>1, <1>6, <1>7, FollowsMark
<1>9. Begins(E, log)
  BY <1>6, <1>7 DEF Begins
<1>10. log # <<>> /\ Last(log) = C
  BY <1>6, <1>7 DEF Last
<1> QED
  BY <1>2, <1>3, <1>6, <1>8, <1>9, <1>10 DEF IsCompleted

\* It keeps the promise of its mode.
LEMMA SnapshotPromised ==
    ASSUME NEW dur, dur # "group", NEW fl2, fl2.st = "off", fl2.outs = <<>>, NEW d2, NEW s2,
           NEW k2, NEW t2, Read(k2, d2), dur = "fsync" => s2 = d2,
           t2 = {} \/ (IsCompleted(d2) /\ t2 = {Last(d2).result})
    PROVE  Promised(dur, fl2, d2, s2, k2, t2)
<1>1. \A i \in 1 .. Len(fl2.outs) : i <= Len(k2) => fl2.outs[i] = k2[i]
  OBVIOUS
<1> QED
  BY <1>1 DEF Promised, Shown

\* finish_workflow without an appender.
LEMMA FinishSnapshotStep ==
    ASSUME ReplayInv, ResultsInv', NEW f \in Flows, FinishSnapshot(f)
    PROVE  ReplayInv'
<1>1. BodyOver(f) /\ MayStep(f) /\ ~cell.grouped
  BY DEF FinishSnapshot
<1>2. /\ cell \in Contexts(ran) /\ cell.owner = f /\ flow[f].st \in {"body", "exec", "err"}
      /\ disk[f] \in Seq(Lines(ran)) /\ stable[f] \in Seq(Lines(ran)) /\ kept[f] \in Seq(Nat)
      /\ flow[f] \in Drivers(ran)
  BY <1>1, Running
<1>3. PICK C : C = Completion(flow[f].outs)
  OBVIOUS
<1>4. PICK ls : ls = CompletionLines(f)
  OBVIOUS
<1>5. /\ C \in Lines(ran) /\ C.line = "completed" /\ C.result = flow[f].outs
      /\ ls = IF flow[f].st = "err" THEN <<>> ELSE <<C>>
  BY <1>3, <1>4, CompletionIs
<1>6. PICK log : log = cell.events \o ls
  OBVIOUS
<1>7. PICK outs \in Seq(Nat) : outs = flow[f].outs
  BY <1>2 DEF Drivers
<1>8. \/ /\ disk' = [disk EXCEPT ![f] = log] /\ kept' = [kept EXCEPT ![f] = outs] /\ Return(f, TRUE)
         /\ \/ /\ swallowed' = swallowed
               /\ stable' = IF durability[f] = "buffered" THEN stable
                            ELSE [stable EXCEPT ![f] = log]
            \/ swallowed' = swallowed \union {f} /\ stable' = stable
      \/ Return(f, FALSE) /\ UNCHANGED <<disk, stable, kept, swallowed>>
  BY <1>4, <1>6, <1>7 DEF FinishSnapshot, files
<1>9. PICK ok \in BOOLEAN : /\ Return(f, ok)
                            /\ ok => disk' = [disk EXCEPT ![f] = log] /\ kept' = [kept EXCEPT ![f] = outs]
                            /\ ~ok => UNCHANGED <<disk, stable, kept, swallowed>>
  BY <1>8
<1>10. disk \in Files(ran) /\ stable \in Files(ran) /\ kept \in [Flows -> Seq(Nat)]
  BY DEF ReplayInv, ResultsInv, LogsTrue, Bounded
<1>11. kept' \in [Flows -> Seq(Nat)]
  BY <1>7, <1>8, <1>10
<1>12. /\ UNCHANGED <<durability, body, ran, irregular>> /\ cell' = flow[f].prev
       /\ flow'[f] = Driver("off", NoContext)
       /\ \A g \in Flows \ {f} : flow'[g] = flow[g] /\ told'[g] = told[g]
       /\ told'[f] = IF ok /\ flow[f].st # "err" THEN told[f] \union {flow[f].outs} ELSE told[f]
       /\ Bounded'
  BY <1>9, <1>11, ReturnFields
<1>13. \A g \in Flows \ {f} : /\ disk'[g] = disk[g] /\ stable'[g] = stable[g] /\ kept'[g] = kept[g]
                              /\ g \in swallowed' <=> g \in swallowed
  BY <1>8, <1>10 DEF Files
<1>14. Unmoved(f)
  BY <1>12, <1>13 DEF Unmoved
<1>15. flow'[f].st = "off" /\ flow'[f].outs = <<>>
  BY <1>12 DEF Driver
<1>16. ASSUME f \notin irregular
       PROVE  /\ Durable(body[f], durability[f], flow'[f], disk'[f], stable'[f])
              /\ f \notin swallowed' =>
                    Promised(durability[f], flow'[f], disk'[f], stable'[f], kept'[f], told'[f])
  <2>1. PICK fl : fl = flow[f]
    OBVIOUS
  <2>2. PICK fl2 : fl2 = flow'[f] /\ fl2.st = "off" /\ fl2.outs = <<>>
    BY <1>15
  <2>3. PICK b : b = body[f]
    OBVIOUS
  <2>4. PICK dur : dur = durability[f]
    OBVIOUS
  <2>5. /\ Tracks(b, dur, fl, disk[f], cell)
        /\ Durable(b, dur, fl, disk[f], stable[f])
        /\ f \notin swallowed => Promised(dur, fl, disk[f], stable[f], kept[f], told[f])
    BY <1>1, <1>16, <2>1, <2>3, <2>4, RunsUnchanged
  <2>6. dur # "group" /\ Follows(b, cell.events) /\ Read(fl.outs, cell.events)
    BY <1>1, <2>5 DEF Tracks
  <2>7. cell.events \in Seq(Recordings(ran)) /\ cell.events \in Seq(Lines(ran))
    BY <1>2, EventsAreLines DEF Contexts
  <2>8. /\ log \in Seq(Lines(ran)) /\ Follows(b, log) /\ Begins(cell.events, log)
        /\ ls = <<C>> => IsCompleted(log) /\ Last(log) = C
    <3>1. PICK E : E = cell.events
      OBVIOUS
    <3>2. E \in Seq(Recordings(ran)) /\ E \in Seq(Lines(ran)) /\ Follows(b, E)
          /\ C \in Lines(ran) /\ C.line = "completed" /\ log = E \o ls
      BY <1>5, <1>6, <2>6, <2>7, <3>1
    <3>3. CASE flow[f].st = "err"
      <4>1. ls = <<>> /\ ls # <<C>>
        BY <1>5, <3>3
      <4>2. log = E /\ Begins(E, E)
        BY <3>2, <4>1, ConcatEmptySeq, BeginsItself
      <4> QED
        BY <3>1, <3>2, <4>1, <4>2
    <3>4. CASE flow[f].st # "err"
      <4>1. log = E \o <<C>>
        BY <1>5, <3>2, <3>4
      <4>2. /\ E \o <<C>> \in Seq(Lines(ran)) /\ Follows(b, E \o <<C>>) /\ Begins(E, E \o <<C>>)
            /\ IsCompleted(E \o <<C>>) /\ Last(E \o <<C>>) = C
        BY <3>2, SnapshotLog
      <4> QED
        BY <3>1, <4>1, <4>2
    <3> QED
      BY <3>3, <3>4
  <2>9. Read(outs, log)
    <3>1. Read(outs, cell.events)
      BY <1>7, <2>1, <2>6
    <3> QED
      BY <1>7, <2>7, <2>8, <3>1, ReadMore
  <2>10. Follows(b, disk[f]) /\ Follows(b, stable[f]) /\ Elapsed(b, fl2.outs)
    BY <2>2, <2>5, <2>6 DEF Durable, Shown, Elapsed
  <2>11. disk'[f] \in {disk[f], log} /\ stable'[f] \in {stable[f], log}
    BY <1>8, <1>10 DEF Files
  <2>12. Durable(b, dur, fl2, disk'[f], stable'[f])
    BY <2>6, <2>8, <2>10, <2>11 DEF Durable, Shown
  <2>13. ASSUME f \notin swallowed'
         PROVE  Promised(dur, fl2, disk'[f], stable'[f], kept'[f], told'[f])
    <3>1. f \notin swallowed
      BY <1>8, <2>13
    <3>2. /\ told[f] = {} /\ Read(kept[f], disk[f])
          /\ dur = "fsync" => stable[f] = disk[f]
      BY <1>2, <2>1, <2>5, <2>6, <3>1 DEF Promised, Shown
    <3>3. CASE ~ok
      <4>1. disk'[f] = disk[f] /\ stable'[f] = stable[f] /\ kept'[f] = kept[f] /\ told'[f] = {}
        BY <1>9, <1>12, <3>2, <3>3
      <4> QED
        BY <2>2, <2>6, <3>2, <4>1, SnapshotPromised
    <3>4. CASE ok
      <4>1. disk'[f] = log /\ kept'[f] = outs
        BY <1>9, <1>10, <3>4 DEF Files
      <4>2. dur = "fsync" => stable'[f] = log
        <5>1. ASSUME dur = "fsync" PROVE stable'[f] = log
          <6>1. \/ Return(f, FALSE) /\ UNCHANGED <<disk, stable, kept, swallowed>>
                \/ stable' = [stable EXCEPT ![f] = log]
            BY <1>8, <2>4, <2>13, <5>1
          <6>2. CASE stable' = [stable EXCEPT ![f] = log]
            BY <1>10, <6>2 DEF Files
          <6>3. CASE UNCHANGED <<disk, stable>>
            BY <3>2, <4>1, <5>1, <6>3
          <6> QED
            BY <6>1, <6>2, <6>3
        <5> QED
          BY <5>1
      <4>3. told'[f] = {} \/ (IsCompleted(log) /\ told'[f] = {Last(log).result})
        BY <1>5, <1>12, <2>8, <3>2, <3>4
      <4> QED
        BY <2>2, <2>6, <2>9, <4>1, <4>2, <4>3, SnapshotPromised
    <3> QED
      BY <1>9, <3>3, <3>4
  <2> QED
    BY <2>2, <2>3, <2>4, <2>12, <2>13
<1>17. DurableIn(f)'
  BY <1>12, <1>16 DEF DurableIn
<1> QED
  BY <1>1, <1>12, <1>14, <1>17, ReturnFrame

-----------------------------------------------------------------------------
(* run and resume.                                                         *)

\* An empty log.
LEMMA EmptyLog ==
    ASSUME NEW b
    PROVE  /\ Repaired(<<>>) = <<>> /\ Closed(<<>>) /\ Follows(b, <<>>) /\ FileOf(<<>>, 0, <<>>)
           /\ Read(<<>>, <<>>) /\ Elapsed(b, <<>>) /\ Unmarked(<<>>)
<1>1. PICK e : e = <<>>
  OBVIOUS
<1>2. e \in Seq({}) /\ Len(e) = 0
  BY <1>1
<1>3. ValidTo(e, Len(e))
  BY <1>2 DEF ValidTo
<1>4. Repaired(e) = e
  BY <1>2, <1>3, RepairedWhole
<1>5. Closed(e) /\ Begins(e, e) /\ Follows(b, e) /\ Read(e, e) /\ Elapsed(b, e) /\ Unmarked(e)
  BY <1>2, <1>4 DEF Closed, Begins, Follows, Read, Elapsed, Unmarked
<1>6. FileOf(e, 0, e)
  BY <1>2, <1>4, <1>5 DEF FileOf
<1> QED
  BY <1>1, <1>4, <1>5, <1>6

\* The context of a run that begins.
LEMMA ContextFields ==
    ASSUME NEW f, NEW mode, NEW E, NEW c, c = Context(f, mode, E)
    PROVE  /\ c.owner = f /\ c.mode = mode /\ c.events = E /\ c.cursor = 0
           /\ c.persisted = Len(E) /\ c.grouped = (durability[f] = "group")
BY DEF Context

\* The driver of a run that begins.
LEMMA BegunFields ==
    ASSUME NEW prev
    PROVE  /\ Driver("body", prev).st = "body" /\ Driver("body", prev).outs = <<>>
           /\ Driver("body", prev).act = 0 /\ Driver("body", prev).prev = prev
BY DEF Driver

\* A driver of a run that begins is in step with its context.
LEMMA BegunTracks ==
    ASSUME NEW b, NEW dur, NEW fl2, fl2.st = "body", fl2.outs = <<>>, NEW d2, NEW c,
           Follows(b, c.events), c.grouped = (dur = "group"), c.cursor = 0,
           c.mode = "Replay" \/ c.events = <<>>,
           dur = "group" => FileOf(c.events, c.persisted, d2)
    PROVE  Tracks(b, dur, fl2, d2, c)
<1>1. Len(fl2.outs) = 0
  OBVIOUS
<1>2. Read(fl2.outs, c.events)
  BY <1>1 DEF Read
<1>3. InStep(b, fl2.outs, c)
  <2>1. Len(fl2.outs) = IF c.mode = "Record" THEN Len(c.events) ELSE c.cursor
    BY <1>1
  <2> QED
    BY <1>1, <2>1 DEF InStep
<1> QED
  BY <1>2, <1>3 DEF Tracks

\* workflow.run.
LEMMA RunStep ==
    ASSUME ReplayInv, ResultsInv', NEW f \in Flows, Run(f)
    PROVE  ReplayInv'
<1>1. /\ flow[f].st = "new" /\ MayStart
      /\ UNCHANGED <<durability, body, stable, ran, kept, told, swallowed, irregular>>
      /\ disk' = IF durability[f] = "group" THEN [disk EXCEPT ![f] = <<>>] ELSE disk
      /\ cell' = Context(f, "Record", <<>>) /\ flow' = [flow EXCEPT ![f] = Driver("body", cell)]
  BY DEF Run, Install, history
<1>2. PICK c : c = cell'
  OBVIOUS
<1>3. PICK E : E = <<>>
  OBVIOUS
<1>4. E \in Seq(Recordings(ran)) /\ Len(E) = 0
  BY <1>3
<1>5. /\ c.owner = f /\ c.mode = "Record" /\ c.events = E /\ c.cursor = 0
      /\ c.persisted = 0 /\ c.grouped = (durability[f] = "group")
  BY <1>1, <1>2, <1>3, <1>4, ContextFields
<1>6. c \in Contexts(ran') /\ Counted(c)
  <2>1. wall \in Nat /\ ran' = ran
    BY <1>1 DEF ReplayInv, ResultsInv, LogsTrue
  <2>2. Context(f, "Record", E) \in Contexts(ran)
    BY <1>4, <2>1, ContextOK
  <2> QED
    BY <1>1, <1>2, <1>3, <1>4, <1>5, <2>1, <2>2 DEF Counted
<1>7. disk \in Files(ran) /\ flow \in [Flows -> Drivers(ran)] /\ Len(ran) \in Nat
  BY DEF ReplayInv, ResultsInv, LogsTrue, FlowsTrue
<1>8. /\ flow'[f] = Driver("body", cell) /\ \A g \in Flows \ {f} : flow'[g] = flow[g]
      /\ \A g \in Flows \ {f} : disk'[g] = disk[g]
      /\ disk'[f] = IF durability[f] = "group" THEN <<>> ELSE disk[f]
  BY <1>1, <1>7 DEF Files
<1>9. flow'[f].st = "body" /\ flow'[f].outs = <<>> /\ flow'[f].act = 0
  BY <1>8, BegunFields
<1>10. Unmoved(f)
  BY <1>1, <1>8 DEF Unmoved
<1>11. Bounded'
  <2>1. ASSUME NEW g \in Flows PROVE flow'[g].act <= Len(ran)
    BY <1>7, <1>8, <1>9, SMTT(30) DEF ReplayInv, Bounded
  <2> QED
    BY <1>1, <2>1 DEF ReplayInv, Bounded
<1>12. ASSUME f \notin irregular
       PROVE  /\ Tracks(body[f], durability[f], flow'[f], disk'[f], c)
              /\ Durable(body[f], durability[f], flow'[f], disk'[f], stable[f])
              /\ f \notin swallowed =>
                    /\ Honest(durability[f], flow'[f], disk'[f], kept[f], c)
                    /\ Promised(durability[f], flow'[f], disk'[f], stable[f], kept[f], told[f])
  <2>1. DurableIn(f)
    BY DEF ReplayInv
  <2>2. /\ Durable(body[f], durability[f], flow[f], disk[f], stable[f])
        /\ f \notin swallowed =>
              Promised(durability[f], flow[f], disk[f], stable[f], kept[f], told[f])
    BY <1>12, <2>1 DEF DurableIn
  <2>3. /\ Repaired(E) = E /\ Follows(body[f], E) /\ FileOf(E, 0, E)
        /\ Read(E, E) /\ Elapsed(body[f], E)
    BY <1>3, EmptyLog
  <2>4. durability[f] = "group" => FileOf(c.events, c.persisted, disk'[f])
    BY <1>3, <1>5, <1>8, <2>3
  <2>5. Tracks(body[f], durability[f], flow'[f], disk'[f], c)
    <3>1. Follows(body[f], c.events) /\ c.events = <<>>
      BY <1>3, <1>5, <2>3
    <3> QED
      BY <1>5, <1>9, <2>4, <3>1, BegunTracks
  <2>6. Follows(body[f], Shown(durability[f], disk'[f]))
    BY <1>3, <1>8, <2>2, <2>3 DEF Durable, Shown
  <2>7. Durable(body[f], durability[f], flow'[f], disk'[f], stable[f])
    BY <1>3, <1>9, <2>2, <2>3, <2>6 DEF Durable
  <2>8. ASSUME f \notin swallowed
        PROVE  /\ Honest(durability[f], flow'[f], disk'[f], kept[f], c)
               /\ Promised(durability[f], flow'[f], disk'[f], stable[f], kept[f], told[f])
    <3>1. /\ Promised(durability[f], flow[f], disk[f], stable[f], kept[f], told[f])
          /\ disk[f] = E /\ kept[f] = E
      BY <1>1, <1>3, <2>2, <2>8 DEF Promised
    <3>2. disk'[f] = E
      BY <1>3, <1>8, <3>1
    <3>3. Honest(durability[f], flow'[f], disk'[f], kept[f], c)
      BY <1>4, <1>5, <2>3, <3>1, <3>2 DEF Honest
    <3>4. \A i \in 1 .. Len(flow'[f].outs) : i <= Len(kept[f]) => flow'[f].outs[i] = kept[f][i]
      BY <1>9
    <3>5. Promised(durability[f], flow'[f], disk[f], stable[f], kept[f], told[f])
      BY <1>1, <1>9, <3>1, <3>4, QuietPromised
    <3> QED
      BY <3>1, <3>2, <3>3, <3>5
  <2> QED
    BY <2>5, <2>7, <2>8
<1>13. TracksIn(cell)'
  BY <1>1, <1>2, <1>5, <1>12 DEF TracksIn
<1>14. DurableIn(f)'
  BY <1>1, <1>12 DEF DurableIn
<1> QED
  BY <1>1, <1>2, <1>5, <1>6, <1>8, <1>10, <1>11, <1>13, <1>14, InstallFrame

\* The events of a log that follows the body.
LEMMA EventsShown ==
    ASSUME NEW R, NEW b, NEW x \in Seq(Lines(R)), Follows(b, x)
    PROVE  /\ EventsOf(x) \in Seq(Recordings(R)) /\ EventsOf(x) \in Seq(Lines(R))
           /\ Begins(EventsOf(x), x) /\ Follows(b, EventsOf(x))
           /\ \A i \in 1 .. Len(x) : x[i].line = "event" => i <= Len(EventsOf(x))
<1>1. PICK E : E = EventsOf(x)
  OBVIOUS
<1>2. E \in Seq(Recordings(R))
  BY <1>1, EventsOfOK
<1>3. E \in Seq(Lines(R)) /\ Len(x) \in Nat
  BY <1>2, EventsAreLines
<1>4. \A i \in 1 .. Len(x) : i < Len(x) => x[i].line = "event"
  BY DEF Follows
<1>5. Begins(E, x) /\ \A i \in 1 .. Len(x) : x[i].line = "event" => i <= Len(E)
  <2>1. CASE \A i \in 1 .. Len(x) : x[i].line = "event"
    <3>1. E = x
      BY <1>1, <2>1, AllEvents
    <3> QED
      BY <1>3, <3>1 DEF Begins
  <2>2. CASE Len(x) > 0 /\ x[Len(x)].line # "event"
    <3>1. Len(E) = Len(x) - 1 /\ \A i \in 1 .. Len(x) - 1 : E[i] = x[i]
      BY <1>1, <1>4, <2>2, EventsBefore
    <3> QED
      BY <1>3, <2>2, <3>1 DEF Begins
  <2> QED
    BY <1>3, <1>4, <2>1, <2>2
<1>6. Follows(b, E)
  BY <1>3, <1>5, FollowsLess
<1> QED
  BY <1>1, <1>2, <1>3, <1>5, <1>6

\* A resume repairs a group log and cuts what is stable with it.
LEMMA ResumedSynced ==
    ASSUME NEW S, NEW d \in Seq(S), NEW s \in Seq(S), Synced(d, s), NEW d2, d2 = Repaired(d),
           NEW s2, s2 \in {s, d2}
    PROVE  Synced(d2, s2)
<1>1. /\ d2 \in Seq(S) /\ Len(d2) \in 0 .. Len(d) /\ \A i \in 1 .. Len(d2) : d2[i] = d[i]
  BY RepairedValid
<1>2. Repaired(d2) = d2
  BY RepairedTwice
<1>3. ASSUME NEW i \in 1 .. Len(d2), d2[i].line = "completed" PROVE i = Len(d2)
  <2>1. i \in 1 .. Len(d) /\ d[i].line = "completed"
    BY <1>1, <1>3
  <2>2. i = Len(d) /\ Repaired(d) = d
    BY <2>1 DEF Synced
  <2> QED
    BY <2>2
<1>4. ASSUME NEW i \in 1 .. Len(s2), s2[i].line = "completed" PROVE s2 = d2
  <2>1. CASE s2 = s
    <3>1. s = d /\ i \in 1 .. Len(d) /\ d[i].line = "completed"
      BY <1>4, <2>1 DEF Synced
    <3>2. Repaired(d) = d
      BY <3>1 DEF Synced
    <3> QED
      BY <2>1, <3>1, <3>2
  <2> QED
    BY <2>1
<1>5. Begins(Repaired(s2), Repaired(d2))
  <2>1. CASE s2 = s
    BY <1>2, <2>1 DEF Synced
  <2>2. CASE s2 = d2
    BY <1>1, <1>2, <2>2, BeginsItself
  <2> QED
    BY <2>1, <2>2
<1> QED
  BY <1>2, <1>3, <1>4, <1>5 DEF Synced

\* A resume reads the log d2: one that is completed gives its answer, and any
\* other is run.
ResumedAs(fl2, d2, t, t2) ==
    IF IsCompleted(d2) THEN fl2.st = "off" /\ t2 = t \union {Last(d2).result}
    ELSE fl2.st = "body" /\ t2 = t

\* The promise is kept.
LEMMA ResumedPromised ==
    ASSUME NEW S, NEW b, NEW dur, NEW fl, NEW fl2, NEW d \in Seq(S), NEW s \in Seq(S), NEW k, NEW t,
           Promised(dur, fl, d, s, k, t), NEW d2, d2 = Shown(dur, d), Follows(b, d2),
           NEW s2, s2 \in {s, d2}, fl2.outs = <<>>, NEW t2, ResumedAs(fl2, d2, t, t2)
    PROVE  Promised(dur, fl2, d2, s2, k, t2)
<1>1. d2 \in Seq(S) /\ Shown(dur, d2) = d2
  BY RepairedValid, RepairedTwice DEF Shown
<1>2. Read(k, d2)
  BY DEF Promised
<1>3. dur = "fsync" => s2 = d2
  BY DEF Promised, Shown
<1>4. dur = "group" => Synced(d2, s2)
  BY ResumedSynced DEF Promised, Shown
<1>5. t # {} => IsCompleted(d2) /\ t = {Last(d2).result}
  BY DEF Promised
<1>6. fl2.st # "new" /\ (t2 # {} => IsCompleted(d2) /\ t2 = {Last(d2).result})
  BY <1>5 DEF ResumedAs
<1>7. ASSUME fl2.st # "off" PROVE t2 = {} /\ Unmarked(d2)
  <2>1. ~IsCompleted(d2) /\ t2 = t
    BY <1>7 DEF ResumedAs
  <2>2. ASSUME NEW i \in 1 .. Len(d2), d2[i].line = "completed" PROVE FALSE
    <3>1. i = Len(d2) /\ Len(d2) > 0
      BY <1>1, <2>2 DEF Follows
    <3>2. d2 # <<>> /\ Last(d2) = d2[i]
      BY <1>1, <3>1 DEF Last
    <3> QED
      BY <2>1, <2>2, <3>2 DEF IsCompleted
  <2> QED
    BY <1>5, <2>1, <2>2 DEF Unmarked
<1>8. \A i \in 1 .. Len(fl2.outs) : i <= Len(k) => fl2.outs[i] = k[i]
  OBVIOUS
<1> QED
  BY <1>1, <1>2, <1>3, <1>4, <1>6, <1>7, <1>8 DEF Promised

\* So are the files.
LEMMA ResumedDurable ==
    ASSUME NEW S, NEW b, NEW dur, NEW fl, NEW fl2, NEW d \in Seq(S), NEW s \in Seq(S),
           Durable(b, dur, fl, d, s), NEW d2, d2 = Shown(dur, d),
           NEW s2, s2 \in {s, d2}, fl2.outs = <<>>
    PROVE  Durable(b, dur, fl2, d2, s2) /\ Follows(b, d2)
<1>1. d2 \in Seq(S) /\ Shown(dur, d2) = d2
  BY RepairedTwice, RepairedValid DEF Shown
<1>2. Follows(b, Shown(dur, d2)) /\ Follows(b, Shown(dur, s)) /\ Follows(b, d2)
  BY <1>1 DEF Durable
<1>3. Follows(b, Shown(dur, s2))
  BY <1>2
<1>4. Elapsed(b, fl2.outs)
  BY DEF Elapsed
<1> QED
  BY <1>2, <1>3, <1>4 DEF Durable

\* The log of a run that is not complete holds events only; the context of a
\* resume has all of them.
LEMMA ResumedFile ==
    ASSUME NEW R, NEW b, NEW d \in Seq(Lines(R)), NEW d2, d2 = Repaired(d), Follows(b, d2),
           ~IsCompleted(d2)
    PROVE  EventsOf(d2) = d2 /\ FileOf(d2, Len(d2), d2)
<1>1. d2 \in Seq(Lines(R)) /\ Len(d2) \in Nat /\ ValidTo(d2, Len(d2)) /\ Repaired(d2) = d2
  BY RepairedValid, RepairedTwice
<1>2. ASSUME NEW i \in 1 .. Len(d2) PROVE d2[i].line = "event"
  <2>1. CASE i < Len(d2)
    BY <2>1 DEF Follows
  <2>2. CASE i = Len(d2)
    <3>1. d2[i].line \in {"event", "completed"}
      BY <1>1 DEF ValidTo
    <3>2. d2 # <<>> /\ Last(d2) = d2[i]
      BY <1>1, <2>2 DEF Last
    <3> QED
      BY <3>1, <3>2 DEF IsCompleted
  <2> QED
    BY <1>1, <2>1, <2>2
<1>3. EventsOf(d2) = d2
  BY <1>1, <1>2, AllEvents
<1>4. Begins(d2, d2) /\ Closed(d2)
  BY <1>1, BeginsItself DEF Closed
<1> QED
  BY <1>1, <1>3, <1>4 DEF FileOf

\* workflow.resume: the files of the flow, and its driver.
LEMMA ResumeFiles ==
    ASSUME ReplayInv, NEW f \in Flows, Resume(f), NEW d2, d2 = Shown(durability[f], disk[f])
    PROVE  /\ flow[f].st = "off" /\ MayStart
           /\ UNCHANGED <<durability, body, ran, wall, kept, swallowed, irregular>>
           /\ disk'[f] = d2 /\ stable'[f] \in {stable[f], d2} /\ Unmoved(f)
           /\ d2 \in Seq(Lines(ran))
           /\ IF IsCompleted(d2)
              THEN told'[f] = told[f] \union {Last(d2).result} /\ UNCHANGED <<cell, flow>>
              ELSE /\ told' = told /\ cell' = Context(f, "Replay", EventsOf(d2))
                   /\ flow'[f] = Driver("body", cell)
<1>1. d2 = Readable(f, disk[f])
  BY DEF Readable, Shown
<1>2. /\ flow[f].st = "off" /\ MayStart
      /\ disk' = [disk EXCEPT ![f] = d2]
      /\ stable' = [stable EXCEPT ![f] = IF Len(stable[f]) > Len(d2) THEN d2 ELSE stable[f]]
      /\ IF IsCompleted(d2)
         THEN /\ told' = [told EXCEPT ![f] = told[f] \union {Last(d2).result}]
              /\ UNCHANGED <<cell, flow>>
         ELSE /\ Install(f, Context(f, "Replay", EventsOf(d2)))
              /\ UNCHANGED told
      /\ UNCHANGED <<durability, body, ran, wall, kept, swallowed, irregular>>
  BY <1>1 DEF Resume
<1>3. /\ disk \in Files(ran) /\ stable \in Files(ran) /\ flow \in [Flows -> Drivers(ran)]
      /\ told \in [Flows -> SUBSET Seq(Nat)] /\ disk[f] \in Seq(Lines(ran))
  BY DEF ReplayInv, ResultsInv, LogsTrue, FlowsTrue, Bounded, Files
<1>4. /\ disk'[f] = d2 /\ stable'[f] \in {stable[f], d2}
      /\ \A g \in Flows \ {f} : disk'[g] = disk[g] /\ stable'[g] = stable[g]
  BY <1>2, <1>3 DEF Files
<1>5. \A g \in Flows \ {f} : flow'[g] = flow[g] /\ told'[g] = told[g]
  BY <1>2, <1>3 DEF Install
<1>6. Unmoved(f)
  BY <1>2, <1>4, <1>5 DEF Unmoved
<1>7. d2 \in Seq(Lines(ran))
  BY <1>3, RepairedValid DEF Shown
<1>8. CASE IsCompleted(d2)
  <2>1. told'[f] = told[f] \union {Last(d2).result} /\ UNCHANGED <<cell, flow>>
    BY <1>2, <1>3, <1>8
  <2> QED
    BY <1>2, <1>4, <1>6, <1>7, <1>8, <2>1
<1>9. CASE ~IsCompleted(d2)
  <2>1. /\ told' = told /\ cell' = Context(f, "Replay", EventsOf(d2))
        /\ flow'[f] = Driver("body", cell)
    BY <1>2, <1>3, <1>9 DEF Install
  <2> QED
    BY <1>2, <1>4, <1>6, <1>7, <1>9, <2>1
<1> QED
  BY <1>8, <1>9

\* The answer of a completed log.
LEMMA AnswerOf ==
    ASSUME NEW R, NEW d \in Seq(Lines(R)), IsCompleted(d)
    PROVE  Last(d).result \in Seq(Nat)
<1>1. Last(d) \in Lines(R) /\ Last(d).line = "completed"
  BY DEF IsCompleted, Last
<1>2. Last(d) \notin Recordings(R) /\ Last(d) \notin {Torn, Garbage}
  BY <1>1 DEF Recordings, Torn, Garbage
<1> QED
  BY <1>1, <1>2 DEF Lines

\* workflow.resume.
LEMMA ResumeStep ==
    ASSUME ReplayInv, ResultsInv', NEW f \in Flows, Resume(f)
    PROVE  ReplayInv'
<1>1. PICK d2 : d2 = Shown(durability[f], disk[f])
  OBVIOUS
<1>2. /\ flow[f].st = "off" /\ MayStart
      /\ UNCHANGED <<durability, body, ran, wall, kept, swallowed, irregular>>
      /\ disk'[f] = d2 /\ stable'[f] \in {stable[f], d2} /\ Unmoved(f)
      /\ d2 \in Seq(Lines(ran))
      /\ IF IsCompleted(d2)
         THEN told'[f] = told[f] \union {Last(d2).result} /\ UNCHANGED <<cell, flow>>
         ELSE /\ told' = told /\ cell' = Context(f, "Replay", EventsOf(d2))
              /\ flow'[f] = Driver("body", cell)
  BY <1>1, ResumeFiles
<1>3. /\ flow[f] \in Drivers(ran) /\ Given(ran, body[f], flow[f]) /\ Len(ran) \in Nat /\ wall \in Nat
      /\ disk[f] \in Seq(Lines(ran)) /\ stable[f] \in Seq(Lines(ran))
      /\ flow \in [Flows -> Drivers(ran)] /\ Bounded /\ DurableIn(f)
  BY DEF ReplayInv, ResultsInv, FlowsTrue, LogsTrue, Files
<1>4. flow[f].outs = <<>>
  BY <1>2, <1>3 DEF Given
<1>5. ResumedAs(flow'[f], d2, told[f], told'[f]) /\ flow'[f].outs = <<>> /\ flow'[f].act <= Len(ran)
  <2>1. CASE IsCompleted(d2)
    BY <1>2, <1>3, <1>4, <2>1 DEF ResumedAs, Bounded
  <2>2. CASE ~IsCompleted(d2)
    BY <1>2, <1>3, <2>2, BegunFields DEF ResumedAs
  <2> QED
    BY <2>1, <2>2
<1>6. Bounded'
  <2>1. told' \in [Flows -> SUBSET Seq(Nat)]
    <3>1. CASE IsCompleted(d2)
      <4>1. Last(d2).result \in Seq(Nat)
        BY <1>2, <3>1, AnswerOf
      <4>2. told \in [Flows -> SUBSET Seq(Nat)]
        BY <1>3 DEF Bounded
      <4>3. told' = [told EXCEPT ![f] = told[f] \union {Last(d2).result}]
        <5>1. d2 = Readable(f, disk[f])
          BY <1>1 DEF Readable, Shown
        <5> QED
          BY <3>1, <5>1 DEF Resume
      <4> QED
        BY <4>1, <4>2, <4>3
    <3>2. CASE ~IsCompleted(d2)
      BY <1>2, <1>3, <3>2 DEF Bounded
    <3> QED
      BY <3>1, <3>2
  <2>2. ASSUME NEW g \in Flows PROVE flow'[g].act <= Len(ran)
    BY <1>2, <1>3, <1>5 DEF Bounded, Unmoved
  <2> QED
    BY <1>2, <1>3, <2>1, <2>2 DEF Bounded
<1>7. ASSUME f \notin irregular
      PROVE  /\ Durable(body[f], durability[f], flow'[f], disk'[f], stable'[f])
             /\ Follows(body[f], d2)
             /\ f \notin swallowed =>
                   Promised(durability[f], flow'[f], disk'[f], stable'[f], kept[f], told'[f])
  <2>1. /\ Durable(body[f], durability[f], flow[f], disk[f], stable[f])
        /\ f \notin swallowed =>
              Promised(durability[f], flow[f], disk[f], stable[f], kept[f], told[f])
    BY <1>3, <1>7 DEF DurableIn
  <2>2. Durable(body[f], durability[f], flow'[f], disk'[f], stable'[f]) /\ Follows(body[f], d2)
    BY <1>1, <1>2, <1>3, <1>5, <2>1, ResumedDurable
  <2>3. ASSUME f \notin swallowed
        PROVE  Promised(durability[f], flow'[f], disk'[f], stable'[f], kept[f], told'[f])
    BY <1>1, <1>2, <1>3, <1>5, <2>1, <2>2, <2>3, ResumedPromised
  <2> QED
    BY <2>2, <2>3
<1>8. DurableIn(f)'
  BY <1>2, <1>7 DEF DurableIn
<1>9. CASE IsCompleted(d2)
  BY <1>2, <1>6, <1>8, <1>9, IdleFrame
<1>10. CASE ~IsCompleted(d2)
  <2>1. PICK c : c = cell'
    OBVIOUS
  <2>2. PICK E : E = EventsOf(d2)
    OBVIOUS
  <2>3. E \in Seq(Recordings(ran)) /\ Len(E) \in Nat
    BY <1>2, <2>2, EventsOfOK
  <2>4. /\ c.owner = f /\ c.mode = "Replay" /\ c.events = E /\ c.cursor = 0
        /\ c.persisted = Len(E) /\ c.grouped = (durability[f] = "group")
    BY <1>2, <1>10, <2>1, <2>2, ContextFields
  <2>5. c \in Contexts(ran')
    <3>1. Context(f, "Replay", E) \in Contexts(ran)
      BY <1>3, <2>3, ContextOK
    <3> QED
      BY <1>2, <1>10, <2>1, <2>2, <3>1
  <2>6. Counted(c)
    BY <2>3, <2>4 DEF Counted
  <2>7. flow'[f] = Driver("body", cell)
    BY <1>2, <1>10
  <2>8. flow'[f].st = "body" /\ flow'[f].outs = <<>>
    BY <2>7, BegunFields
  <2>9. ASSUME f \notin irregular
        PROVE  /\ Tracks(body[f], durability[f], flow'[f], disk'[f], c)
               /\ f \notin swallowed => Honest(durability[f], flow'[f], disk'[f], kept[f], c)
    <3>1. Follows(body[f], d2)
      BY <1>7, <2>9
    <3>2. /\ Follows(body[f], E) /\ Begins(E, d2)
          /\ \A i \in 1 .. Len(d2) : d2[i].line = "event" => i <= Len(E)
      BY <1>2, <2>2, <3>1, EventsShown
    <3>3. durability[f] = "group" => E = d2 /\ FileOf(E, Len(E), d2)
      <4>1. ASSUME durability[f] = "group" PROVE E = d2 /\ FileOf(E, Len(E), d2)
        <5>1. d2 = Repaired(disk[f])
          BY <1>1, <4>1 DEF Shown
        <5>2. EventsOf(d2) = d2 /\ FileOf(d2, Len(d2), d2)
          BY <1>3, <1>10, <3>1, <5>1, ResumedFile
        <5> QED
          BY <2>2, <5>2
      <4> QED
        BY <4>1
    <3>4. Tracks(body[f], durability[f], flow'[f], disk'[f], c)
      <4>1. /\ Follows(body[f], c.events)
            /\ durability[f] = "group" => FileOf(c.events, c.persisted, disk'[f])
        BY <1>2, <2>4, <3>2, <3>3
      <4> QED
        BY <2>4, <2>8, <4>1, BegunTracks
    <3>5. ASSUME f \notin swallowed
          PROVE  Honest(durability[f], flow'[f], disk'[f], kept[f], c)
      <4>1. Read(kept[f], d2)
        BY <1>1, <1>3, <2>9, <3>5 DEF DurableIn, Promised
      <4>2. ASSUME NEW i \in 1 .. Len(kept[f])
            PROVE  i <= Len(E) /\ E[i].line = "event" /\ kept[f][i] = ValueOf(E[i])
        <5>1. i \in Nat /\ i <= Len(d2) /\ d2[i].line = "event" /\ kept[f][i] = ValueOf(d2[i])
          BY <4>1 DEF Read
        <5>2. i \in 1 .. Len(d2) /\ i \in 1 .. Len(E)
          BY <1>2, <2>3, <3>2, <5>1
        <5>3. E[i] = d2[i]
          BY <3>2, <5>2 DEF Begins
        <5> QED
          BY <5>1, <5>2, <5>3
      <4>3. Read(kept[f], c.events)
        BY <2>4, <4>2 DEF Read
      <4> QED
        BY <1>2, <2>4, <3>3, <4>3 DEF Honest
    <3> QED
      BY <3>4, <3>5
  <2>10. TracksIn(cell)'
    BY <1>2, <2>1, <2>4, <2>9 DEF TracksIn
  <2> QED
    BY <1>2, <1>6, <1>8, <2>1, <2>4, <2>5, <2>6, <2>7, <2>10, InstallFrame
<1> QED
  BY <1>9, <1>10

-----------------------------------------------------------------------------
(* Crashes.                                                                *)

\* The driver fl of a flow becomes fl2 in a restart.
Stopped(fl, fl2) == fl2 = fl \/ (fl.st # "new" /\ fl2.st = "off" /\ fl2.outs = <<>>)

\* The drivers after a restart.
LEMMA RestartDrivers ==
    ASSUME ReplayInv, Restart, NEW f \in Flows
    PROVE  /\ Stopped(flow[f], flow'[f]) /\ flow'[f].act <= Len(ran)
           /\ flow'[f].st # "new" => flow'[f].outs = <<>> /\ flow'[f].st = "off" /\ flow[f].st # "new"
           /\ flow'[f].st = "new" => flow'[f] = flow[f]
           /\ UNCHANGED <<durability, body, ran, swallowed>>
<1>1. /\ flow'[f] = IF flow[f].st = "new" THEN flow[f] ELSE Driver("off", NoContext)
      /\ UNCHANGED <<durability, body, ran, swallowed>>
  BY DEF Restart
<1>2. flow[f].act <= Len(ran) /\ Len(ran) \in Nat
  BY DEF ReplayInv, Bounded, ResultsInv, LogsTrue
<1>3. /\ Driver("off", NoContext).st = "off" /\ Driver("off", NoContext).outs = <<>>
      /\ Driver("off", NoContext).act = 0
  BY DEF Driver
<1> QED
  BY <1>1, <1>2, <1>3 DEF Stopped

\* A flow whose files stay as they are.
LEMMA StoppedKeeps ==
    ASSUME NEW b, NEW dur, NEW fl, NEW fl2, Stopped(fl, fl2), NEW d, NEW s, NEW k, NEW t
    PROVE  /\ Durable(b, dur, fl, d, s) => Durable(b, dur, fl2, d, s)
           /\ Promised(dur, fl, d, s, k, t) => Promised(dur, fl2, d, s, k, t)
<1>1. CASE fl2 = fl
  BY <1>1
<1>2. CASE fl.st # "new" /\ fl2.st = "off" /\ fl2.outs = <<>>
  <2>1. Elapsed(b, fl2.outs)
    BY <1>2 DEF Elapsed
  <2>2. \A i \in 1 .. Len(fl2.outs) : i <= Len(k) => fl2.outs[i] = k[i]
    BY <1>2
  <2> QED
    BY <1>2, <2>1, <2>2 DEF Durable, Promised
<1> QED
  BY <1>1, <1>2 DEF Stopped

\* A flow that was killed in the middle of an append: its files,
LEMMA TornDurable ==
    ASSUME NEW R, NEW c, NEW b, NEW dur, dur = "group", NEW fl, NEW fl2, fl2.outs = <<>>,
           NEW d \in Seq(Lines(R)), NEW s, Tracks(b, dur, fl, d, c),
           NEW d2, d2 = Appended(d, <<Torn>>), Durable(b, dur, fl, d, s)
    PROVE  Durable(b, dur, fl2, d2, s) /\ Repaired(d2) = Repaired(d) /\ d2 \in Seq(Lines(R))
<1>1. Closed(d) /\ Torn \in Lines(R) /\ Garbage \in Lines(R)
  BY MarksAreLines DEF Tracks, FileOf
<1>2. Repaired(d2) = Repaired(d) /\ d2 \in Seq(Lines(R))
  BY <1>1, AppendedTorn
<1>3. Elapsed(b, fl2.outs)
  BY DEF Elapsed
<1>4. Durable(b, dur, fl2, d2, s)
  BY <1>2, <1>3 DEF Durable, Shown
<1> QED
  BY <1>2, <1>4

\* and its promise.
LEMMA TornPromised ==
    ASSUME NEW R, NEW dur, dur = "group", NEW fl, NEW fl2,
           NEW d \in Seq(Lines(R)), NEW s \in Seq(Lines(R)), NEW k, NEW t,
           fl.st # "off", fl2.st = "off", fl2.outs = <<>>,
           NEW d2 \in Seq(Lines(R)), d2 = Appended(d, <<Torn>>), Repaired(d2) = Repaired(d),
           Promised(dur, fl, d, s, k, t)
    PROVE  Promised(dur, fl2, d2, s, k, t)
<1>1. Unmarked(d) /\ Read(k, Repaired(d2))
  BY DEF Promised, Shown
<1>2. PICK ls : ls = <<Torn>>
  OBVIOUS
<1>3. ls \in Seq(Lines(R)) /\ Len(ls) = 1 /\ ls[1] = Torn /\ d2 = Appended(d, ls)
  BY <1>2, MarksAreLines
<1>4. Unmarked(ls)
  BY <1>3 DEF Unmarked, Torn
<1>5. Unmarked(d2)
  BY <1>1, <1>3, <1>4, NoMarker
<1>6. Begins(Repaired(d), Repaired(d2))
  BY RepairedValid, BeginsItself
<1>7. \A i \in 1 .. Len(fl2.outs) : i <= Len(k) => fl2.outs[i] = k[i]
  OBVIOUS
<1> QED
  BY <1>1, <1>5, <1>6, <1>7, GroupPromised

\* kill -9.
LEMMA KillStep ==
    ASSUME ReplayInv, ResultsInv', Kill
    PROVE  ReplayInv'
<1>1. /\ Restart /\ UNCHANGED <<stable, kept, told>>
      /\ \/ disk' = disk
         \/ /\ cell # NoContext /\ cell.grouped
            /\ disk' = [disk EXCEPT ![cell.owner] = Appended(disk[cell.owner], <<Torn>>)]
  BY DEF Kill
<1>2. ASSUME NEW f \in Flows
      PROVE  /\ Stopped(flow[f], flow'[f]) /\ flow'[f].act <= Len(ran)
             /\ flow'[f].st # "new" => flow'[f].outs = <<>> /\ flow'[f].st = "off"
             /\ flow'[f].st = "new" => flow'[f] = flow[f]
  BY <1>1, RestartDrivers
<1>3. UNCHANGED <<durability, body, ran, swallowed, irregular>>
  BY <1>1 DEF Restart
<1>4. Bounded'
  BY <1>1, <1>2, <1>3 DEF ReplayInv, Bounded
<1>5. disk \in Files(ran) /\ stable \in Files(ran)
  BY DEF ReplayInv, ResultsInv, LogsTrue
<1>6. ASSUME NEW f \in Flows, f \notin irregular
      PROVE  /\ Durable(body[f], durability[f], flow'[f], disk'[f], stable[f])
             /\ f \notin swallowed =>
                   Promised(durability[f], flow'[f], disk'[f], stable[f], kept[f], told[f])
  <2>1. /\ Durable(body[f], durability[f], flow[f], disk[f], stable[f])
        /\ f \notin swallowed =>
              Promised(durability[f], flow[f], disk[f], stable[f], kept[f], told[f])
    BY <1>6 DEF ReplayInv, DurableIn
  <2>2. Stopped(flow[f], flow'[f])
    BY <1>2, <1>6
  <2>3. CASE disk'[f] = disk[f]
    BY <2>1, <2>2, <2>3, StoppedKeeps
  <2>4. CASE disk'[f] # disk[f]
    <3>1. cell # NoContext /\ cell.owner = f /\ cell.grouped
          /\ disk'[f] = Appended(disk[f], <<Torn>>)
      BY <1>1, <1>5, <1>6, <2>4 DEF Files
    <3>2. MayStep(f)
      BY <3>1 DEF MayStep
    <3>3. /\ cell \in Contexts(ran) /\ flow[f].st \in {"body", "exec", "err"}
          /\ disk[f] \in Seq(Lines(ran)) /\ stable[f] \in Seq(Lines(ran))
          /\ kept[f] \in Seq(Nat)
      BY <1>6, <3>2, Running
    <3>4. Tracks(body[f], durability[f], flow[f], disk[f], cell)
      BY <1>6, <3>2, RunsUnchanged
    <3>5. durability[f] = "group"
      BY <3>1, <3>4 DEF Tracks
    <3>6. flow'[f].st = "off" /\ flow'[f].outs = <<>> /\ flow[f].st # "off"
      BY <1>2, <1>6, <3>3
    <3>7. Durable(body[f], durability[f], flow[f], disk[f], stable[f])
      BY <2>1
    <3>8. disk'[f] = Appended(disk[f], <<Torn>>)
      BY <3>1
    <3>9. /\ Durable(body[f], durability[f], flow'[f], disk'[f], stable[f])
          /\ Repaired(disk'[f]) = Repaired(disk[f]) /\ disk'[f] \in Seq(Lines(ran))
      <4>1. PICK e, x : e = disk'[f] /\ x = flow'[f]
        OBVIOUS
      <4>2. e = Appended(disk[f], <<Torn>>) /\ x.outs = <<>> /\ disk[f] \in Seq(Lines(ran))
        BY <3>3, <3>6, <3>8, <4>1
      <4>3. /\ Durable(body[f], durability[f], x, e, stable[f])
            /\ Repaired(e) = Repaired(disk[f]) /\ e \in Seq(Lines(ran))
        <5>1. /\ Tracks(body[f], durability[f], flow[f], disk[f], cell)
              /\ durability[f] = "group" /\ disk[f] \in Seq(Lines(ran))
              /\ Durable(body[f], durability[f], flow[f], disk[f], stable[f])
              /\ e = Appended(disk[f], <<Torn>>) /\ x.outs = <<>>
          BY <3>4, <3>5, <3>7, <4>2
        <5> QED
          BY ONLY <5>1, TornDurable
      <4> QED
        BY <4>1, <4>3
    <3>10. ASSUME Promised(durability[f], flow[f], disk[f], stable[f], kept[f], told[f])
           PROVE  Promised(durability[f], flow'[f], disk'[f], stable[f], kept[f], told[f])
      BY <3>3, <3>5, <3>6, <3>8, <3>9, <3>10, TornPromised
    <3> QED
      BY <2>1, <3>9, <3>10
  <2> QED
    BY <2>3, <2>4
<1>7. ASSUME NEW f \in Flows PROVE DurableIn(f)'
  BY <1>1, <1>3, <1>6 DEF DurableIn
<1> QED
  BY <1>1, <1>4, <1>7, RestartFrame

\* What a loss of power may leave of the file d, of which s is stable.
Survives(dur, d, s, e) ==
    \/ e = d
    \/ e = s
    \/ dur = "group" /\ \E n \in Len(s) .. Len(d) - 1 : e \in Cut(d, n)
    \/ dur = "buffered" /\ \E n \in 0 .. Len(d) - 1 : e \in Cut(d, n)

\* What must be kept of the values k when n events are stable.
KeptOf(k, n) == IF Len(k) <= n THEN k ELSE SubSeq(k, 1, n)

\* The beginning of a log follows the body, with a torn line behind it too.
LEMMA CutFollows ==
    ASSUME NEW R, NEW b, NEW d \in Seq(Lines(R)), Follows(b, d), NEW n \in Nat, n < Len(d),
           NEW e \in Cut(d, n)
    PROVE  Follows(b, e)
<1>1. /\ e \in Seq(Lines(R)) /\ Len(e) \in {n, n + 1} /\ \A i \in 1 .. n : e[i] = d[i]
      /\ Len(e) = n + 1 => e[n + 1] = Torn
  BY MarksAreLines, CutValid
<1>2. CASE Len(e) = n
  <2>1. Begins(e, d)
    BY <1>1, <1>2 DEF Begins
  <2> QED
    BY <1>1, <2>1, FollowsLess
<1>3. CASE Len(e) = n + 1
  <2>1. PICK y : y = SubSeq(d, 1, n)
    OBVIOUS
  <2>2. y \in Seq(Lines(R)) /\ Len(y) = n /\ \A i \in 1 .. n : y[i] = d[i]
    <3>1. n \in 0 .. Len(d)
      OBVIOUS
    <3> QED
      BY <2>1, <3>1, BeginningOf
  <2>3. Begins(y, d)
    BY <2>2 DEF Begins
  <2>4. Follows(b, y)
    BY <2>2, <2>3, FollowsLess
  <2>5. \A i \in 1 .. Len(y) : e[i] = y[i] /\ y[i].line = "event"
    <3>1. ASSUME NEW i \in 1 .. n PROVE e[i] = y[i] /\ y[i].line = "event"
      <4>1. i \in 1 .. Len(d) /\ i < Len(d)
        OBVIOUS
      <4>2. d[i].line = "event"
        BY <4>1 DEF Follows
      <4> QED
        BY <1>1, <2>2, <4>2
    <3> QED
      BY <2>2, <3>1
  <2>6. e[Len(e)].line # "event" /\ Len(e) = Len(y) + 1
    BY <1>1, <1>3, <2>2 DEF Torn
  <2> QED
    BY <1>1, <2>2, <2>4, <2>5, <2>6, FollowsMark
<1> QED
  BY <1>1, <1>2, <1>3

\* What survives follows the body.
LEMMA SurvivorDurable ==
    ASSUME NEW R, NEW b, NEW dur, NEW fl, NEW fl2, Stopped(fl, fl2), NEW d \in Seq(Lines(R)),
           NEW s \in Seq(Lines(R)), Durable(b, dur, fl, d, s), NEW e, Survives(dur, d, s, e)
    PROVE  Durable(b, dur, fl2, e, e)
<1>1. Elapsed(b, fl2.outs)
  <2>1. CASE fl2 = fl
    BY <2>1 DEF Durable
  <2>2. CASE fl2.outs = <<>>
    BY <2>2 DEF Elapsed
  <2> QED
    BY <2>1, <2>2 DEF Stopped
<1>2. Follows(b, Shown(dur, d)) /\ Follows(b, Shown(dur, s))
  BY DEF Durable
<1>3. Follows(b, Shown(dur, e))
  <2>1. CASE e \in {d, s}
    BY <1>2, <2>1
  <2>2. CASE dur = "group" /\ \E n \in Len(s) .. Len(d) - 1 : e \in Cut(d, n)
    <3>1. PICK n \in Len(s) .. Len(d) - 1 : e \in Cut(d, n)
      BY <2>2
    <3>2. n \in Nat /\ n < Len(d) /\ Torn \in Lines(R)
      BY <3>1, MarksAreLines
    <3>3. e \in Seq(Lines(R)) /\ Begins(Repaired(e), Repaired(d))
      BY <3>1, <3>2, CutValid
    <3>4. Repaired(e) \in Seq(Lines(R)) /\ Repaired(d) \in Seq(Lines(R))
      BY <3>3, RepairedValid
    <3>5. Follows(b, Repaired(e))
      BY <1>2, <2>2, <3>3, <3>4, FollowsLess DEF Shown
    <3> QED
      BY <2>2, <3>5 DEF Shown
  <2>3. CASE dur = "buffered" /\ \E n \in 0 .. Len(d) - 1 : e \in Cut(d, n)
    <3>1. PICK n \in 0 .. Len(d) - 1 : e \in Cut(d, n)
      BY <2>3
    <3>2. n \in Nat /\ n < Len(d) /\ Follows(b, d)
      BY <1>2, <2>3, <3>1 DEF Shown
    <3>3. Follows(b, e)
      BY <3>1, <3>2, CutFollows
    <3> QED
      BY <2>3, <3>3 DEF Shown
  <2> QED
    BY <2>1, <2>2, <2>3 DEF Survives
<1> QED
  BY <1>1, <1>3 DEF Durable

\* The stable lines of a group log survive, and an answer with a synchronised
\* marker.
LEMMA SurvivorReads ==
    ASSUME NEW R, NEW b, NEW d \in Seq(Lines(R)), NEW s \in Seq(Lines(R)), Synced(d, s),
           Follows(b, Repaired(s)), NEW e, Survives("group", d, s, e)
    PROVE  /\ e \in Seq(Lines(R))
           /\ Begins(Repaired(e), Repaired(d))
           /\ \A i \in 1 .. Len(EventsOf(Repaired(s))) :
                 i <= Len(Repaired(d)) => i <= Len(Repaired(e))
           /\ IsCompleted(s) => e = d
           /\ \A i \in 1 .. Len(e) : e[i].line = "completed" => i = Len(e) /\ Repaired(e) = e
<1>1. PICK r : r = Repaired(s)
  OBVIOUS
<1>2. r \in Seq(Lines(R)) /\ Len(r) <= Len(s) /\ Len(r) \in Nat /\ Len(s) \in Nat /\ Len(d) \in Nat
  BY <1>1, RepairedValid
<1>3. PICK m \in Nat : m = Len(EventsOf(r)) /\ m <= Len(r)
  <2>1. EventsOf(r) \in Seq(Lines(R)) /\ Begins(EventsOf(r), r)
    BY <1>1, <1>2, EventsShown
  <2>2. PICK m \in Nat : m = Len(EventsOf(r))
    BY <2>1
  <2>3. m > 0 => m \in 1 .. m
    BY <2>2
  <2>4. m <= Len(r)
    BY <1>2, <2>1, <2>2, <2>3 DEF Begins
  <2> QED
    BY <2>2, <2>4
<1>4. Repaired(d) \in Seq(Lines(R)) /\ Len(Repaired(d)) \in Nat
  BY RepairedValid
<1>5. IsCompleted(s) => s = d
  BY DEF IsCompleted, Last, Synced
<1>6. CASE e = d
  BY <1>3, <1>4, <1>6, BeginsItself DEF Synced
<1>7. CASE e = s
  <2>1. \A i \in 1 .. Len(EventsOf(Repaired(s))) : i <= Len(Repaired(e))
    BY <1>1, <1>2, <1>3, <1>7
  <2>2. \A i \in 1 .. Len(e) : e[i].line = "completed" => i = Len(e) /\ Repaired(e) = e
    BY <1>7 DEF Synced
  <2> QED
    BY <1>5, <1>7, <2>1, <2>2 DEF Synced
<1>8. CASE \E n \in Len(s) .. Len(d) - 1 : e \in Cut(d, n)
  <2>1. PICK n \in Len(s) .. Len(d) - 1 : e \in Cut(d, n)
    BY <1>8
  <2>2. n \in Nat /\ n < Len(d) /\ Len(s) <= n /\ Torn \in Lines(R)
    BY <1>2, <2>1, MarksAreLines
  <2>3. /\ e \in Seq(Lines(R)) /\ Len(e) \in {n, n + 1} /\ \A i \in 1 .. n : e[i] = d[i]
        /\ Len(e) = n + 1 => e[n + 1] = Torn
        /\ Begins(Repaired(e), Repaired(d))
        /\ \A i \in 1 .. Len(Repaired(d)) : i <= n => i <= Len(Repaired(e))
    BY <2>1, <2>2, CutValid
  <2>4. ASSUME NEW i \in 1 .. Len(EventsOf(Repaired(s))), i <= Len(Repaired(d))
        PROVE  i <= Len(Repaired(e))
    <3>1. i \in 1 .. Len(Repaired(d)) /\ i <= n
      BY <1>1, <1>2, <1>3, <1>4, <2>2, <2>4
    <3> QED
      BY <2>3, <3>1
  <2>5. ASSUME NEW i \in 1 .. Len(e), e[i].line = "completed" PROVE FALSE
    <3>1. CASE i \in 1 .. n
      <4>1. i \in 1 .. Len(d) /\ d[i].line = "completed" /\ i # Len(d)
        BY <1>2, <2>2, <2>3, <2>5, <3>1
      <4> QED
        BY <4>1 DEF Synced
    <3>2. CASE i = n + 1 /\ Len(e) = n + 1
      BY <2>3, <2>5, <3>2 DEF Torn
    <3> QED
      BY <2>2, <2>3, <3>1, <3>2
  <2>6. ~IsCompleted(s)
    BY <1>5, <2>2
  <2> QED
    BY <2>3, <2>4, <2>5, <2>6
<1> QED
  BY <1>6, <1>7, <1>8 DEF Survives

\* What must be kept is a beginning of what had to be.
LEMMA KeptLess ==
    ASSUME NEW k \in Seq(Nat), NEW n \in Nat
    PROVE  /\ KeptOf(k, n) \in Seq(Nat) /\ Len(KeptOf(k, n)) <= n /\ Len(KeptOf(k, n)) <= Len(k)
           /\ \A i \in 1 .. Len(KeptOf(k, n)) : KeptOf(k, n)[i] = k[i]
<1>1. CASE Len(k) <= n
  BY <1>1 DEF KeptOf
<1>2. CASE ~(Len(k) <= n)
  <2>1. n \in 0 .. Len(k) /\ KeptOf(k, n) = SubSeq(k, 1, n)
    BY <1>2 DEF KeptOf
  <2>2. /\ SubSeq(k, 1, n) \in Seq(Nat) /\ Len(SubSeq(k, 1, n)) = n
        /\ \A i \in 1 .. n : SubSeq(k, 1, n)[i] = k[i]
    BY <2>1, BeginningOf
  <2> QED
    BY <2>1, <2>2
<1> QED
  BY <1>1, <1>2

\* A group log keeps what was synchronised.
LEMMA GroupSurvives ==
    ASSUME NEW R, NEW b, NEW dur, dur = "group", NEW fl, NEW fl2, fl2.st = "off", fl2.outs = <<>>,
           NEW d \in Seq(Lines(R)), NEW s \in Seq(Lines(R)), NEW k \in Seq(Nat), NEW t,
           Follows(b, Repaired(s)), Promised(dur, fl, d, s, k, t),
           NEW e, Survives(dur, d, s, e), NEW n \in Nat, n = Len(EventsOf(Repaired(s))),
           NEW k2, k2 = KeptOf(k, n), NEW t2, t2 = IF IsCompleted(s) THEN t ELSE {}
    PROVE  Promised(dur, fl2, e, e, k2, t2)
<1>1. Synced(d, s) /\ Survives("group", d, s, e) /\ Read(k, Repaired(d))
      /\ (t # {} => IsCompleted(Repaired(d)) /\ t = {Last(Repaired(d)).result})
  BY DEF Promised, Shown
<1>2. /\ e \in Seq(Lines(R))
      /\ Begins(Repaired(e), Repaired(d))
      /\ \A i \in 1 .. Len(EventsOf(Repaired(s))) : i <= Len(Repaired(d)) => i <= Len(Repaired(e))
      /\ IsCompleted(s) => e = d
      /\ \A i \in 1 .. Len(e) : e[i].line = "completed" => i = Len(e) /\ Repaired(e) = e
  <2>1. /\ d \in Seq(Lines(R)) /\ s \in Seq(Lines(R)) /\ Synced(d, s)
        /\ Follows(b, Repaired(s)) /\ Survives("group", d, s, e)
    BY <1>1
  <2> QED
    BY ONLY <2>1, SurvivorReads, SMTT(30)
<1>3. Repaired(e) \in Seq(Lines(R)) /\ Len(Repaired(e)) \in Nat
  BY <1>2, RepairedValid
<1>4. Synced(e, e)
  BY <1>2, <1>3, BeginsItself DEF Synced
<1>5. Read(k2, Repaired(e))
  <2>1. ASSUME NEW i \in 1 .. Len(k2)
        PROVE  /\ i <= Len(Repaired(e)) /\ Repaired(e)[i].line = "event"
               /\ k2[i] = ValueOf(Repaired(e)[i])
    <3>1. k2[i] = k[i] /\ i \in 1 .. Len(k) /\ i \in 1 .. n
      <4>1. /\ k2 \in Seq(Nat) /\ Len(k2) <= n /\ Len(k2) <= Len(k)
            /\ \A j \in 1 .. Len(k2) : k2[j] = k[j]
        BY KeptLess
      <4> QED
        BY <2>1, <4>1
    <3>2. /\ i <= Len(Repaired(d)) /\ Repaired(d)[i].line = "event"
          /\ k[i] = ValueOf(Repaired(d)[i])
      BY <1>1, <3>1 DEF Read
    <3>3. i <= Len(Repaired(e))
      BY <1>2, <3>1, <3>2
    <3>4. Repaired(e)[i] = Repaired(d)[i]
      BY <1>2, <1>3, <3>1, <3>3 DEF Begins
    <3> QED
      BY <3>1, <3>2, <3>3, <3>4
  <2> QED
    BY <2>1 DEF Read
<1>6. t2 # {} => IsCompleted(Repaired(e)) /\ t2 = {Last(Repaired(e)).result}
  BY <1>1, <1>2
<1>7. \A i \in 1 .. Len(fl2.outs) : i <= Len(k2) => fl2.outs[i] = k2[i]
  OBVIOUS
<1> QED
  BY <1>4, <1>5, <1>6, <1>7 DEF Promised, Shown

\* "buffered" promises nothing,
LEMMA BufferedSurvives ==
    ASSUME NEW fl2, fl2.st = "off", fl2.outs = <<>>, NEW e
    PROVE  Promised("buffered", fl2, e, e, <<>>, {})
<1>1. Read(<<>>, Shown("buffered", e))
  BY DEF Read
<1>2. \A i \in 1 .. Len(fl2.outs) : i <= Len(<<>>) => fl2.outs[i] = <<>>[i]
  OBVIOUS
<1> QED
  BY <1>1, <1>2 DEF Promised

\* and "fsync" everything.
LEMMA FsyncSurvives ==
    ASSUME NEW fl, NEW fl2, Stopped(fl, fl2), NEW d, NEW s, NEW k, NEW t,
           Promised("fsync", fl, d, s, k, t), NEW e, Survives("fsync", d, s, e)
    PROVE  Promised("fsync", fl2, e, e, k, t)
<1>1. e = d /\ e = s
  BY DEF Promised, Survives
<1> QED
  BY <1>1, StoppedKeeps

\* A flow that was never run has nothing to lose.
LEMMA NewSurvives ==
    ASSUME NEW dur, NEW fl, fl.st = "new", NEW d, NEW s, NEW k, NEW t,
           Promised(dur, fl, d, s, k, t), NEW e, Survives(dur, d, s, e)
    PROVE  Promised(dur, fl, e, e, k, t) /\ k = <<>> /\ t = {}
<1>1. d = <<>> /\ s = <<>> /\ k = <<>> /\ t = {}
  BY DEF Promised
<1>2. Len(d) = 0
  BY <1>1
<1>3. e = d /\ e = s
  BY <1>1, <1>2 DEF Survives
<1> QED
  BY <1>1, <1>3

\* What PowerLoss leaves of the files and of the promises.
LEMMA PowerLossIs ==
    ASSUME ReplayInv, PowerLoss, NEW f \in Flows
    PROVE  /\ Survives(durability[f], disk[f], stable[f], disk'[f]) /\ stable'[f] = disk'[f]
           /\ durability[f] = "fsync" => kept'[f] = kept[f] /\ told'[f] = told[f]
           /\ durability[f] = "group" =>
                 /\ kept'[f] = KeptOf(kept[f], Len(EventsOf(Repaired(stable[f]))))
                 /\ told'[f] = IF IsCompleted(stable[f]) THEN told[f] ELSE {}
           /\ durability[f] = "buffered" => kept'[f] = <<>> /\ told'[f] = {}
<1>1. durability[f] \in {"fsync", "group", "buffered"}
  BY DEF ReplayInv, Bounded
<1>2. disk'[f] \in Survivors(f) /\ stable'[f] = disk'[f]
  BY DEF PowerLoss
<1>3. PICK n : n = Len(EventsOf(Readable(f, stable[f])))
  OBVIOUS
<1>4. kept'[f] = CASE durability[f] = "fsync" -> kept[f]
                [] durability[f] = "group" ->
                     IF Len(kept[f]) <= n THEN kept[f] ELSE SubSeq(kept[f], 1, n)
                [] OTHER -> <<>>
  BY <1>3 DEF PowerLoss
<1>5. told'[f] = CASE durability[f] = "fsync" -> told[f]
                [] durability[f] = "group" -> IF IsCompleted(stable[f]) THEN told[f] ELSE {}
                [] OTHER -> {}
  BY DEF PowerLoss
<1>6. Survives(durability[f], disk[f], stable[f], disk'[f])
  <2>1. CASE durability[f] = "fsync"
    BY <1>2, <2>1 DEF Survivors, Survives
  <2>2. CASE durability[f] = "group"
    BY <1>2, <2>2 DEF Survivors, Survives
  <2>3. CASE durability[f] = "buffered"
    BY <1>2, <2>3 DEF Survivors, Survives
  <2> QED
    BY <1>1, <2>1, <2>2, <2>3
<1>7. CASE durability[f] = "fsync"
  BY <1>2, <1>4, <1>5, <1>6, <1>7
<1>8. CASE durability[f] = "group"
  BY <1>2, <1>3, <1>4, <1>5, <1>6, <1>8 DEF Readable, KeptOf
<1>9. CASE durability[f] = "buffered"
  BY <1>2, <1>4, <1>5, <1>6, <1>9
<1> QED
  BY <1>1, <1>7, <1>8, <1>9

\* A loss of power.
LEMMA PowerLossStep ==
    ASSUME ReplayInv, ResultsInv', PowerLoss
    PROVE  ReplayInv'
<1>1. Restart
  BY DEF PowerLoss
<1>2. UNCHANGED <<durability, body, ran, swallowed, irregular>>
  BY <1>1 DEF Restart
<1>3. ASSUME NEW f \in Flows
      PROVE  /\ disk[f] \in Seq(Lines(ran)) /\ stable[f] \in Seq(Lines(ran)) /\ kept[f] \in Seq(Nat)
             /\ told[f] \in SUBSET Seq(Nat) /\ durability[f] \in {"fsync", "group", "buffered"}
             /\ Len(EventsOf(Repaired(stable[f]))) \in Nat
  <2>1. /\ disk[f] \in Seq(Lines(ran)) /\ stable[f] \in Seq(Lines(ran)) /\ kept[f] \in Seq(Nat)
        /\ told[f] \in SUBSET Seq(Nat) /\ durability[f] \in {"fsync", "group", "buffered"}
    BY <1>3 DEF ReplayInv, Bounded, ResultsInv, LogsTrue, Files
  <2>2. Repaired(stable[f]) \in Seq(Lines(ran))
    BY <2>1, RepairedValid
  <2>3. EventsOf(Repaired(stable[f])) \in Seq(Recordings(ran))
    BY <2>2, EventsOfOK
  <2> QED
    BY <2>1, <2>3
<1>4. Bounded'
  <2>1. ASSUME NEW f \in Flows PROVE kept'[f] \in Seq(Nat) /\ told'[f] \in SUBSET Seq(Nat)
    <3>1. CASE durability[f] = "fsync"
      BY <1>3, <2>1, <3>1, PowerLossIs
    <3>2. CASE durability[f] = "group"
      <4>1. /\ kept'[f] = KeptOf(kept[f], Len(EventsOf(Repaired(stable[f]))))
            /\ told'[f] = IF IsCompleted(stable[f]) THEN told[f] ELSE {}
        BY <2>1, <3>2, PowerLossIs
      <4>2. kept'[f] \in Seq(Nat)
        BY <1>3, <2>1, <4>1, KeptLess
      <4> QED
        BY <1>3, <2>1, <4>1, <4>2
    <3>3. CASE durability[f] = "buffered"
      <4>1. kept'[f] = <<>> /\ told'[f] = {}
        BY <2>1, <3>3, PowerLossIs
      <4> QED
        BY <4>1
    <3> QED
      BY <1>3, <2>1, <3>1, <3>2, <3>3
  <2>2. \E F : kept' = [f \in Flows |-> F[f]]
    <3>1. kept' = [f \in Flows |-> kept'[f]]
      BY DEF PowerLoss
    <3> QED
      BY <3>1
  <2>3. \E F : told' = [f \in Flows |-> F[f]]
    <3>1. told' = [f \in Flows |-> told'[f]]
      BY DEF PowerLoss
    <3> QED
      BY <3>1
  <2>4. kept' \in [Flows -> Seq(Nat)]
    BY <2>1, <2>2
  <2>5. told' \in [Flows -> SUBSET Seq(Nat)]
    BY <2>1, <2>3
  <2>6. \A f \in Flows : flow'[f].act <= Len(ran)
    BY <1>1, RestartDrivers
  <2> QED
    BY <1>2, <2>4, <2>5, <2>6 DEF ReplayInv, Bounded
<1>5. ASSUME NEW f \in Flows, f \notin irregular
      PROVE  /\ Durable(body[f], durability[f], flow'[f], disk'[f], stable'[f])
             /\ f \notin swallowed =>
                   Promised(durability[f], flow'[f], disk'[f], stable'[f], kept'[f], told'[f])
  <2>1. /\ Durable(body[f], durability[f], flow[f], disk[f], stable[f])
        /\ f \notin swallowed =>
              Promised(durability[f], flow[f], disk[f], stable[f], kept[f], told[f])
    BY <1>5 DEF ReplayInv, DurableIn
  <2>2. PICK e : e = disk'[f]
    OBVIOUS
  <2>3. PICK x : x = flow'[f]
    OBVIOUS
  <2>4. PICK k, t : k = kept'[f] /\ t = told'[f]
    OBVIOUS
  <2>5. stable'[f] = e /\ Survives(durability[f], disk[f], stable[f], e)
    BY <1>5, <2>2, PowerLossIs
  <2>6. /\ Stopped(flow[f], x)
        /\ x.st # "new" => x.outs = <<>> /\ x.st = "off"
        /\ x.st = "new" => x = flow[f]
    BY <1>1, <1>5, <2>3, RestartDrivers
  <2>7. Durable(body[f], durability[f], x, e, e)
    BY <1>3, <1>5, <2>1, <2>5, <2>6, SurvivorDurable
  <2>8. ASSUME f \notin swallowed PROVE Promised(durability[f], x, e, e, k, t)
    <3>1. Promised(durability[f], flow[f], disk[f], stable[f], kept[f], told[f])
      BY <2>1, <2>8
    <3>2. CASE x.st = "new"
      <4>1. flow[f].st = "new" /\ x = flow[f]
        BY <2>6, <3>2
      <4>2. /\ Promised(durability[f], flow[f], e, e, kept[f], told[f])
            /\ kept[f] = <<>> /\ told[f] = {}
        BY <2>5, <3>1, <4>1, NewSurvives
      <4>3. k = kept[f] /\ t = told[f]
        <5>1. CASE durability[f] = "fsync"
          BY <1>5, <2>4, <5>1, PowerLossIs
        <5>2. CASE durability[f] = "group"
          <6>1. /\ k = KeptOf(kept[f], Len(EventsOf(Repaired(stable[f]))))
                /\ t = IF IsCompleted(stable[f]) THEN told[f] ELSE {}
            BY <1>5, <2>4, <5>2, PowerLossIs
          <6>2. Len(kept[f]) = 0
            BY <4>2
          <6> QED
            BY <1>3, <1>5, <4>2, <6>1, <6>2 DEF KeptOf
        <5>3. CASE durability[f] = "buffered"
          BY <1>5, <2>4, <4>2, <5>3, PowerLossIs
        <5> QED
          BY <1>3, <1>5, <5>1, <5>2, <5>3
      <4> QED
        BY <4>1, <4>2, <4>3
    <3>3. CASE x.st # "new"
      <4>1. x.st = "off" /\ x.outs = <<>>
        BY <2>6, <3>3
      <4>2. CASE durability[f] = "fsync"
        <5>1. k = kept[f] /\ t = told[f]
          BY <1>5, <2>4, <4>2, PowerLossIs
        <5>2. Promised("fsync", x, e, e, kept[f], told[f])
          BY <2>5, <2>6, <3>1, <4>2, FsyncSurvives
        <5> QED
          BY <4>2, <5>1, <5>2
      <4>3. CASE durability[f] = "group"
        <5>1. PICK n \in Nat : n = Len(EventsOf(Repaired(stable[f])))
          BY <1>3, <1>5
        <5>2. k = KeptOf(kept[f], n) /\ t = IF IsCompleted(stable[f]) THEN told[f] ELSE {}
          BY <1>5, <2>4, <4>3, <5>1, PowerLossIs
        <5>3. Follows(body[f], Repaired(stable[f]))
          BY <2>1, <4>3 DEF Durable, Shown
        <5>4. /\ disk[f] \in Seq(Lines(ran)) /\ stable[f] \in Seq(Lines(ran))
              /\ kept[f] \in Seq(Nat)
          BY <1>3, <1>5
        <5> QED
          BY <2>5, <3>1, <4>1, <4>3, <5>1, <5>2, <5>3, <5>4, GroupSurvives
      <4>4. CASE durability[f] = "buffered"
        <5>1. k = <<>> /\ t = {}
          BY <1>5, <2>4, <4>4, PowerLossIs
        <5> QED
          BY <4>1, <4>4, <5>1, BufferedSurvives
      <4> QED
        BY <1>3, <1>5, <4>2, <4>3, <4>4
    <3> QED
      BY <3>2, <3>3
  <2> QED
    BY <2>2, <2>3, <2>4, <2>5, <2>7, <2>8
<1>6. ASSUME NEW f \in Flows PROVE DurableIn(f)'
  BY <1>2, <1>5 DEF DurableIn
<1> QED
  BY <1>1, <1>4, <1>6, RestartFrame

-----------------------------------------------------------------------------
(* The other steps.                                                        *)

\* New code.
LEMMA DeployStep ==
    ASSUME ReplayInv, ResultsInv', NEW f \in Flows, Deploy(f)
    PROVE  ReplayInv'
<1>1. PICK b \in Redeployed[f] : body' = [body EXCEPT ![f] = b]
  BY DEF Deploy
<1>2. /\ flow[f].st = "off" /\ irregular' = irregular \union {f}
      /\ UNCHANGED <<durability, cell, flow, disk, stable, ran, kept, told, swallowed>>
  BY DEF Deploy, files, history
<1>3. body \in [Flows -> Seq(Effects)]
  BY DEF ReplayInv, ResultsInv, LogsTrue
<1>4. body'[f] = b /\ \A g \in Flows \ {f} : body'[g] = body[g]
  BY <1>1, <1>3
<1>5. Unmoved(f)
  BY <1>2, <1>4 DEF Unmoved
<1>6. Bounded'
  <2>1. ASSUME NEW g \in Flows PROVE body'[g] \in Bodies[g] \union Redeployed[g]
    BY <1>1, <1>4 DEF ReplayInv, Bounded
  <2> QED
    BY <1>2, <2>1 DEF ReplayInv, Bounded
<1>7. DurableIn(f)'
  BY <1>2 DEF DurableIn
<1> QED
  BY <1>2, <1>5, <1>6, <1>7, IdleFrame

\* The initial states.
LEMMA InitReplay == Init => ReplayInv
<1> SUFFICES ASSUME Init PROVE ReplayInv
  OBVIOUS
<1>1. ResultsInv
  BY InitOK
<1>2. /\ cell = NoContext /\ ran = <<>> /\ swallowed = {} /\ irregular = {}
      /\ \A f \in Flows : body[f] \in Bodies[f]
      /\ flow = [f \in Flows |-> Driver("new", NoContext)]
      /\ disk = [f \in Flows |-> <<>>] /\ stable = disk
      /\ kept = [f \in Flows |-> <<>>] /\ told = [f \in Flows |-> {}]
      /\ durability \in [Flows -> {"fsync", "group", "buffered"}]
  BY DEF Init
<1>3. \A f \in Flows : /\ flow[f].st = "new" /\ flow[f].outs = <<>>
                       /\ flow[f].act = 0 /\ flow[f].prev = NoContext
  BY <1>2 DEF Driver
<1>4. Placed = {} /\ Nested
  BY <1>2, <1>3 DEF Placed, Nested
<1>5. Bounded
  <2>1. \A f \in Flows : flow[f].act <= Len(ran)
    BY <1>2, <1>3
  <2> QED
    BY <1>2, <2>1 DEF Bounded
<1>6. ASSUME NEW f \in Flows PROVE DurableIn(f)
  <2>1. PICK E : E = <<>>
    OBVIOUS
  <2>2. /\ disk[f] = E /\ stable[f] = E /\ kept[f] = E /\ told[f] = {} /\ flow[f].outs = E
        /\ flow[f].st = "new"
    BY <1>2, <1>3, <1>6, <2>1
  <2>3. /\ Repaired(E) = E /\ Follows(body[f], E) /\ Read(E, E) /\ Elapsed(body[f], E)
        /\ Unmarked(E) /\ Len(E) = 0
    BY <2>1, EmptyLog
  <2>4. Shown(durability[f], E) = E
    BY <2>3 DEF Shown
  <2>5. Durable(body[f], durability[f], flow[f], disk[f], stable[f])
    BY <2>2, <2>3, <2>4 DEF Durable
  <2>6. Synced(E, E)
    BY <2>3 DEF Synced, Begins
  <2>7. Promised(durability[f], flow[f], disk[f], stable[f], kept[f], told[f])
    BY <2>1, <2>2, <2>3, <2>4, <2>6 DEF Promised
  <2> QED
    BY <2>5, <2>7 DEF DurableIn
<1> QED
  BY <1>1, <1>4, <1>5, <1>6 DEF ReplayInv

\* Every step keeps the invariant.
LEMMA ReplayInvStep == ReplayInv /\ [Next]_vars => ReplayInv'
<1> SUFFICES ASSUME ReplayInv, [Next]_vars PROVE ReplayInv'
  OBVIOUS
<1>1. ResultsInv'
  BY ResultsStep DEF ReplayInv
<1>2. ASSUME NEW f \in Flows, Step(f) PROVE ReplayInv'
  BY <1>1, <1>2, RunStep, ResumeStep, NowStep, MonotonicStep, DrawStep, SleepStep, CallStep,
     ActivityReturnsStep, FinishGroupStep, FinishSnapshotStep DEF Step
<1>3. CASE UNCHANGED vars
  <2>1. UNCHANGED <<durability, body, cell, flow, disk, stable, ran, kept, told, swallowed, irregular>>
    BY <1>3 DEF vars
  <2>2. /\ Placed' = Placed /\ Nested' /\ Bounded'
        /\ \A f \in Flows : DurableIn(f)'
        /\ \A c \in Placed : TracksIn(c)'
    <3>1. Placed' = Placed
      BY <2>1 DEF Placed
    <3>2. Nested'
      BY <2>1 DEF ReplayInv, Nested
    <3>3. Bounded'
      BY <2>1 DEF ReplayInv, Bounded
    <3>4. \A f \in Flows : DurableIn(f)'
      BY <2>1 DEF ReplayInv, DurableIn
    <3>5. \A c \in Placed : TracksIn(c)'
      BY <2>1 DEF ReplayInv, TracksIn
    <3> QED
      BY <3>1, <3>2, <3>3, <3>4, <3>5
  <2> QED
    BY <1>1, <2>2 DEF ReplayInv
<1> QED
  BY <1>1, <1>2, <1>3, ActivityReadsStep, ActivityFailsStep, DeployStep, KillStep,
     PowerLossStep DEF Next

-----------------------------------------------------------------------------
(* What the invariant says of replay, of the timers and of the answers.    *)

\* A sequence is a prefix of one that goes on as it does.
LEMMA Prefix ==
    ASSUME NEW s \in Seq(Nat), NEW t \in Seq(Nat), \A i \in 1 .. Len(s) : i <= Len(t) /\ s[i] = t[i]
    PROVE  IsPrefix(s, t)
<1>1. PICK n \in Nat : n = Len(s)
  OBVIOUS
<1>2. n <= Len(t) /\ n \in 0 .. Len(s) /\ n \in 0 .. Len(t)
  BY <1>1
<1>3. /\ SubSeq(s, 1, n) \in Seq(Nat) /\ Len(SubSeq(s, 1, n)) = n
      /\ \A i \in 1 .. n : SubSeq(s, 1, n)[i] = s[i]
  BY <1>2, BeginningOf
<1>4. /\ SubSeq(t, 1, n) \in Seq(Nat) /\ Len(SubSeq(t, 1, n)) = n
      /\ \A i \in 1 .. n : SubSeq(t, 1, n)[i] = t[i]
  BY <1>2, BeginningOf
<1>5. SubSeq(s, 1, n) = SubSeq(t, 1, n)
  <2>1. PICK x, y : x = SubSeq(s, 1, n) /\ y = SubSeq(t, 1, n)
    OBVIOUS
  <2>2. x \in Seq(Nat) /\ y \in Seq(Nat) /\ Len(x) = Len(y) /\ \A i \in 1 .. Len(x) : x[i] = y[i]
    BY <1>1, <1>3, <1>4, <2>1
  <2> QED
    BY <2>1, <2>2, SeqEqual
<1> QED
  BY <1>1, <1>2, <1>5 DEF IsPrefix

\* The type invariant.
LEMMA ReplayTypes ==
    ASSUME ReplayInv
    PROVE  TypeOK
<1>1. /\ ResultsInv /\ Bounded /\ Len(ran) \in Nat
  BY DEF ReplayInv, ResultsInv, LogsTrue
<1>2. ASSUME cell # NoContext
      PROVE  /\ cell.owner \in Flows /\ cell.mode \in {"Record", "Replay"}
             /\ cell.cursor <= Len(cell.events) /\ cell.persisted <= Len(cell.events)
  <2>1. cell \in Placed /\ cell \in Contexts(ran)
    BY <1>1, <1>2, PlacedOK
  <2> QED
    BY <2>1 DEF ReplayInv, Counted, Contexts
<1>3. ASSUME NEW f \in Flows
      PROVE  /\ flow[f].st \in {"new", "off", "body", "exec", "err"}
             /\ Len(flow[f].outs) <= Len(body[f])
             /\ flow[f].act \in 0 .. Len(ran)
             /\ body[f] \in Bodies[f] \union Redeployed[f]
  <2>1. flow[f] \in Drivers(ran) /\ Given(ran, body[f], flow[f]) /\ body[f] \in Seq(Effects)
    BY <1>1 DEF ResultsInv, LogsTrue, FlowsTrue
  <2>2. /\ flow[f].st \in {"new", "off", "body", "exec", "err"}
        /\ flow[f].outs \in Seq(Nat) /\ flow[f].act \in Nat
    BY <2>1 DEF Drivers
  <2>3. Len(flow[f].outs) <= Len(body[f])
    <3>1. PICK n \in Nat : n = Len(flow[f].outs)
      BY <2>2
    <3>2. Len(body[f]) \in Nat /\ \A i \in 1 .. n : i <= Len(body[f])
      BY <2>1, <3>1 DEF Given
    <3>3. n = 0 \/ n \in 1 .. n
      OBVIOUS
    <3> QED
      BY <3>1, <3>2, <3>3
  <2>4. flow[f].act \in 0 .. Len(ran) /\ body[f] \in Bodies[f] \union Redeployed[f]
    BY <1>1, <2>2 DEF Bounded
  <2> QED
    BY <2>2, <2>3, <2>4
<1> QED
  BY <1>2, <1>3 DEF TypeOK

\* What a resume would read back.
LEMMA ReadBack ==
    ASSUME NEW R, NEW b, NEW x \in Seq(Lines(R)), Follows(b, x), NEW k \in Seq(Nat), Read(k, x),
           NEW E, E = EventsOf(x)
    PROVE  IsPrefix(k, [i \in 1 .. Len(E) |-> ValueOf(E[i])])
<1>1. E \in Seq(Recordings(R)) /\ Begins(E, x) /\ Follows(b, E)
      /\ \A i \in 1 .. Len(x) : x[i].line = "event" => i <= Len(E)
  BY EventsShown
<1>2. PICK vs : vs = [i \in 1 .. Len(E) |-> ValueOf(E[i])]
  OBVIOUS
<1>3. Len(E) \in Nat /\ \A i \in 1 .. Len(E) : ValueOf(E[i]) \in Nat
  BY <1>1, EventsNumbered DEF ValueOf
<1>4. vs \in Seq(Nat) /\ Len(vs) = Len(E) /\ \A i \in 1 .. Len(E) : vs[i] = ValueOf(E[i])
  BY <1>2, <1>3
<1>5. ASSUME NEW i \in 1 .. Len(k) PROVE i <= Len(vs) /\ k[i] = vs[i]
  <2>1. i \in 1 .. Len(x) /\ x[i].line = "event" /\ k[i] = ValueOf(x[i])
    BY DEF Read
  <2>2. i \in 1 .. Len(E)
    BY <1>1, <1>3, <2>1
  <2>3. E[i] = x[i]
    BY <1>1, <2>2 DEF Begins
  <2> QED
    BY <1>4, <2>1, <2>2, <2>3
<1>6. IsPrefix(k, vs)
  BY <1>4, <1>5, Prefix
<1> QED
  BY <1>2, <1>6

\* Two sequences that agree as far as both go.
LEMMA Agreeing ==
    ASSUME NEW s \in Seq(Nat), NEW t \in Seq(Nat), \A i \in 1 .. Len(s) : i <= Len(t) => s[i] = t[i]
    PROVE  Prefixed(s, t)
<1>1. Len(s) \in Nat /\ Len(t) \in Nat
  OBVIOUS
<1>2. CASE Len(s) <= Len(t)
  <2>1. \A i \in 1 .. Len(s) : i <= Len(t) /\ s[i] = t[i]
    BY <1>1, <1>2
  <2> QED
    BY <2>1, Prefix DEF Prefixed
<1>3. CASE Len(t) <= Len(s)
  <2>1. \A i \in 1 .. Len(t) : i <= Len(s) /\ t[i] = s[i]
    BY <1>1, <1>3
  <2> QED
    BY <2>1, Prefix DEF Prefixed
<1> QED
  BY <1>1, <1>2, <1>3

\* Replay is faithful: for a flow that is regular (its code did not change, no
\* activity recorded events of its own, the body caught no error of ctx.call),
\* unless an I/O error was discarded, whatever a recording call has returned
\* under the promise of the durability mode is what a resume reads back from
\* the log, in the order it was given, and what the body is given again,
\* through every kill, every loss of power, every append that fails half way
\* and every repair of the log.
THEOREM ReplayIsFaithful == Spec => []ReplayFaithful
<1>1. ReplayInv => ReplayFaithful
  <2> SUFFICES ASSUME ReplayInv PROVE ReplayFaithful
    OBVIOUS
  <2>1. ASSUME NEW f \in Flows, f \notin swallowed, f \notin irregular
        PROVE  IsPrefix(kept[f], ValuesOnDisk(f)) /\ Prefixed(flow[f].outs, kept[f])
    <3>1. PICK x : x = Readable(f, disk[f])
      OBVIOUS
    <3>2. x = Shown(durability[f], disk[f])
      BY <3>1 DEF Readable, Shown
    <3>3. /\ disk[f] \in Seq(Lines(ran)) /\ kept[f] \in Seq(Nat) /\ flow[f].outs \in Seq(Nat)
      BY <2>1 DEF ReplayInv, Bounded, ResultsInv, LogsTrue, FlowsTrue, Files, Drivers
    <3>4. x \in Seq(Lines(ran))
      BY <3>1, <3>3, ReadableOK
    <3>5. /\ Follows(body[f], x) /\ Read(kept[f], x)
          /\ \A i \in 1 .. Len(flow[f].outs) : i <= Len(kept[f]) => flow[f].outs[i] = kept[f][i]
      BY <2>1, <3>2 DEF ReplayInv, DurableIn, Durable, Promised
    <3>6. PICK E : E = EventsOf(x)
      OBVIOUS
    <3>7. IsPrefix(kept[f], [i \in 1 .. Len(E) |-> ValueOf(E[i])])
      BY <3>3, <3>4, <3>5, <3>6, ReadBack
    <3>8. ValuesOnDisk(f) = [i \in 1 .. Len(E) |-> ValueOf(E[i])]
      BY <3>1, <3>6 DEF ValuesOnDisk
    <3>9. Prefixed(flow[f].outs, kept[f])
      BY <3>3, <3>5, Agreeing
    <3> QED
      BY <3>7, <3>8, <3>9
  <2> QED
    BY <2>1, ReplayTypes DEF ReplayFaithful, Regular
<1> QED
  BY <1>1, InitReplay, ReplayInvStep, PTL DEF Spec

\* A regular flow has one answer: unless an I/O error was discarded, through
\* every crash, every failed commit and every
\* resume, a caller that was told the result of a flow is never told another.
THEOREM AnswersAgree == Spec => []OneAnswer
<1>1. ReplayInv => OneAnswer
  <2> SUFFICES ASSUME ReplayInv, NEW f \in Flows, f \notin swallowed, f \notin irregular
               PROVE  Cardinality(told[f]) <= 1
    BY DEF OneAnswer, Regular
  <2>1. told[f] # {} => told[f] = {Last(Shown(durability[f], disk[f])).result}
    BY DEF ReplayInv, DurableIn, Promised
  <2>2. CASE told[f] = {}
    BY <2>2, FS_EmptySet
  <2>3. CASE told[f] # {}
    <3>1. PICK a : told[f] = {a}
      BY <2>1, <2>3
    <3>2. Cardinality({a}) = 1
      BY FS_Singleton
    <3> QED
      BY <3>1, <3>2
  <2> QED
    BY <2>2, <2>3
<1> QED
  BY <1>1, InitReplay, ReplayInvStep, PTL DEF Spec

\* Timers elapse: between two readings of ctx.now by the body of a regular flow,
\* every ctx.sleep between them has passed in full, however many times the run
\* died, was resumed and replayed them; and time.monotonic never goes back.
THEOREM TimersHold == Spec => []TimersElapse
<1>1. ReplayInv => TimersElapse
  <2> SUFFICES ASSUME ReplayInv, NEW f \in Flows, f \notin irregular,
                      NEW j \in 1 .. Len(flow[f].outs), NEW i \in 1 .. j
               PROVE  /\ body[f][i] = "now" /\ body[f][j] = "now" =>
                            flow[f].outs[j] >= flow[f].outs[i] + SleepMs * Sleeps(f, i, j)
                      /\ body[f][i] = "mono" /\ body[f][j] = "mono" =>
                            flow[f].outs[j] >= flow[f].outs[i]
    BY DEF TimersElapse, Regular
  <2>1. flow[f].outs \in Seq(Nat)
    BY DEF ReplayInv, ResultsInv, FlowsTrue, Drivers
  <2>2. Elapsed(body[f], flow[f].outs)
    BY DEF ReplayInv, DurableIn, Durable
  <2>3. i \in 1 .. Len(flow[f].outs) /\ i <= j
    BY <2>1
  <2>4. ASSUME body[f][i] = "mono", body[f][j] = "mono" PROVE flow[f].outs[j] >= flow[f].outs[i]
    BY <2>2, <2>3, <2>4 DEF Elapsed
  <2>5. ASSUME body[f][i] = "now", body[f][j] = "now"
        PROVE  flow[f].outs[j] >= flow[f].outs[i] + SleepMs * Sleeps(f, i, j)
    <3>1. flow[f].outs[j] >= flow[f].outs[i] + Slept(body[f], i, j)
      BY <2>2, <2>3, <2>5 DEF Elapsed
    <3>2. {k \in i .. j : body[f][k] = "sleep"} = {k \in i + 1 .. j : body[f][k] = "sleep"}
      <4>1. ASSUME NEW k \in i .. j, body[f][k] = "sleep" PROVE k \in i + 1 .. j
        BY <2>3, <2>5, <4>1
      <4>2. \A k \in i + 1 .. j : k \in i .. j
        BY <2>3
      <4> QED
        BY <4>1, <4>2
    <3>3. SleepMs * Sleeps(f, i, j) = Slept(body[f], i, j)
      BY <3>2 DEF Sleeps, Slept
    <3> QED
      BY <3>1, <3>3
  <2> QED
    BY <2>4, <2>5
<1> QED
  BY <1>1, InitReplay, ReplayInvStep, PTL DEF Spec
=============================================================================
