------------------------- MODULE WorkerActorProofs --------------------------
(***************************************************************************)
(* The mailbox of WorkerActor for any set of calls: methods run in the     *)
(* order in which their calls were accepted, and close() drains the        *)
(* mailbox.                                                                *)
(***************************************************************************)
EXTENDS WorkerActor, SequenceTheorems, TLAPS

-----------------------------------------------------------------------------
(* The inductive invariant.                                                *)

\* Where the Init message is.
InitUnderWay ==
    \/ thread = "absent" /\ mbox = <<>>
    \/ thread \in {"boot", "recv"} /\ mbox = <<InitMsg>>
    \/ thread = "init" /\ mbox = <<>>

\* Until the constructor has succeeded there is no call, accepted or served.
Unborn ==
    /\ actor # "live"
    /\ sent = <<>>
    /\ served = <<>>
    /\ cur = NoCall
    /\ ack = "none" => InitUnderWay /\ ~lost
    /\ ack # "none" => mbox = <<>> /\ thread \in {"recv", "ended"}

\* What was accepted and not yet served is in the mailbox, in that order,
\* unless the thread was lost.
Serving ==
    /\ instance
    /\ mbox \in Seq(Calls)
    /\ thread \in {"recv", "run", "ended"}
    /\ (thread = "run") <=> (cur # NoCall)
    /\ thread = "ended" => mbox = <<>>
    /\ lost => thread = "ended"
    /\ ~lost => sent = served \o mbox

Phases ==
    /\ actor = "none" => thread = "absent" /\ ack = "none"
    /\ ack # "ok" => Unborn
    /\ ack = "ok" => Serving

\* Every call that was served is answered, but the one that is running; what
\* has no answer but that its thread was lost, was lost with it.
Answered ==
    \A i \in 1..Len(served) :
        \/ reply[served[i]] \in {"ok", "panic"}
        \/ reply[served[i]] = "closed" /\ lost
        \/ i = Len(served) /\ cur = served[i]

ActorInv == TypeOK /\ Phases /\ IsPrefix(served, sent) /\ Answered

-----------------------------------------------------------------------------
(* Facts about sequences.                                                  *)

\* A sequence is a prefix of its continuations.
LEMMA PrefixOfConcat ==
    ASSUME NEW S, NEW s \in Seq(S), NEW t \in Seq(S)
    PROVE  IsPrefix(s, s \o t)
<1>1. Len(s) <= Len(s \o t)
  BY ConcatProperties
<1>2. SubSeq(s, 1, Len(s)) = s
  BY SubSeqFull
<1>3. SubSeq(s \o t, 1, Len(s)) = s
  BY SubSeqOfConcat1, <1>2
<1> QED
  BY <1>1, <1>2, <1>3 DEF IsPrefix

\* A message that is received moves from the mailbox to what was served.
LEMMA HeadMoves ==
    ASSUME NEW S, NEW s \in Seq(S), NEW t \in Seq(S), t # <<>>
    PROVE  /\ Head(t) \in S
           /\ Tail(t) \in Seq(S)
           /\ Append(s, Head(t)) \o Tail(t) = s \o t
<1>1. Head(t) \in S /\ Tail(t) \in Seq(S) /\ t = <<Head(t)>> \o Tail(t)
  OBVIOUS
<1>2. Append(s, Head(t)) = s \o <<Head(t)>>
  BY <1>1, AppendIsConcat
<1>3. <<Head(t)>> \in Seq(S)
  BY <1>1
<1>4. (s \o <<Head(t)>>) \o Tail(t) = s \o (<<Head(t)>> \o Tail(t))
  BY <1>1, <1>3, ConcatAssociative
<1> QED
  BY <1>1, <1>2, <1>4

-----------------------------------------------------------------------------
(* Every action keeps the invariant.                                       *)

\* ActorInv is kept by every step.
LEMMA ActorStep ==
    ASSUME ActorInv, [Next]_vars
    PROVE  ActorInv'
<1> USE DEF programVars, isolateVars
<1>a. TypeOK /\ Phases /\ IsPrefix(served, sent) /\ Answered
  BY DEF ActorInv
<1>b. NoCall \notin Calls /\ InitMsg \notin Calls
  BY ActorAssumption
<1>1. CASE Spawn
  <2>1. mbox' = <<InitMsg>> /\ mbox' \in Seq(Calls \union {InitMsg})
    BY <1>1 DEF Spawn
  <2>2. TypeOK'
    BY <1>a, <1>1, <2>1 DEF TypeOK, Spawn
  <2>3. Phases'
    BY <1>a, <1>1, <2>1 DEF Spawn, Phases, Unborn, InitUnderWay, Serving
  <2>4. (IsPrefix(served, sent) /\ Answered)'
    BY <1>a, <1>1 DEF Spawn, Answered
  <2> QED
    BY <2>2, <2>3, <2>4 DEF ActorInv
<1>2. CASE SpawnFails
  <2>1. TypeOK'
    BY <1>a, <1>2 DEF TypeOK, SpawnFails
  <2>2. Phases'
    BY <1>a, <1>2 DEF TypeOK, SpawnFails, Phases, Unborn, InitUnderWay, Serving
  <2>3. (IsPrefix(served, sent) /\ Answered)'
    BY <1>a, <1>2 DEF SpawnFails, Answered
  <2> QED
    BY <2>1, <2>2, <2>3 DEF ActorInv
<1>3. CASE SpawnBridge
  <2>1. TypeOK'
    BY <1>a, <1>3 DEF TypeOK, SpawnBridge
  <2>2. Phases'
    BY <1>a, <1>3 DEF TypeOK, SpawnBridge, Phases, Unborn, InitUnderWay, Serving
  <2>3. (IsPrefix(served, sent) /\ Answered)'
    BY <1>a, <1>3 DEF SpawnBridge, Answered
  <2> QED
    BY <2>1, <2>2, <2>3 DEF ActorInv
<1>4. CASE DropSpawn
  <2>1. TypeOK'
    BY <1>a, <1>4 DEF TypeOK, DropSpawn
  <2>2. Phases'
    BY <1>a, <1>4 DEF TypeOK, DropSpawn, Phases, Unborn, InitUnderWay, Serving
  <2>3. (IsPrefix(served, sent) /\ Answered)'
    BY <1>a, <1>4 DEF DropSpawn, Answered
  <2> QED
    BY <2>1, <2>2, <2>3 DEF ActorInv
<1>5. ASSUME NEW c \in Calls, CallRefused(c)
      PROVE  ActorInv'
  <2>1. TypeOK'
    BY <1>a, <1>5 DEF TypeOK, CallRefused
  <2>2. Phases'
    BY <1>a, <1>5 DEF TypeOK, CallRefused, Phases, Unborn, InitUnderWay, Serving
  <2>3. (IsPrefix(served, sent) /\ Answered)'
    BY <1>a, <1>5 DEF CallRefused, Answered
  <2> QED
    BY <2>1, <2>2, <2>3 DEF ActorInv
<1>6. ASSUME NEW c \in Calls, CallSent(c)
      PROVE  ActorInv'
  <2>1. ack = "ok" /\ Serving /\ ~lost /\ sent = served \o mbox
    BY <1>a, <1>6 DEF CallSent, Phases, Unborn, Serving
  <2>2. /\ mbox' = Append(mbox, c)
        /\ mbox' \in Seq(Calls)
        /\ mbox' \in Seq(Calls \union {InitMsg})
        /\ sent' = Append(sent, c)
        /\ sent' \in Seq(Calls)
    BY <1>a, <1>6, <2>1 DEF CallSent, Serving, TypeOK
  <2>3. served \in Seq(Calls) /\ mbox \in Seq(Calls)
    BY <1>a, <2>1 DEF TypeOK, Serving
  <2>4. sent' = served' \o mbox'
    <3>1. sent \o <<c>> = served \o (mbox \o <<c>>)
      <4>1. <<c>> \in Seq(Calls)
        OBVIOUS
      <4> QED
        BY <2>1, <2>3, <4>1, ConcatAssociative
    <3>2. sent' = sent \o <<c>> /\ mbox' = mbox \o <<c>>
      BY <1>a, <2>2, <2>3, AppendIsConcat DEF TypeOK
    <3> QED
      BY <1>6, <3>1, <3>2 DEF CallSent
  <2>5. TypeOK'
    BY <1>a, <1>6, <2>2 DEF TypeOK, CallSent
  <2>6. Phases'
    BY <1>6, <2>1, <2>2, <2>4 DEF CallSent, Phases, Serving
  <2>7. IsPrefix(served, sent)'
    BY <1>6, <2>2, <2>3, <2>4, PrefixOfConcat DEF CallSent
  <2>8. Answered'
    BY <1>a, <1>6 DEF CallSent, Answered
  <2> QED
    BY <2>5, <2>6, <2>7, <2>8 DEF ActorInv
<1>7. ASSUME NEW c \in Calls, CallBridge(c)
      PROVE  ActorInv'
  <2>1. TypeOK'
    BY <1>a, <1>7 DEF TypeOK, CallBridge
  <2>2. Phases'
    BY <1>a, <1>7 DEF TypeOK, CallBridge, Phases, Unborn, InitUnderWay, Serving
  <2>3. (IsPrefix(served, sent) /\ Answered)'
    BY <1>a, <1>7 DEF CallBridge, Answered
  <2> QED
    BY <2>1, <2>2, <2>3 DEF ActorInv
<1>8. ASSUME NEW c \in Calls, DropCall(c)
      PROVE  ActorInv'
  <2>1. TypeOK'
    BY <1>a, <1>8 DEF TypeOK, DropCall
  <2>2. Phases'
    BY <1>a, <1>8 DEF TypeOK, DropCall, Phases, Unborn, InitUnderWay, Serving
  <2>3. (IsPrefix(served, sent) /\ Answered)'
    BY <1>a, <1>8 DEF DropCall, Answered
  <2> QED
    BY <2>1, <2>2, <2>3 DEF ActorInv
<1>9. CASE Close
  <2>1. TypeOK'
    BY <1>a, <1>9 DEF TypeOK, Close
  <2>2. Phases'
    BY <1>a, <1>9 DEF TypeOK, Close, Phases, Unborn, InitUnderWay, Serving
  <2>3. (IsPrefix(served, sent) /\ Answered)'
    BY <1>a, <1>9 DEF Close, Answered
  <2> QED
    BY <2>1, <2>2, <2>3 DEF ActorInv
<1>10. CASE Joined
  <2>1. TypeOK'
    BY <1>a, <1>10 DEF TypeOK, Joined
  <2>2. Phases'
    BY <1>a, <1>10 DEF TypeOK, Joined, Phases, Unborn, InitUnderWay, Serving
  <2>3. (IsPrefix(served, sent) /\ Answered)'
    BY <1>a, <1>10 DEF Joined, Answered
  <2> QED
    BY <2>1, <2>2, <2>3 DEF ActorInv
<1>11. CASE Boot
  <2>1. TypeOK'
    BY <1>a, <1>11 DEF TypeOK, Boot
  <2>2. Phases'
    BY <1>a, <1>11 DEF TypeOK, Boot, Phases, Unborn, InitUnderWay, Serving
  <2>3. (IsPrefix(served, sent) /\ Answered)'
    BY <1>a, <1>11 DEF Boot, Answered
  <2> QED
    BY <2>1, <2>2, <2>3 DEF ActorInv
<1>12. CASE ThreadLost
  <2>1. thread' = "ended" /\ mbox' = <<>> /\ cur' = NoCall /\ lost'
    BY <1>12 DEF ThreadLost
  <2>2. mbox' \in Seq(Calls) /\ mbox' \in Seq(Calls \union {InitMsg})
    BY <2>1
  <2>3. TypeOK'
    BY <1>a, <1>12, <2>1, <2>2 DEF TypeOK, ThreadLost
  <2>4. Phases'
    BY <1>a, <1>12, <2>1, <2>2
    DEF ThreadLost, Phases, Unborn, InitUnderWay, Serving
  <2>5. IsPrefix(served, sent)'
    BY <1>a, <1>12 DEF ThreadLost
  <2>6. ASSUME NEW i \in 1..Len(served')
        PROVE  reply'[served'[i]] \in {"ok", "panic", "closed"}
    <3>1. served' = served /\ i \in 1..Len(served) /\ served[i] \in Calls
      BY <1>a, <1>12 DEF TypeOK, ThreadLost
    <3>2. \/ reply'[served[i]] = "closed"
          \/ reply'[served[i]] = reply[served[i]] /\ served[i] # cur
      BY <1>12, <3>1 DEF ThreadLost
    <3> QED
      BY <1>a, <3>1, <3>2 DEF Answered
  <2>7. Answered'
    BY <2>1, <2>6 DEF Answered
  <2> QED
    BY <2>3, <2>4, <2>5, <2>7 DEF ActorInv
<1>13. CASE Receive
  <2>1. CASE ack = "none"
    <3>1. mbox = <<InitMsg>> /\ Unborn
      BY <1>a, <1>13, <2>1 DEF Receive, Phases, Unborn, InitUnderWay
    <3>2. mbox' = <<>> /\ thread' = "init" /\ cur' = cur /\ served' = served
      BY <1>13, <3>1 DEF Receive
    <3>3. TypeOK'
      BY <1>a, <1>13, <3>2 DEF TypeOK, Receive
    <3>4. Phases'
      BY <1>a, <1>13, <2>1, <3>1, <3>2 DEF Receive, Phases, Unborn, InitUnderWay
    <3>5. (IsPrefix(served, sent) /\ Answered)'
      BY <1>a, <1>13, <3>2 DEF Receive, Answered
    <3> QED
      BY <3>3, <3>4, <3>5 DEF ActorInv
  <2>2. CASE ack # "none"
    <3>1. Serving /\ ack = "ok" /\ ~lost /\ cur = NoCall /\ sent = served \o mbox
      BY <1>a, <1>13, <2>2 DEF Receive, Phases, Unborn, Serving
    <3>2. mbox \in Seq(Calls) /\ mbox # <<>> /\ served \in Seq(Calls)
      BY <1>a, <1>13, <3>1 DEF Receive, Serving, TypeOK
    <3>3. /\ Head(mbox) \in Calls
          /\ Tail(mbox) \in Seq(Calls)
          /\ Append(served, Head(mbox)) \o Tail(mbox) = served \o mbox
      BY <3>2, HeadMoves
    <3>4. /\ thread' = "run"
          /\ mbox' = Tail(mbox)
          /\ cur' = Head(mbox)
          /\ served' = Append(served, Head(mbox))
      BY <1>b, <1>13, <3>3 DEF Receive
    <3>5. served' \in Seq(Calls) /\ mbox' \in Seq(Calls \union {InitMsg})
      BY <3>2, <3>3, <3>4
    <3>6. TypeOK'
      BY <1>a, <1>13, <3>3, <3>4, <3>5 DEF TypeOK, Receive
    <3>7. sent' = served' \o mbox'
      BY <1>13, <3>1, <3>3, <3>4 DEF Receive
    <3>8. Phases'
      BY <1>a, <1>b, <1>13, <3>1, <3>3, <3>4, <3>7 DEF Receive, Phases, Serving
    <3>9. IsPrefix(served, sent)'
      BY <3>3, <3>4, <3>5, <3>7, PrefixOfConcat
    <3>10. ASSUME NEW i \in 1..Len(served')
           PROVE  \/ reply'[served'[i]] \in {"ok", "panic"}
                  \/ reply'[served'[i]] = "closed" /\ lost'
                  \/ i = Len(served') /\ cur' = served'[i]
      <4>1. CASE i = Len(served) + 1
        BY <3>2, <3>3, <3>4, <4>1
      <4>2. CASE i # Len(served) + 1
        <5>1. i \in 1..Len(served) /\ served'[i] = served[i] /\ served[i] \in Calls
          BY <3>2, <3>3, <3>4, <3>10, <4>2
        <5>2. reply' = reply /\ lost' = lost /\ served[i] # cur
          BY <1>b, <1>13, <3>1, <5>1 DEF Receive
        <5> QED
          BY <1>a, <5>1, <5>2 DEF Answered
      <4> QED
        BY <4>1, <4>2
    <3>11. Answered'
      BY <3>10 DEF Answered
    <3> QED
      BY <3>6, <3>8, <3>9, <3>11 DEF ActorInv
  <2> QED
    BY <2>1, <2>2
<1>14. CASE InitSucceeds
  <2>1. TypeOK'
    BY <1>a, <1>14 DEF TypeOK, InitSucceeds
  <2>2. Phases'
    BY <1>a, <1>14 DEF TypeOK, InitSucceeds, Phases, Unborn, InitUnderWay, Serving
  <2>3. (IsPrefix(served, sent) /\ Answered)'
    BY <1>a, <1>14 DEF InitSucceeds, Answered
  <2> QED
    BY <2>1, <2>2, <2>3 DEF ActorInv
<1>15. CASE InitFails
  <2>1. TypeOK'
    BY <1>a, <1>15 DEF TypeOK, InitFails
  <2>2. Phases'
    BY <1>a, <1>15 DEF TypeOK, InitFails, Phases, Unborn, InitUnderWay, Serving
  <2>3. (IsPrefix(served, sent) /\ Answered)'
    BY <1>a, <1>15 DEF InitFails, Answered
  <2> QED
    BY <2>1, <2>2, <2>3 DEF ActorInv
<1>16. CASE MethodReturns
  <2>1. ack = "ok" /\ Serving /\ cur \in Calls /\ ~lost
    BY <1>a, <1>16 DEF MethodReturns, Phases, Unborn, InitUnderWay, Serving, TypeOK
  <2>2. TypeOK'
    BY <1>a, <1>16 DEF TypeOK, MethodReturns
  <2>3. Phases'
    BY <1>a, <1>16, <2>1 DEF MethodReturns, Phases, Serving
  <2>4. IsPrefix(served, sent)'
    BY <1>a, <1>16 DEF MethodReturns
  <2>5. \A c \in Calls : IF c = cur THEN reply'[c] \in {"ok", "panic"} ELSE reply'[c] = reply[c]
    BY <1>a, <1>16, <2>1 DEF MethodReturns, TypeOK
  <2>6. Answered'
    <3>1. served' = served /\ lost' = lost /\ \A i \in 1..Len(served) : served[i] \in Calls
      BY <1>a, <1>16 DEF MethodReturns, TypeOK
    <3> QED
      BY <1>a, <2>1, <2>5, <3>1 DEF Answered
  <2> QED
    BY <2>2, <2>3, <2>4, <2>6 DEF ActorInv
<1>17. CASE LoopEnds
  <2>1. TypeOK'
    BY <1>a, <1>17 DEF TypeOK, LoopEnds
  <2>2. Phases'
    BY <1>a, <1>17 DEF TypeOK, LoopEnds, Phases, Unborn, InitUnderWay, Serving
  <2>3. (IsPrefix(served, sent) /\ Answered)'
    BY <1>a, <1>17 DEF LoopEnds, Answered
  <2> QED
    BY <2>1, <2>2, <2>3 DEF ActorInv
<1>18. CASE UNCHANGED vars
  BY <1>a, <1>18
  DEF ActorInv, TypeOK, vars, Phases, Unborn, InitUnderWay, Serving, Answered
<1> QED
  BY <1>1, <1>2, <1>3, <1>4, <1>5, <1>6, <1>7, <1>8, <1>9, <1>10, <1>11, <1>12, <1>13,
     <1>14, <1>15, <1>16, <1>17, <1>18
  DEF Next, Caller, Program, Isolate

\* It holds to begin with.
LEMMA ActorInit ==
    ASSUME Init PROVE ActorInv
<1>1. TypeOK
  <2>1. /\ call \in [Calls -> {"idle", "refused", "pending", "resolved", "dropped"}]
        /\ outcome \in [Calls -> {"none", "ok", "panic"}]
        /\ reply \in [Calls -> {"none", "ok", "panic", "closed"}]
    BY DEF Init
  <2>2. sent \in Seq(Calls) /\ served \in Seq(Calls) /\ mbox \in Seq(Calls \union {InitMsg})
    BY DEF Init
  <2> QED
    BY <2>1, <2>2 DEF Init, TypeOK
<1>2. Phases
  BY DEF Init, Phases, Unborn, InitUnderWay
<1>3. IsPrefix(served, sent)
  BY DEF Init, IsPrefix
<1>4. Answered
  BY DEF Init, Answered
<1> QED
  BY <1>1, <1>2, <1>3, <1>4 DEF ActorInv

\* It says what the mailbox promises.
LEMMA ActorInvSays ==
    ASSUME ActorInv PROVE MailboxSound
<1>1. thread = "run" => instance
  BY DEF ActorInv, Phases, Unborn, InitUnderWay, Serving
<1>2. ServedInOrder
  BY <1>1 DEF ActorInv, Answered, ServedInOrder
<1>3. ASSUME thread = "ended", ~lost
      PROVE  served = sent /\ \A i \in 1..Len(sent) : reply[sent[i]] \in {"ok", "panic"}
  <2>1. served = sent /\ cur = NoCall
    <3>1. CASE ack # "ok"
      BY <3>1 DEF ActorInv, Phases, Unborn
    <3>2. CASE ack = "ok"
      <4>1. sent = served \o <<>> /\ cur = NoCall
        BY <1>3, <3>2 DEF ActorInv, Phases, Serving
      <4> QED
        BY <4>1, ConcatEmptySeq DEF ActorInv, TypeOK
    <3> QED
      BY <3>1, <3>2
  <2>2. \A i \in 1..Len(served) : served[i] \in Calls
    BY DEF ActorInv, TypeOK
  <2> QED
    BY <1>3, <2>1, <2>2, ActorAssumption DEF ActorInv, Answered
<1> QED
  BY <1>2, <1>3 DEF MailboxSound, CloseDrains, ActorInv

\* actor.rs: methods run one at a time, in the order their calls were accepted,
\* on a constructed instance, and close() drains the mailbox before the thread
\* ends, for any set of calls, dropped and pending, and a thread that may be lost.
THEOREM MailboxServes == Spec => []MailboxSound
<1>1. Init => ActorInv
  BY ActorInit
<1>2. ActorInv /\ [Next]_vars => ActorInv'
  BY ActorStep
<1>3. ActorInv => MailboxSound
  BY ActorInvSays
<1> QED
  BY <1>1, <1>2, <1>3, PTL DEF Spec
=============================================================================
