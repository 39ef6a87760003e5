------------------------- MODULE WorkerStreamProofs -------------------------
(***************************************************************************)
(* The protocol of WorkerStream for any number of consumers and of yields: *)
(* one credit at a time, and the values are handed out in order.           *)
(***************************************************************************)
EXTENDS WorkerStream, TLAPS

-----------------------------------------------------------------------------
(* The inductive invariant.                                                *)

\* No message is under way and the isolate serves none.
Quiet == mbox = <<>> /\ credit = NoOne /\ thread \in {"recv", "ended"}

\* The one credit of consumer c is in the channel or is being served.
UnderWay(c) ==
    \/ mbox = <<c>> /\ credit = NoOne /\ thread = "recv"
    \/ mbox = <<>> /\ credit = c /\ thread = "step"

\* Where the Init message is.
InitUnderWay ==
    \/ thread = "absent" /\ mbox = <<>> /\ driver = "absent"
    \/ thread \in {"boot", "recv"} /\ mbox = <<"init">> /\ driver # "absent"
    \/ thread = "init" /\ mbox = <<>> /\ driver # "absent"

\* A generator whose producer is not built yet, or could not be.
Building ==
    /\ driver \in {"absent", "local", "dropped"}
    /\ credit = NoOne
    /\ produced = 0
    /\ got = <<>>
    /\ ack = "none" => InitUnderWay
    /\ ack # "none" => Quiet

\* A consumer waits exactly while its resume holds the driver.
HoldersWait == waiting = {driver} \cap Consumers

\* The driver and what is under way.  A driver that was dropped by a
\* cancelled consumer leaves its credit behind.
Serving ==
    /\ driver # "absent"
    /\ Quiet \/ \E c \in Consumers : /\ UnderWay(c)
                                     /\ produced = Len(got)
                                     /\ driver = c \/ driver = "dropped"
    /\ driver \in {"local", "parked"} => Quiet /\ produced = Len(got)
    /\ driver \in Consumers =>
          /\ reply[driver] = "none" => UnderWay(driver)
          /\ reply[driver] # "none" => Quiet
          /\ reply[driver] = "yielded" => produced = Len(got) + 1

\* The body is never more than one value ahead of its consumers.
OneAhead == Len(got) <= produced /\ produced <= Len(got) + 1

Handles ==
    /\ handle = "none" => thread = "absent" /\ ack = "none"
    /\ handle = "spawning" => driver = "local"
    /\ ack # "ack" => Building
    /\ ack = "ack" => Serving

StreamInv == TypeOK /\ HoldersWait /\ OneAhead /\ Handles /\ YieldsInOrder

-----------------------------------------------------------------------------
(* What the invariant says of the states in which a message is under way.  *)

\* A consumer that waits holds the driver of a producer that was built.
LEMMA Held ==
    ASSUME StreamInv, NEW c \in waiting
    PROVE  c \in Consumers /\ driver = c /\ ack = "ack" /\ waiting = {c} /\ Serving
<1>1. c \in Consumers /\ driver = c /\ waiting = {c}
  BY DEF StreamInv, HoldersWait, TypeOK
<1>2. ack = "ack"
  BY <1>1, StreamAssumption DEF StreamInv, Handles, Building
<1> QED
  BY <1>1, <1>2 DEF StreamInv, Handles

\* While the producer takes a step it serves the only credit there is, and all
\* the values it has yielded have been handed out.
LEMMA AtStep ==
    ASSUME StreamInv, thread = "step"
    PROVE  /\ ack = "ack"
           /\ credit \in Consumers
           /\ mbox = <<>>
           /\ produced = Len(got)
           /\ driver = credit \/ driver = "dropped"
<1>1. ack = "ack"
  BY DEF StreamInv, Handles, Building, InitUnderWay, Quiet, TypeOK
<1>2. PICK c \in Consumers : /\ UnderWay(c)
                             /\ produced = Len(got)
                             /\ driver = c \/ driver = "dropped"
  BY <1>1 DEF StreamInv, Handles, Serving, Quiet
<1>3. credit = c /\ mbox = <<>>
  BY <1>2 DEF UnderWay
<1> QED
  BY <1>1, <1>2, <1>3

\* A message the isolate is about to receive is Init, or the only credit.
LEMMA AtReceive ==
    ASSUME StreamInv, thread = "recv", mbox # <<>>
    PROVE  \/ ack = "none" /\ mbox = <<"init">>
           \/ \E c \in Consumers : /\ ack = "ack"
                                   /\ mbox = <<c>>
                                   /\ credit = NoOne
                                   /\ produced = Len(got)
                                   /\ driver = c \/ driver = "dropped"
<1>1. CASE ack = "ack"
  BY <1>1 DEF StreamInv, Handles, Serving, Quiet, UnderWay
<1>2. CASE ack # "ack"
  BY <1>2 DEF StreamInv, Handles, Building, InitUnderWay, Quiet
<1> QED
  BY <1>1, <1>2

\* A thread that is running serves at most one message.
LEMMA AtMostOne ==
    ASSUME StreamInv
    PROVE  \/ mbox = <<>>
           \/ thread \in {"boot", "recv"} /\ \E m \in Consumers \union {"init"} : mbox = <<m>>
<1>1. CASE ack = "ack"
  BY <1>1 DEF StreamInv, Handles, Serving, Quiet, UnderWay
<1>2. CASE ack # "ack"
  BY <1>2 DEF StreamInv, Handles, Building, InitUnderWay, Quiet
<1> QED
  BY <1>1, <1>2

\* What the loop has received is a consumer's credit, and what a channel of one
\* message holds.
LEMMA OneMessage ==
    ASSUME NEW S, NEW m \in S
    PROVE  /\ <<m>> \in Seq(S)
           /\ <<m>> # <<>>
           /\ Head(<<m>>) = m
           /\ Tail(<<m>>) = <<>>
           /\ Append(<<>>, m) = <<m>>
           /\ Len(<<m>>) = 1
           /\ Len(<<>>) = 0
           /\ <<>> \in Seq(S)
           /\ <<m>>[1] = m
  OBVIOUS

-----------------------------------------------------------------------------
(* Every action keeps the invariant.                                       *)

\* StreamInv is kept by every step.
LEMMA StreamStep ==
    ASSUME StreamInv, [Next]_vars
    PROVE  StreamInv'
<1> USE DEF channelVars, isolateVars, handleVars
<1>a. TypeOK /\ HoldersWait /\ OneAhead /\ Handles /\ YieldsInOrder
  BY DEF StreamInv
<1>b. NoOne \notin Consumers /\ "init" \notin Consumers
  BY StreamAssumption
<1>1. CASE Spawn
  <2>1. mbox' = <<"init">> /\ mbox' \in Seq(Consumers \union {"init"})
    BY <1>1, OneMessage DEF Spawn
  <2>2. TypeOK'
    BY <1>a, <1>1, <2>1 DEF TypeOK, Spawn
  <2>3. ack = "none" /\ thread = "absent" /\ driver = "absent"
    BY <1>a, <1>1 DEF Handles, Building, InitUnderWay, Spawn
  <2>4. (HoldersWait /\ OneAhead /\ Handles /\ YieldsInOrder)'
    BY <1>a, <1>1, <2>1, <2>3, StreamAssumption
    DEF TypeOK, Spawn, HoldersWait, OneAhead, Handles, Building, InitUnderWay,
        YieldsInOrder
  <2> QED
    BY <2>2, <2>4 DEF StreamInv
<1>2. CASE SpawnFails
  <2>1. TypeOK'
    BY <1>a, <1>b, <1>2, StreamAssumption
    DEF TypeOK, SpawnFails, NoOne, Handles, Serving, Quiet, UnderWay, Building
  <2>2. (HoldersWait /\ OneAhead /\ YieldsInOrder)'
    BY <1>a, <1>2, StreamAssumption
    DEF TypeOK, SpawnFails, HoldersWait, OneAhead, YieldsInOrder, Handles, Building
  <2>3. Handles'
    BY <1>a, <1>b, <1>2, StreamAssumption
    DEF TypeOK, SpawnFails, HoldersWait, Handles, Serving, Quiet, UnderWay, Building,
        InitUnderWay
  <2> QED
    BY <2>1, <2>2, <2>3 DEF StreamInv
<1>3. CASE SpawnAcked
  <2>1. TypeOK'
    BY <1>a, <1>b, <1>3, StreamAssumption
    DEF TypeOK, SpawnAcked, NoOne, Handles, Serving, Quiet, UnderWay, Building
  <2>2. (HoldersWait /\ OneAhead /\ YieldsInOrder)'
    BY <1>a, <1>3, StreamAssumption
    DEF TypeOK, SpawnAcked, HoldersWait, OneAhead, YieldsInOrder, Handles, Building
  <2>3. Handles'
    BY <1>a, <1>b, <1>3, StreamAssumption
    DEF TypeOK, SpawnAcked, HoldersWait, Handles, Serving, Quiet, UnderWay, Building,
        InitUnderWay
  <2> QED
    BY <2>1, <2>2, <2>3 DEF StreamInv
<1>4. CASE SpawnRefused
  <2>1. TypeOK'
    BY <1>a, <1>b, <1>4, StreamAssumption
    DEF TypeOK, SpawnRefused, DropSpawnLocals, NoOne, Handles, Serving, Quiet,
        UnderWay, Building
  <2>2. (HoldersWait /\ OneAhead /\ YieldsInOrder)'
    BY <1>a, <1>4, StreamAssumption
    DEF TypeOK, SpawnRefused, DropSpawnLocals, HoldersWait, OneAhead, YieldsInOrder,
        Handles, Building
  <2>3. Handles'
    BY <1>a, <1>b, <1>4, StreamAssumption
    DEF TypeOK, SpawnRefused, DropSpawnLocals, HoldersWait, Handles, Serving, Quiet,
        UnderWay, Building, InitUnderWay
  <2> QED
    BY <2>1, <2>2, <2>3 DEF StreamInv
<1>5. CASE AbandonSpawn
  <2>1. TypeOK'
    BY <1>a, <1>b, <1>5, StreamAssumption
    DEF TypeOK, AbandonSpawn, DropSpawnLocals, NoOne, Handles, Serving, Quiet,
        UnderWay, Building
  <2>2. (HoldersWait /\ OneAhead /\ YieldsInOrder)'
    BY <1>a, <1>5, StreamAssumption
    DEF TypeOK, AbandonSpawn, DropSpawnLocals, HoldersWait, OneAhead, YieldsInOrder,
        Handles, Building
  <2>3. Handles'
    BY <1>a, <1>b, <1>5, StreamAssumption
    DEF TypeOK, AbandonSpawn, DropSpawnLocals, HoldersWait, Handles, Serving, Quiet,
        UnderWay, Building, InitUnderWay
  <2> QED
    BY <2>1, <2>2, <2>3 DEF StreamInv
<1>6. CASE Joined
  <2>1. TypeOK'
    BY <1>a, <1>b, <1>6, StreamAssumption
    DEF TypeOK, Joined, NoOne, Handles, Serving, Quiet, UnderWay, Building
  <2>2. (HoldersWait /\ OneAhead /\ YieldsInOrder)'
    BY <1>a, <1>6, StreamAssumption
    DEF TypeOK, Joined, HoldersWait, OneAhead, YieldsInOrder, Handles, Building
  <2>3. Handles'
    BY <1>a, <1>b, <1>6, StreamAssumption
    DEF TypeOK, Joined, HoldersWait, Handles, Serving, Quiet, UnderWay, Building,
        InitUnderWay
  <2> QED
    BY <2>1, <2>2, <2>3 DEF StreamInv
<1>7. CASE Close
  <2>1. TypeOK'
    BY <1>a, <1>b, <1>7, StreamAssumption
    DEF TypeOK, Close, DropIfParked, DropDriver, NoOne, Handles, Serving, Quiet,
        UnderWay, Building
  <2>2. (HoldersWait /\ OneAhead /\ YieldsInOrder)'
    BY <1>a, <1>7, StreamAssumption
    DEF TypeOK, Close, DropIfParked, DropDriver, HoldersWait, OneAhead, YieldsInOrder,
        Handles, Building
  <2>3. Handles'
    BY <1>a, <1>b, <1>7, StreamAssumption
    DEF TypeOK, Close, DropIfParked, DropDriver, HoldersWait, Handles, Serving, Quiet,
        UnderWay, Building, InitUnderWay
  <2> QED
    BY <2>1, <2>2, <2>3 DEF StreamInv
<1>8. CASE DropHandle
  <2>1. TypeOK'
    BY <1>a, <1>b, <1>8, StreamAssumption
    DEF TypeOK, DropHandle, DropIfParked, DropDriver, NoOne, Handles, Serving, Quiet,
        UnderWay, Building
  <2>2. (HoldersWait /\ OneAhead /\ YieldsInOrder)'
    BY <1>a, <1>8, StreamAssumption
    DEF TypeOK, DropHandle, DropIfParked, DropDriver, HoldersWait, OneAhead,
        YieldsInOrder, Handles, Building
  <2>3. Handles'
    BY <1>a, <1>b, <1>8, StreamAssumption
    DEF TypeOK, DropHandle, DropIfParked, DropDriver, HoldersWait, Handles, Serving,
        Quiet, UnderWay, Building, InitUnderWay
  <2> QED
    BY <2>1, <2>2, <2>3 DEF StreamInv
<1>9. ASSUME NEW c \in Consumers, ResumeSentinel(c)
      PROVE  StreamInv'
  <2>1. TypeOK'
    BY <1>a, <1>b, <1>9, StreamAssumption
    DEF TypeOK, ResumeSentinel, Returns, NoOne, Handles, Serving, Quiet, UnderWay,
        Building
  <2>2. (HoldersWait /\ OneAhead /\ YieldsInOrder)'
    BY <1>a, <1>9, StreamAssumption
    DEF TypeOK, ResumeSentinel, Returns, HoldersWait, OneAhead, YieldsInOrder, Handles,
        Building
  <2>3. Handles'
    BY <1>a, <1>b, <1>9, StreamAssumption
    DEF TypeOK, ResumeSentinel, Returns, HoldersWait, Handles, Serving, Quiet,
        UnderWay, Building, InitUnderWay
  <2> QED
    BY <2>1, <2>2, <2>3 DEF StreamInv
<1>10. ASSUME NEW c \in Consumers, ResumeUnsendable(c)
      PROVE  StreamInv'
  <2>1. TypeOK'
    BY <1>a, <1>b, <1>10, StreamAssumption
    DEF TypeOK, ResumeUnsendable, Returns, NoOne, Handles, Serving, Quiet, UnderWay,
        Building
  <2>2. (HoldersWait /\ OneAhead /\ YieldsInOrder)'
    BY <1>a, <1>10, StreamAssumption
    DEF TypeOK, ResumeUnsendable, Returns, HoldersWait, OneAhead, YieldsInOrder,
        Handles, Building
  <2>3. Handles'
    BY <1>a, <1>b, <1>10, StreamAssumption
    DEF TypeOK, ResumeUnsendable, Returns, HoldersWait, Handles, Serving, Quiet,
        UnderWay, Building, InitUnderWay
  <2> QED
    BY <2>1, <2>2, <2>3 DEF StreamInv
<1>11. ASSUME NEW c \in Consumers, ResumeSends(c)
      PROVE  StreamInv'
  <2>1. ack = "ack" /\ Quiet /\ thread = "recv" /\ produced = Len(got)
    BY <1>a, <1>11 DEF ResumeSends, Handles, Building, Serving, Quiet
  <2>2. mbox' = <<c>> /\ mbox' \in Seq(Consumers \union {"init"})
    BY <1>11, <2>1, OneMessage DEF ResumeSends, Quiet
  <2>3. TypeOK'
    BY <1>a, <1>11, <2>2 DEF TypeOK, ResumeSends
  <2>4. waiting = {} /\ HoldersWait'
    BY <1>a, <1>11, StreamAssumption DEF ResumeSends, HoldersWait
  <2>5. UnderWay(c)'
    BY <1>11, <2>1, <2>2 DEF ResumeSends, UnderWay, Quiet
  <2>6. reply'[c] = "none"
    BY <1>a, <1>11 DEF ResumeSends, TypeOK
  <2>7. Handles'
    BY <1>11, <2>1, <2>5, <2>6, StreamAssumption DEF ResumeSends, Handles, Serving
  <2>8. (OneAhead /\ YieldsInOrder)'
    BY <1>a, <1>11 DEF ResumeSends, OneAhead, YieldsInOrder
  <2> QED
    BY <2>3, <2>4, <2>7, <2>8 DEF StreamInv
<1>12. ASSUME NEW c \in Consumers, ResumeUnsent(c)
      PROVE  StreamInv'
  <2>1. TypeOK'
    BY <1>a, <1>b, <1>12, StreamAssumption
    DEF TypeOK, ResumeUnsent, Returns, DropDriver, NoOne, Handles, Serving, Quiet,
        UnderWay, Building
  <2>2. (HoldersWait /\ OneAhead /\ YieldsInOrder)'
    BY <1>a, <1>12, StreamAssumption
    DEF TypeOK, ResumeUnsent, Returns, DropDriver, HoldersWait, OneAhead,
        YieldsInOrder, Handles, Building
  <2>3. Handles'
    BY <1>a, <1>b, <1>12, StreamAssumption
    DEF TypeOK, ResumeUnsent, Returns, DropDriver, HoldersWait, Handles, Serving,
        Quiet, UnderWay, Building, InitUnderWay
  <2> QED
    BY <2>1, <2>2, <2>3 DEF StreamInv
<1>13. ASSUME NEW c \in Consumers, ResumeYields(c)
      PROVE  StreamInv'
  <2>1. driver = c /\ ack = "ack" /\ waiting = {c} /\ Serving
    BY <1>13, Held DEF ResumeYields
  <2>2. Quiet /\ produced = Len(got) + 1
    BY <1>13, <2>1 DEF ResumeYields, Serving
  <2>3. /\ produced \in 1..MaxYields
        /\ Len(got) \in Nat
        /\ got \in Seq(1..MaxYields)
    BY <1>a, <2>2 DEF TypeOK
  <2>4. /\ got' = Append(got, produced)
        /\ got' \in Seq(1..MaxYields)
        /\ Len(got') = Len(got) + 1
        /\ \A i \in 1..Len(got) : got'[i] = got[i]
        /\ got'[Len(got) + 1] = produced
    BY <1>13, <2>3 DEF ResumeYields
  <2>5. TypeOK'
    BY <1>a, <1>13, <2>4 DEF TypeOK, ResumeYields, Returns
  <2>6. HoldersWait'
    BY <1>13, <2>1, StreamAssumption DEF ResumeYields, HoldersWait
  <2>7. (OneAhead /\ YieldsInOrder)'
    BY <1>a, <1>13, <2>2, <2>3, <2>4 DEF ResumeYields, OneAhead, YieldsInOrder
  <2>8. Handles'
    BY <1>a, <1>13, <2>1, <2>2, <2>4, StreamAssumption
    DEF ResumeYields, Handles, Serving, Quiet
  <2> QED
    BY <2>5, <2>6, <2>7, <2>8 DEF StreamInv
<1>14. ASSUME NEW c \in Consumers, ResumeEnds(c)
      PROVE  StreamInv'
  <2>1. TypeOK'
    BY <1>a, <1>b, <1>14, StreamAssumption
    DEF TypeOK, ResumeEnds, Returns, DropDriver, NoOne, Handles, Serving, Quiet,
        UnderWay, Building
  <2>2. (HoldersWait /\ OneAhead /\ YieldsInOrder)'
    BY <1>a, <1>14, StreamAssumption
    DEF TypeOK, ResumeEnds, Returns, DropDriver, HoldersWait, OneAhead, YieldsInOrder,
        Handles, Building
  <2>3. Handles'
    BY <1>a, <1>b, <1>14, StreamAssumption
    DEF TypeOK, ResumeEnds, Returns, DropDriver, HoldersWait, Handles, Serving, Quiet,
        UnderWay, Building, InitUnderWay
  <2> QED
    BY <2>1, <2>2, <2>3 DEF StreamInv
<1>15. ASSUME NEW c \in Consumers, CancelResume(c)
      PROVE  StreamInv'
  <2>1. TypeOK'
    BY <1>a, <1>b, <1>15, StreamAssumption
    DEF TypeOK, CancelResume, Returns, DropDriver, NoOne, Handles, Serving, Quiet,
        UnderWay, Building
  <2>2. (HoldersWait /\ OneAhead /\ YieldsInOrder)'
    BY <1>a, <1>15, StreamAssumption
    DEF TypeOK, CancelResume, Returns, DropDriver, HoldersWait, OneAhead,
        YieldsInOrder, Handles, Building
  <2>3. Handles'
    BY <1>a, <1>b, <1>15, StreamAssumption
    DEF TypeOK, CancelResume, Returns, DropDriver, HoldersWait, Handles, Serving,
        Quiet, UnderWay, Building, InitUnderWay
  <2> QED
    BY <2>1, <2>2, <2>3 DEF StreamInv
<1>16. CASE Boot
  <2>1. TypeOK'
    BY <1>a, <1>b, <1>16, StreamAssumption
    DEF TypeOK, Boot, NoOne, Handles, Serving, Quiet, UnderWay, Building
  <2>2. (HoldersWait /\ OneAhead /\ YieldsInOrder)'
    BY <1>a, <1>16, StreamAssumption
    DEF TypeOK, Boot, HoldersWait, OneAhead, YieldsInOrder, Handles, Building
  <2>3. Handles'
    BY <1>a, <1>b, <1>16, StreamAssumption
    DEF TypeOK, Boot, HoldersWait, Handles, Serving, Quiet, UnderWay, Building,
        InitUnderWay
  <2> QED
    BY <2>1, <2>2, <2>3 DEF StreamInv
<1>17. CASE ThreadLost
  <2>1. thread' = "ended" /\ mbox' = <<>> /\ credit' = NoOne /\ Quiet'
    BY <1>17 DEF ThreadLost, Quiet
  <2>2. TypeOK'
    BY <1>a, <1>17, <2>1 DEF TypeOK, ThreadLost
  <2>3. ack' = ack \/ (ack = "none" /\ ack' = "closed")
    BY <1>17 DEF ThreadLost
  <2>4. (HoldersWait /\ OneAhead /\ YieldsInOrder)'
    BY <1>a, <1>17 DEF ThreadLost, HoldersWait, OneAhead, YieldsInOrder
  <2>5. ASSUME ack # "ack" PROVE Handles'
    BY <1>a, <1>17, <2>1, <2>3, <2>5 DEF ThreadLost, Handles, Building, InitUnderWay
  <2>6. ASSUME ack = "ack" PROVE Handles'
    <3>1. Serving /\ ack' = "ack" /\ driver' = driver /\ produced' = produced /\ got' = got
      BY <1>a, <1>17, <2>3, <2>6 DEF ThreadLost, Handles
    <3>2. ASSUME driver \in Consumers
          PROVE  reply'[driver] # "none" /\ (reply'[driver] = "yielded" => produced = Len(got) + 1)
      <4>1. CASE reply[driver] = "none"
        <5>1. driver = credit \/ (\E i \in 1..Len(mbox) : mbox[i] = driver)
          BY <3>1, <3>2, <4>1, OneMessage DEF Serving, UnderWay
        <5> QED
          BY <1>17, <3>2, <5>1 DEF ThreadLost
      <4>2. CASE reply[driver] # "none"
        BY <1>17, <3>1, <3>2, <4>2 DEF ThreadLost, Serving
      <4> QED
        BY <4>1, <4>2
    <3>3. driver \in {"local", "parked"} => produced = Len(got)
      BY <3>1 DEF Serving
    <3>4. Serving'
      BY <2>1, <3>1, <3>2, <3>3 DEF Serving
    <3> QED
      BY <1>a, <1>17, <3>1, <3>4 DEF ThreadLost, Handles
  <2> QED
    BY <2>2, <2>4, <2>5, <2>6 DEF StreamInv
<1>18. CASE Receive
  <2>1. CASE ack = "none" /\ mbox = <<"init">>
    <3>1. mbox' = <<>> /\ thread' = "init" /\ credit' = credit
      BY <1>18, <2>1, OneMessage DEF Receive
    <3>2. TypeOK'
      BY <1>a, <1>18, <3>1 DEF TypeOK, Receive
    <3>3. (HoldersWait /\ OneAhead /\ Handles /\ YieldsInOrder)'
      BY <1>a, <1>18, <2>1, <3>1
      DEF Receive, HoldersWait, OneAhead, Handles, Building, InitUnderWay, YieldsInOrder
    <3> QED
      BY <3>2, <3>3 DEF StreamInv
  <2>2. ASSUME NEW c \in Consumers,
               ack = "ack", mbox = <<c>>, credit = NoOne, produced = Len(got),
               driver = c \/ driver = "dropped"
        PROVE  StreamInv'
    <3>1. mbox' = <<>> /\ thread' = "step" /\ credit' = c
      BY <1>b, <1>18, <2>2, OneMessage DEF Receive
    <3>2. TypeOK'
      BY <1>a, <1>18, <3>1 DEF TypeOK, Receive
    <3>3. UnderWay(c)'
      BY <3>1 DEF UnderWay
    <3>4. driver \in Consumers => reply[driver] = "none"
      BY <1>a, <2>2, OneMessage DEF Handles, Serving, Quiet
    <3>5. Serving'
      BY <1>18, <2>2, <3>3, <3>4, StreamAssumption DEF Receive, Serving
    <3>6. (HoldersWait /\ OneAhead /\ Handles /\ YieldsInOrder)'
      BY <1>a, <1>18, <2>2, <3>5
      DEF Receive, HoldersWait, OneAhead, Handles, YieldsInOrder
    <3> QED
      BY <3>2, <3>6 DEF StreamInv
  <2> QED
    BY <1>18, <2>1, <2>2, AtReceive DEF Receive
<1>19. CASE InitBuilds
  <2>1. ack = "none" /\ mbox = <<>> /\ Building
    BY <1>a, <1>19
    DEF InitBuilds, Handles, Building, InitUnderWay, Serving, Quiet, UnderWay
  <2>2. TypeOK'
    BY <1>a, <1>19 DEF TypeOK, InitBuilds
  <2>3. driver # "absent"
    BY <1>a, <1>19, <2>1 DEF InitBuilds, Building, InitUnderWay, Handles
  <2>4. Quiet' /\ produced = Len(got) /\ driver \notin Consumers
    BY <1>19, <2>1, OneMessage, StreamAssumption DEF InitBuilds, Building, Quiet
  <2>5. (HoldersWait /\ OneAhead /\ Handles /\ YieldsInOrder)'
    BY <1>a, <1>19, <2>3, <2>4
    DEF InitBuilds, HoldersWait, OneAhead, Handles, Serving, YieldsInOrder
  <2> QED
    BY <2>2, <2>5 DEF StreamInv
<1>20. CASE InitFails
  <2>1. TypeOK'
    BY <1>a, <1>b, <1>20, StreamAssumption
    DEF TypeOK, InitFails, NoOne, Handles, Serving, Quiet, UnderWay, Building
  <2>2. (HoldersWait /\ OneAhead /\ YieldsInOrder)'
    BY <1>a, <1>20, StreamAssumption
    DEF TypeOK, InitFails, HoldersWait, OneAhead, YieldsInOrder, Handles, Building
  <2>3. Handles'
    BY <1>a, <1>b, <1>20, StreamAssumption
    DEF TypeOK, InitFails, HoldersWait, Handles, Serving, Quiet, UnderWay, Building,
        InitUnderWay
  <2> QED
    BY <2>1, <2>2, <2>3 DEF StreamInv
<1>21. CASE StepYields
  <2>1. /\ ack = "ack" /\ credit \in Consumers /\ mbox = <<>> /\ produced = Len(got)
        /\ driver = credit \/ driver = "dropped"
    BY <1>21, AtStep DEF StepYields
  <2>2. /\ produced' = Len(got') + 1
        /\ got' = got
        /\ Len(got) \in Nat
        /\ produced' \in 0..MaxYields
    BY <1>a, <1>21, <2>1, StreamAssumption DEF TypeOK, StepYields, StepReplies
  <2>3. TypeOK'
    BY <1>a, <1>21, <2>1, <2>2 DEF TypeOK, StepYields, StepReplies
  <2>4. Quiet' /\ (driver = credit => reply'[driver] = "yielded")
    BY <1>a, <1>21, <2>1 DEF TypeOK, StepYields, StepReplies, Quiet
  <2>5. Serving'
    BY <1>21, <2>1, <2>2, <2>4, StreamAssumption DEF StepYields, StepReplies, Serving
  <2>6. (HoldersWait /\ OneAhead /\ Handles /\ YieldsInOrder)'
    BY <1>a, <1>21, <2>1, <2>2, <2>5
    DEF StepYields, StepReplies, HoldersWait, OneAhead, Handles, YieldsInOrder
  <2> QED
    BY <2>3, <2>6 DEF StreamInv
<1>22. CASE StepUnsendable
  <2>1. /\ ack = "ack" /\ credit \in Consumers /\ mbox = <<>> /\ produced = Len(got)
        /\ driver = credit \/ driver = "dropped"
    BY <1>22, AtStep DEF StepUnsendable
  <2>2. /\ produced' = Len(got') + 1
        /\ got' = got
        /\ Len(got) \in Nat
        /\ produced' \in 0..MaxYields
    BY <1>a, <1>22, <2>1, StreamAssumption DEF TypeOK, StepUnsendable, StepReplies
  <2>3. TypeOK'
    BY <1>a, <1>22, <2>1, <2>2 DEF TypeOK, StepUnsendable, StepReplies
  <2>4. Quiet' /\ (driver = credit => reply'[driver] = "panic")
    BY <1>a, <1>22, <2>1 DEF TypeOK, StepUnsendable, StepReplies, Quiet
  <2>5. Serving'
    BY <1>22, <2>1, <2>2, <2>4, StreamAssumption
    DEF StepUnsendable, StepReplies, Serving
  <2>6. (HoldersWait /\ OneAhead /\ Handles /\ YieldsInOrder)'
    BY <1>a, <1>22, <2>1, <2>2, <2>5
    DEF StepUnsendable, StepReplies, HoldersWait, OneAhead, Handles, YieldsInOrder
  <2> QED
    BY <2>3, <2>6 DEF StreamInv
<1>23. CASE StepDone
  <2>1. TypeOK'
    BY <1>a, <1>b, <1>23, StreamAssumption
    DEF TypeOK, StepDone, StepReplies, NoOne, Handles, Serving, Quiet, UnderWay,
        Building
  <2>2. (HoldersWait /\ OneAhead /\ YieldsInOrder)'
    BY <1>a, <1>23, StreamAssumption
    DEF TypeOK, StepDone, StepReplies, HoldersWait, OneAhead, YieldsInOrder, Handles,
        Building
  <2>3. Handles'
    BY <1>a, <1>b, <1>23, StreamAssumption
    DEF TypeOK, StepDone, StepReplies, HoldersWait, Handles, Serving, Quiet, UnderWay,
        Building, InitUnderWay
  <2> QED
    BY <2>1, <2>2, <2>3 DEF StreamInv
<1>24. CASE StepPanics
  <2>1. TypeOK'
    BY <1>a, <1>b, <1>24, StreamAssumption
    DEF TypeOK, StepPanics, StepReplies, NoOne, Handles, Serving, Quiet, UnderWay,
        Building
  <2>2. (HoldersWait /\ OneAhead /\ YieldsInOrder)'
    BY <1>a, <1>24, StreamAssumption
    DEF TypeOK, StepPanics, StepReplies, HoldersWait, OneAhead, YieldsInOrder, Handles,
        Building
  <2>3. Handles'
    BY <1>a, <1>b, <1>24, StreamAssumption
    DEF TypeOK, StepPanics, StepReplies, HoldersWait, Handles, Serving, Quiet,
        UnderWay, Building, InitUnderWay
  <2> QED
    BY <2>1, <2>2, <2>3 DEF StreamInv
<1>25. CASE LoopEnds
  <2>1. TypeOK'
    BY <1>a, <1>b, <1>25, StreamAssumption
    DEF TypeOK, LoopEnds, NoOne, Handles, Serving, Quiet, UnderWay, Building
  <2>2. (HoldersWait /\ OneAhead /\ YieldsInOrder)'
    BY <1>a, <1>25, StreamAssumption
    DEF TypeOK, LoopEnds, HoldersWait, OneAhead, YieldsInOrder, Handles, Building
  <2>3. Handles'
    BY <1>a, <1>b, <1>25, StreamAssumption
    DEF TypeOK, LoopEnds, HoldersWait, Handles, Serving, Quiet, UnderWay, Building,
        InitUnderWay
  <2> QED
    BY <2>1, <2>2, <2>3 DEF StreamInv
<1>26. CASE UNCHANGED vars
  BY <1>a, <1>26
  DEF StreamInv, TypeOK, vars, HoldersWait, OneAhead, Handles, Serving, Quiet,
      UnderWay, Building, InitUnderWay, YieldsInOrder
<1> QED
  BY <1>1, <1>2, <1>3, <1>4, <1>5, <1>6, <1>7, <1>8, <1>9, <1>10, <1>11, <1>12, <1>13,
     <1>14, <1>15, <1>16, <1>17, <1>18, <1>19, <1>20, <1>21, <1>22, <1>23, <1>24,
     <1>25, <1>26
  DEF Next, Caller, Program, Isolate

\* StreamInv holds to begin with.
LEMMA StreamInit ==
    ASSUME Init PROVE StreamInv
<1>0. got \in Seq(1..MaxYields) /\ mbox \in Seq(Consumers \union {"init"})
  BY DEF Init
<1>1. TypeOK
  <2>1. /\ last \in [Consumers -> {"none", "value", "done", "panic", "cancelled"}]
        /\ reply \in [Consumers -> {"none", "yielded", "done", "panic", "closed"}]
    BY DEF Init
  <2>2. produced \in 0..MaxYields
    BY StreamAssumption DEF Init
  <2> QED
    BY <1>0, <2>1, <2>2 DEF Init, TypeOK
<1>2. Len(got) = 0
  BY OneMessage DEF Init
<1>3. HoldersWait /\ OneAhead /\ Handles /\ YieldsInOrder
  BY <1>2, StreamAssumption
  DEF Init, HoldersWait, OneAhead, Handles, Building, InitUnderWay, YieldsInOrder
<1> QED
  BY <1>1, <1>3 DEF StreamInv

\* What a reader wants of the invariant.
LEMMA StreamInvSays ==
    ASSUME StreamInv PROVE CreditsSound /\ YieldsInOrder
<1>1. CreditAfterBuild
  <2>1. waiting # {} => ack = "ack"
    BY Held
  <2> QED
    BY <2>1, AtStep DEF CreditAfterBuild
<1>2. thread = "step" => mbox = <<>>
  BY AtStep
<1>3. Len(mbox) + (IF thread \in {"init", "step"} THEN 1 ELSE 0) <= 1
  <2>1. CASE mbox = <<>>
    BY <2>1
  <2>2. ASSUME thread \in {"boot", "recv"}, NEW m \in Consumers \union {"init"}, mbox = <<m>>
        PROVE  Len(mbox) + (IF thread \in {"init", "step"} THEN 1 ELSE 0) <= 1
    <3>1. Len(mbox) = 1
      BY <2>2
    <3> QED
      BY <2>2, <3>1
  <2> QED
    BY <2>1, <2>2, AtMostOne
<1> QED
  BY <1>1, <1>3 DEF StreamInv, CreditsSound, StrictPull, OneAhead

\* The invariant holds of every reachable state.
LEMMA StreamInductive == Spec => []StreamInv
<1>1. Init => StreamInv
  BY StreamInit
<1>2. StreamInv /\ [Next]_vars => StreamInv'
  BY StreamStep
<1> QED
  BY <1>1, <1>2, PTL DEF Spec

\* stream.rs: the producer "runs at most ONE step ahead of demand", and no credit
\* reaches it before it is built, for any number of consumers that share the
\* generator and are cancelled, closed or dropped at any moment.
THEOREM CreditsKept == Spec => []CreditsSound
<1>1. StreamInv => CreditsSound
  BY StreamInvSays
<1> QED
  BY <1>1, StreamInductive, PTL

\* The values of the body reach the consumers once and in order.
THEOREM ValuesInOrder == Spec => []YieldsInOrder
<1>1. StreamInv => YieldsInOrder
  BY StreamInvSays
<1> QED
  BY <1>1, StreamInductive, PTL
=============================================================================
