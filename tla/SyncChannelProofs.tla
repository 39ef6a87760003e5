------------------------- MODULE SyncChannelProofs -------------------------
(***************************************************************************)
(* Proofs about SyncChannel, for any number of senders, receivers, values  *)
(* and any capacity.                                                       *)
(***************************************************************************)
EXTENDS SyncChannel, NotifyProofs, SequenceTheorems

\* The tasks of T that wait.
Asleep(T) == {t \in T : st[t] = "waiting"}

\* The receivers wait at not_empty for the queued values, the senders at not_full
\* for the free places.
Serving ==
    /\ Served(not_empty, Receivers, Asleep(Receivers), closed, Len(queue))
    /\ Served(not_full, Senders, Asleep(Senders), closed, Capacity - Len(queue))

\* A sender that waits has a value to send.
Pending == \A s \in Senders : st[s] = "waiting" => sends[s] < MaxSends

\* ChannelSound is inductive with what the two Notifys owe to their waiters.
ChannelInv == TypeOK /\ FifoQueue /\ Pending /\ Serving

\* The invariant holds to begin with.
LEMMA ChannelInit == Init => ChannelInv
<1> SUFFICES ASSUME Init PROVE ChannelInv
  OBVIOUS
<1> USE ChannelAssumption
<1>1. TypeOK
  <2>1. closed \in BOOLEAN
    BY DEF Init
  <2>2. not_empty \in NotifyType(Receivers) /\ not_full \in NotifyType(Senders)
    BY NewNotifyOK DEF Init
  <2>3. queue \in Seq(Values) /\ pushed \in Seq(Values) /\ popped \in Seq(Values) /\ Len(queue) = 0
    BY DEF Init
  <2>4. st \in [Tasks -> {"idle", "waiting", "done"}] /\ sends \in [Senders -> 0..MaxSends]
    BY DEF Init
  <2> QED BY <2>1, <2>2, <2>3, <2>4 DEF TypeOK
<1>2. FifoQueue /\ Pending
  BY DEF Init, FifoQueue, Pending, Tasks
<1>3. Asleep(Receivers) = {} /\ Asleep(Senders) = {}
  BY DEF Init, Asleep, Tasks
<1>4. /\ Served(NewNotify, Receivers, {}, FALSE, Len(queue))
      /\ Served(NewNotify, Senders, {}, FALSE, Capacity - Len(queue))
  BY ServedNew
<1>5. not_empty = NewNotify /\ not_full = NewNotify /\ closed = FALSE
  BY DEF Init
<1> QED BY <1>1, <1>2, <1>3, <1>4, <1>5 DEF ChannelInv, Serving

\* The fields of TypeOK, one by one.
LEMMA Types ==
    ASSUME TypeOK
    PROVE  /\ queue \in Seq(Values) /\ Len(queue) \in Nat
           /\ pushed \in Seq(Values) /\ popped \in Seq(Values)
           /\ closed \in BOOLEAN
           /\ Len(queue) \in Int /\ Capacity \in Int /\ Capacity - Len(queue) \in Int
BY ChannelAssumption DEF TypeOK

\* A task that is about to run does not sleep in the queue of its Notify.
LEMMA NotQueued ==
    ASSUME NEW n, NEW T, NEW W, NEW cl, NEW k, Served(n, T, W, cl, k), NEW t,
           t \notin W \/ t \in Woken(n)
    PROVE  t \notin Waiting(n)
BY DEF Served, Orderly, Waiting, Woken

\* What a step that changes what task t does changes for the tasks asleep.
LEMMA AsleepStep ==
    ASSUME TypeOK, NEW t \in Tasks, NEW p, st' = [st EXCEPT ![t] = p], NEW T, T \subseteq Tasks
    PROVE  /\ p = "waiting" /\ t \in T => Asleep(T)' = (Asleep(T) \ {t}) \union {t}
           /\ p # "waiting" => Asleep(T)' = Asleep(T) \ {t}
           /\ t \notin T => Asleep(T)' = Asleep(T)
BY DEF TypeOK, Asleep

\* A value pushed is the last of the queue.
LEMMA FifoPush ==
    ASSUME TypeOK, FifoQueue, NEW v \in Values,
           queue' = Append(queue, v), pushed' = Append(pushed, v), popped' = popped
    PROVE  FifoQueue'
<1>1. /\ queue \in Seq(Values) /\ popped \in Seq(Values) /\ pushed \in Seq(Values)
      /\ <<v>> \in Seq(Values)
  BY Types
<1>2. Append(queue, v) = queue \o <<v>> /\ Append(pushed, v) = pushed \o <<v>>
  BY <1>1, AppendIsConcat
<1>3. (popped \o queue) \o <<v>> = popped \o (queue \o <<v>>)
  BY <1>1, ConcatAssociative
<1> QED BY <1>2, <1>3 DEF FifoQueue

\* A value popped is the first of the queue.
LEMMA FifoPop ==
    ASSUME TypeOK, FifoQueue, queue # <<>>,
           queue' = Tail(queue), popped' = Append(popped, Head(queue)), pushed' = pushed
    PROVE  /\ FifoQueue'
           /\ queue' \in Seq(Values) /\ popped' \in Seq(Values)
           /\ Len(queue') = Len(queue) - 1
<1>1. queue \in Seq(Values) /\ popped \in Seq(Values) /\ pushed \in Seq(Values)
  BY Types
<1>2. /\ Head(queue) \in Values /\ Tail(queue) \in Seq(Values) /\ <<Head(queue)>> \in Seq(Values)
      /\ Len(Tail(queue)) = Len(queue) - 1
      /\ queue = <<Head(queue)>> \o Tail(queue)
  BY <1>1, HeadTailProperties
<1>3. Append(popped, Head(queue)) = popped \o <<Head(queue)>>
  BY <1>1, <1>2, AppendIsConcat
<1>4. (popped \o <<Head(queue)>>) \o Tail(queue) = popped \o (<<Head(queue)>> \o Tail(queue))
  BY <1>1, <1>2, ConcatAssociative
<1>5. FifoQueue'
  <2>1. popped' \o queue' = popped \o (<<Head(queue)>> \o Tail(queue))
    BY <1>3, <1>4
  <2>2. popped' \o queue' = popped \o queue
    BY <1>2, <2>1
  <2> QED BY <2>2 DEF FifoQueue
<1> QED BY <1>1, <1>2, <1>3, <1>5

\* A sender runs: it is no longer asleep, and a place it fills is one less.
LEMMA SenderRuns ==
    ASSUME ChannelInv, NEW s \in Senders, AtSend(s)
    PROVE  /\ sends[s] + 1 \in 1..MaxSends
           /\ Served(Resumed(not_full, s), Senders, Asleep(Senders) \ {s}, closed,
                     (Capacity - Len(queue)) - 1)
<1> USE ChannelAssumption
<1>1. TypeOK /\ Served(not_full, Senders, Asleep(Senders), closed, Capacity - Len(queue))
  BY DEF ChannelInv, Serving
<1>2. s \notin Asleep(Senders) \/ s \in Woken(not_full)
  BY DEF AtSend, Asleep
<1>3. s \notin Waiting(not_full)
  BY <1>1, <1>2, NotQueued
<1>4. sends[s] < MaxSends
  BY DEF AtSend, ChannelInv, Pending
<1>5. sends[s] + 1 \in 1..MaxSends
  BY <1>1, <1>4 DEF TypeOK
<1> QED BY <1>1, <1>3, <1>5, Types, ServedResumed

\* A receiver runs: it is no longer asleep, and a value it takes is one less.
LEMMA ReceiverRuns ==
    ASSUME ChannelInv, NEW r \in Receivers, AtRecv(r)
    PROVE  Served(Resumed(not_empty, r), Receivers, Asleep(Receivers) \ {r}, closed,
                  Len(queue) - 1)
<1> USE ChannelAssumption
<1>1. TypeOK /\ Served(not_empty, Receivers, Asleep(Receivers), closed, Len(queue))
  BY DEF ChannelInv, Serving
<1>2. r \notin Asleep(Receivers) \/ r \in Woken(not_empty)
  BY DEF AtRecv, Asleep
<1>3. r \notin Waiting(not_empty)
  BY <1>1, <1>2, NotQueued
<1> QED BY <1>1, <1>3, Types, ServedResumed

\* sync_send.
LEMMA SendKeeps ==
    ASSUME ChannelInv, NEW s \in Senders, Send(s)
    PROVE  ChannelInv'
<1> USE ChannelAssumption
<1>0. /\ TypeOK /\ FifoQueue /\ Pending
      /\ Served(not_empty, Receivers, Asleep(Receivers), closed, Len(queue))
      /\ Served(not_full, Senders, Asleep(Senders), closed, Capacity - Len(queue))
      /\ AtSend(s)
  BY DEF ChannelInv, Serving, Send, SendClosed, SendWaits, SendPushes
<1>01. s \in Tasks /\ s \notin Receivers /\ Senders \subseteq Tasks /\ Receivers \subseteq Tasks
  BY DEF Tasks
<1> DEFINE m == Resumed(not_full, s)
           f == Capacity - Len(queue)
           v == <<s, sends[s] + 1>>
<1>02. /\ sends[s] + 1 \in 1..MaxSends
       /\ Served(m, Senders, Asleep(Senders) \ {s}, closed, f - 1)
       /\ f \in Int /\ f - 1 \in Int /\ closed \in BOOLEAN
  BY <1>0, SenderRuns, Types
<1> HIDE DEF m, f
<1>1. CASE SendClosed(s)
  <2>1. /\ closed
        /\ st' = [st EXCEPT ![s] = "idle"] /\ sends' = [sends EXCEPT ![s] = @ + 1]
        /\ not_full' = m
        /\ UNCHANGED <<queue, closed, not_empty, pushed, popped>>
    BY <1>1 DEF SendClosed, m
  <2>2. Asleep(Senders)' = Asleep(Senders) \ {s} /\ Asleep(Receivers)' = Asleep(Receivers)
    <3>1. TypeOK /\ st' = [st EXCEPT ![s] = "idle"]
      BY <1>0, <2>1
    <3> QED BY <1>01, <3>1 DEF TypeOK, Asleep
  <2>3. Served(m, Senders, Asleep(Senders) \ {s}, closed, f)
    BY <1>02, <2>1, ServedLess
  <2>4. Serving'
    BY <1>0, <2>1, <2>2, <2>3 DEF Serving, f
  <2>5. not_full' \in NotifyType(Senders)
    BY <2>1, <2>3 DEF Served
  <2>51. st' \in [Tasks -> {"idle", "waiting", "done"}] /\ sends' \in [Senders -> 0..MaxSends]
    BY <1>0, <1>01, <1>02, <2>1 DEF TypeOK
  <2>6. TypeOK'
    BY <1>0, <2>1, <2>5, <2>51 DEF TypeOK
  <2>7. Pending' /\ FifoQueue'
    BY <1>0, <1>01, <2>1 DEF Pending, FifoQueue, TypeOK
  <2> QED BY <2>4, <2>6, <2>7 DEF ChannelInv
<1>2. CASE SendWaits(s)
  <2>1. /\ closed = FALSE /\ Full
        /\ st' = [st EXCEPT ![s] = "waiting"]
        /\ not_full' = Park(m, s)
        /\ UNCHANGED <<queue, closed, not_empty, sends, pushed, popped>>
    BY <1>0, <1>2 DEF SendWaits, m, TypeOK
  <2>2. /\ Asleep(Senders)' = (Asleep(Senders) \ {s}) \union {s}
        /\ Asleep(Receivers)' = Asleep(Receivers)
    BY <1>0, <1>01, <2>1, AsleepStep
  <2>3. f <= 0
    BY <1>0, <2>1, Types DEF Full, f
  <2>4. Served(Park(m, s), Senders, (Asleep(Senders) \ {s}) \union {s}, FALSE, f)
    <3>1. Served(m, Senders, Asleep(Senders) \ {s}, FALSE, f - 1)
      BY <1>02, <2>1
    <3>2. s \notin Asleep(Senders) \ {s}
      OBVIOUS
    <3> QED BY <1>02, <2>3, <3>1, <3>2, ServedPark
  <2>5. Serving'
    BY <1>0, <2>1, <2>2, <2>4 DEF Serving, f
  <2>6. not_full' \in NotifyType(Senders)
    BY <2>1, <2>4 DEF Served
  <2>7. TypeOK'
    BY <1>0, <2>1, <2>6 DEF TypeOK
  <2>8. sends[s] < MaxSends
    BY <1>0 DEF AtSend, Pending
  <2>9. Pending' /\ FifoQueue'
    BY <1>0, <1>01, <2>1, <2>8 DEF Pending, FifoQueue, TypeOK
  <2> QED BY <2>5, <2>7, <2>9 DEF ChannelInv
<1>3. CASE SendPushes(s)
  <2>1. /\ ~Full
        /\ st' = [st EXCEPT ![s] = "idle"] /\ sends' = [sends EXCEPT ![s] = @ + 1]
        /\ queue' = Append(queue, v) /\ pushed' = Append(pushed, v)
        /\ not_empty' = NotifyOne(not_empty) /\ not_full' = m
        /\ UNCHANGED <<closed, popped>>
    BY <1>3 DEF SendPushes, m
  <2>2. Asleep(Senders)' = Asleep(Senders) \ {s} /\ Asleep(Receivers)' = Asleep(Receivers)
    <3>1. TypeOK /\ st' = [st EXCEPT ![s] = "idle"]
      BY <1>0, <2>1
    <3> QED BY <1>01, <3>1 DEF TypeOK, Asleep
  <2>3. v \in Values
    BY <1>02 DEF Values
  <2> HIDE DEF v
  <2>4. /\ queue' \in Seq(Values) /\ pushed' \in Seq(Values)
        /\ Len(queue') = Len(queue) + 1
    BY <1>0, <2>1, <2>3, Types
  <2>5. Served(NotifyOne(not_empty), Receivers, Asleep(Receivers), closed, Len(queue) + 1)
    BY <1>0, Types, ServedNotifyOne
  <2>6. f - 1 = Capacity - Len(queue')
    BY <1>0, <2>4, Types DEF f
  <2>7. Serving'
    BY <1>02, <2>1, <2>2, <2>4, <2>5, <2>6 DEF Serving
  <2>8. not_full' \in NotifyType(Senders) /\ not_empty' \in NotifyType(Receivers)
    BY <1>02, <2>1, <2>5 DEF Served
  <2>9. Capacity > 0 => Len(queue') <= Capacity
    BY <1>0, <2>1, <2>4, Types DEF Full
  <2>91. st' \in [Tasks -> {"idle", "waiting", "done"}] /\ sends' \in [Senders -> 0..MaxSends]
    BY <1>0, <1>01, <1>02, <2>1 DEF TypeOK
  <2>10. TypeOK'
    BY <1>0, <2>1, <2>4, <2>8, <2>9, <2>91 DEF TypeOK
  <2>11. FifoQueue'
    BY <1>0, <2>1, <2>3, FifoPush
  <2>12. Pending'
    BY <1>0, <1>01, <2>1 DEF Pending, TypeOK
  <2> QED BY <2>7, <2>10, <2>11, <2>12 DEF ChannelInv
<1> QED BY <1>1, <1>2, <1>3 DEF Send

\* sync_recv and sync_try_recv.
LEMMA RecvKeeps ==
    ASSUME ChannelInv, NEW r \in Receivers, Recv(r) \/ TryRecvPops(r)
    PROVE  ChannelInv'
<1> USE ChannelAssumption
<1> DEFINE m == Resumed(not_empty, r)
           f == Capacity - Len(queue)
<1>0. /\ TypeOK /\ FifoQueue /\ Pending
      /\ Served(not_empty, Receivers, Asleep(Receivers), closed, Len(queue))
      /\ Served(not_full, Senders, Asleep(Senders), closed, f)
      /\ AtRecv(r)
  BY DEF ChannelInv, Serving, Recv, RecvPops, RecvClosed, RecvWaits, TryRecvPops, AtRecv
<1>01. r \in Tasks /\ r \notin Senders /\ Senders \subseteq Tasks /\ Receivers \subseteq Tasks
  BY DEF Tasks
<1>02. /\ Served(m, Receivers, Asleep(Receivers) \ {r}, closed, Len(queue) - 1)
       /\ f \in Int /\ Len(queue) \in Int /\ Len(queue) - 1 \in Int /\ closed \in BOOLEAN
  BY <1>0, ReceiverRuns, Types
<1>03. ASSUME NEW p \in {"idle", "done"}, st' = [st EXCEPT ![r] = p]
       PROVE  /\ Asleep(Receivers)' = Asleep(Receivers) \ {r}
              /\ Asleep(Senders)' = Asleep(Senders)
              /\ st' \in [Tasks -> {"idle", "waiting", "done"}]
              /\ sends' = sends => Pending'
  BY <1>0, <1>01, <1>03 DEF TypeOK, Asleep, Pending
<1>04. ASSUME queue # <<>>, queue' = Tail(queue), popped' = Append(popped, Head(queue)),
              not_full' = NotifyOne(not_full), UNCHANGED <<closed, sends, pushed>>,
              Asleep(Senders)' = Asleep(Senders),
              Served(not_empty', Receivers, Asleep(Receivers)', closed, Len(queue) - 1),
              st' \in [Tasks -> {"idle", "waiting", "done"}], Pending'
       PROVE  ChannelInv'
  <2>1. /\ FifoQueue' /\ queue' \in Seq(Values) /\ popped' \in Seq(Values)
        /\ Len(queue') = Len(queue) - 1
    BY <1>0, <1>04, FifoPop
  <2>2. Served(NotifyOne(not_full), Senders, Asleep(Senders), closed, f + 1)
    BY <1>0, <1>02, ServedNotifyOne
  <2>3. f + 1 = Capacity - Len(queue')
    BY <1>02, <2>1
  <2> HIDE DEF f
  <2>4. Serving'
    BY <1>04, <2>1, <2>2, <2>3 DEF Serving
  <2>5. not_full' \in NotifyType(Senders) /\ not_empty' \in NotifyType(Receivers)
    BY <1>04, <2>2 DEF Served
  <2>6. Capacity > 0 => Len(queue') <= Capacity
    BY <1>0, <2>1 DEF TypeOK
  <2>7. TypeOK'
    BY <1>0, <1>04, <2>1, <2>5, <2>6 DEF TypeOK
  <2> QED BY <1>04, <2>1, <2>4, <2>7 DEF ChannelInv
<1> HIDE DEF m, f
<1>1. CASE RecvPops(r)
  <2>1. /\ queue # <<>> /\ queue' = Tail(queue) /\ popped' = Append(popped, Head(queue))
        /\ st' = [st EXCEPT ![r] = "idle"]
        /\ not_empty' = m /\ not_full' = NotifyOne(not_full)
        /\ UNCHANGED <<closed, sends, pushed>>
    BY <1>1 DEF RecvPops, m
  <2>2. /\ Asleep(Receivers)' = Asleep(Receivers) \ {r} /\ Asleep(Senders)' = Asleep(Senders)
        /\ st' \in [Tasks -> {"idle", "waiting", "done"}] /\ Pending'
    BY <1>03, <2>1
  <2> QED BY <1>02, <1>04, <2>1, <2>2
<1>2. CASE TryRecvPops(r)
  <2>1. /\ queue # <<>> /\ queue' = Tail(queue) /\ popped' = Append(popped, Head(queue))
        /\ st' = st /\ not_empty' = not_empty /\ not_full' = NotifyOne(not_full)
        /\ UNCHANGED <<closed, sends, pushed>>
    BY <1>2 DEF TryRecvPops
  <2>2. Served(not_empty, Receivers, Asleep(Receivers), closed, Len(queue) - 1)
    <3>1. Len(queue) - 1 <= Len(queue)
      BY <1>02
    <3> QED BY <1>0, <1>02, <3>1, ServedLess
  <2>3. /\ Asleep(Receivers)' = Asleep(Receivers) /\ Asleep(Senders)' = Asleep(Senders)
        /\ st' \in [Tasks -> {"idle", "waiting", "done"}] /\ Pending'
    BY <1>0, <2>1 DEF Asleep, TypeOK, Pending
  <2> QED BY <1>04, <2>1, <2>2, <2>3
<1>3. CASE RecvClosed(r)
  <2>1. /\ closed
        /\ st' = [st EXCEPT ![r] = "done"] /\ not_empty' = m
        /\ UNCHANGED <<queue, closed, not_full, sends, pushed, popped>>
    BY <1>3 DEF RecvClosed, m
  <2>2. /\ Asleep(Receivers)' = Asleep(Receivers) \ {r} /\ Asleep(Senders)' = Asleep(Senders)
        /\ st' \in [Tasks -> {"idle", "waiting", "done"}] /\ Pending'
    BY <1>03, <2>1
  <2>3. Served(m, Receivers, Asleep(Receivers) \ {r}, closed, Len(queue))
    BY <1>02, <2>1, ServedLess
  <2>4. Serving'
    BY <1>0, <2>1, <2>2, <2>3 DEF Serving, f
  <2>5. not_empty' \in NotifyType(Receivers)
    BY <2>1, <2>3 DEF Served
  <2>6. TypeOK'
    BY <1>0, <2>1, <2>2, <2>5 DEF TypeOK
  <2>7. FifoQueue'
    BY <1>0, <2>1 DEF FifoQueue
  <2> QED BY <2>2, <2>4, <2>6, <2>7 DEF ChannelInv
<1>4. CASE RecvWaits(r)
  <2>1. /\ queue = <<>> /\ closed = FALSE
        /\ st' = [st EXCEPT ![r] = "waiting"] /\ not_empty' = Park(m, r)
        /\ UNCHANGED <<queue, closed, not_full, sends, pushed, popped>>
    BY <1>02, <1>4 DEF RecvWaits, m
  <2>2. /\ Asleep(Receivers)' = (Asleep(Receivers) \ {r}) \union {r}
        /\ Asleep(Senders)' = Asleep(Senders)
        /\ st' \in [Tasks -> {"idle", "waiting", "done"}] /\ Pending'
    BY <1>0, <1>01, <2>1 DEF TypeOK, Asleep, Pending
  <2>3. Served(Park(m, r), Receivers, (Asleep(Receivers) \ {r}) \union {r}, FALSE, Len(queue))
    <3>1. Served(m, Receivers, Asleep(Receivers) \ {r}, FALSE, Len(queue) - 1)
      BY <1>02, <2>1
    <3>2. r \notin Asleep(Receivers) \ {r} /\ Len(queue) <= 0
      BY <2>1
    <3> QED BY <1>02, <3>1, <3>2, ServedPark
  <2>4. Serving'
    BY <1>0, <2>1, <2>2, <2>3 DEF Serving, f
  <2>5. not_empty' \in NotifyType(Receivers)
    BY <2>1, <2>3 DEF Served
  <2>6. TypeOK'
    BY <1>0, <2>1, <2>2, <2>5 DEF TypeOK
  <2>7. FifoQueue'
    BY <1>0, <2>1 DEF FifoQueue
  <2> QED BY <2>2, <2>4, <2>6, <2>7 DEF ChannelInv
<1> QED BY <1>1, <1>2, <1>3, <1>4 DEF Recv

\* Every step of send, recv, close and the executor keeps it.
LEMMA ChannelNext == ChannelInv /\ [Next]_vars => ChannelInv'
<1> SUFFICES ASSUME ChannelInv, [Next]_vars PROVE ChannelInv'
  OBVIOUS
<1> USE ChannelAssumption
<1> DEFINE f == Capacity - Len(queue)
<1>0. /\ TypeOK /\ FifoQueue /\ Pending
      /\ Served(not_empty, Receivers, Asleep(Receivers), closed, Len(queue))
      /\ Served(not_full, Senders, Asleep(Senders), closed, f)
  BY DEF ChannelInv, Serving
<1>01. f \in Int /\ Len(queue) \in Int /\ closed \in BOOLEAN
  BY <1>0, Types
<1>1. ASSUME NEW t \in Tasks, Cancel(t) PROVE ChannelInv'
  <2>1. /\ st' = [st EXCEPT ![t] = "done"]
        /\ not_empty' = Withdraw(not_empty, t) /\ not_full' = Withdraw(not_full, t)
        /\ UNCHANGED <<queue, closed, sends, pushed, popped>>
    BY <1>1 DEF Cancel
  <2>2. /\ Asleep(Receivers)' = Asleep(Receivers) \ {t}
        /\ Asleep(Senders)' = Asleep(Senders) \ {t}
        /\ st' \in [Tasks -> {"idle", "waiting", "done"}] /\ Pending'
    BY <1>0, <2>1 DEF TypeOK, Asleep, Pending, Tasks
  <2>3. Served(not_empty', Receivers, Asleep(Receivers) \ {t}, closed, Len(queue))
    BY <1>0, <1>01, <2>1, ServedWithdraw
  <2>4. Served(not_full', Senders, Asleep(Senders) \ {t}, closed, f)
    BY <1>0, <1>01, <2>1, ServedWithdraw
  <2>5. Serving'
    BY <2>1, <2>2, <2>3, <2>4 DEF Serving
  <2>6. not_full' \in NotifyType(Senders) /\ not_empty' \in NotifyType(Receivers)
    BY <2>3, <2>4 DEF Served
  <2>7. TypeOK'
    BY <1>0, <2>1, <2>2, <2>6 DEF TypeOK
  <2>8. FifoQueue'
    BY <1>0, <2>1 DEF FifoQueue
  <2> QED BY <2>2, <2>5, <2>7, <2>8 DEF ChannelInv
<1>2. CASE Close
  <2>1. /\ closed' = TRUE
        /\ not_empty' = NotifyWaiters(not_empty) /\ not_full' = NotifyWaiters(not_full)
        /\ UNCHANGED <<queue, st, sends, pushed, popped>>
    BY <1>2 DEF Close
  <2>2. /\ Served(not_empty', Receivers, Asleep(Receivers), TRUE, Len(queue))
        /\ Served(not_full', Senders, Asleep(Senders), TRUE, f)
    BY <1>0, <2>1, ServedClose
  <2>3. Asleep(Receivers)' = Asleep(Receivers) /\ Asleep(Senders)' = Asleep(Senders) /\ Pending'
    BY <1>0, <2>1 DEF Asleep, Pending
  <2>4. Serving'
    BY <2>1, <2>2, <2>3 DEF Serving
  <2>5. not_full' \in NotifyType(Senders) /\ not_empty' \in NotifyType(Receivers)
    BY <2>2 DEF Served
  <2>6. closed' \in BOOLEAN
    BY <2>1
  <2>7. TypeOK'
    BY <1>0, <2>1, <2>5, <2>6 DEF TypeOK
  <2>8. FifoQueue'
    BY <1>0, <2>1 DEF FifoQueue
  <2> QED BY <2>3, <2>4, <2>7, <2>8 DEF ChannelInv
<1>3. CASE UNCHANGED vars
  <2>1. Asleep(Receivers)' = Asleep(Receivers) /\ Asleep(Senders)' = Asleep(Senders) /\ Pending'
    BY <1>0, <1>3 DEF vars, Asleep, Pending
  <2>2. Serving'
    BY <1>0, <1>3, <2>1 DEF vars, Serving
  <2>3. TypeOK' /\ FifoQueue'
    BY <1>0, <1>3 DEF vars, TypeOK, FifoQueue
  <2> QED BY <2>1, <2>2, <2>3 DEF ChannelInv
<1> QED BY <1>1, <1>2, <1>3, SendKeeps, RecvKeeps DEF Next

\* The channel of std/sync is a bounded FIFO queue on which no wake-up is lost
\* (ChannelSound; sync_send, sync_recv, sync_try_recv, sync_close and the drop of a
\* waiting future), for any number of tasks and any capacity: it never holds more
\* than its capacity, values leave it in the order they entered, and no task sleeps
\* while there is more to take than the woken tasks can take, or after the close.
THEOREM ChannelCorrect == Spec => []ChannelSound
<1>1. ChannelInv => ChannelSound
  BY DEF ChannelInv, Serving, Served, ChannelSound, NobodyStranded
<1> QED BY <1>1, ChannelInit, ChannelNext, PTL DEF Spec
=============================================================================
