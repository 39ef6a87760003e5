---------------------------- MODULE NotifyProofs ----------------------------
(***************************************************************************)
(* What the operations of a Notify do to the tasks that wait and to the    *)
(* tasks that are woken, for any set of tasks.                             *)
(***************************************************************************)
EXTENDS Notify, FiniteSetTheorems, TLAPS

\* A task is in the queue once at most, and not while it is woken.
Orderly(n) ==
    /\ \A i, j \in 1..Len(n.waiters) : n.waiters[i] = n.waiters[j] => i = j
    /\ \A i \in 1..Len(n.waiters) : n.waiters[i] \notin n.one /\ n.waiters[i] \notin n.all

\* A new Notify is empty.
LEMMA NewNotifyOK ==
    ASSUME NEW T
    PROVE  /\ NewNotify \in NotifyType(T)
           /\ Orderly(NewNotify)
           /\ Waiting(NewNotify) = {}
           /\ Woken(NewNotify) = {}
BY DEF NewNotify, NotifyType, Orderly, Waiting, Woken

\* A queue is empty when nobody waits in it.
LEMMA NobodyWaits ==
    ASSUME NEW T, NEW n \in NotifyType(T)
    PROVE  /\ Waiting(n) = {} <=> n.waiters = <<>>
           /\ Waiting(n) \subseteq T
           /\ Woken(n) \subseteq T
<1>1. n.waiters \in Seq(T) /\ n.one \subseteq T /\ n.all \subseteq T
  BY DEF NotifyType
<1>2. Len(n.waiters) \in Nat /\ \A i \in 1..Len(n.waiters) : n.waiters[i] \in T
  BY <1>1
<1>3. Waiting(n) = {} => n.waiters = <<>>
  <2> SUFFICES ASSUME n.waiters # <<>> PROVE n.waiters[1] \in Waiting(n)
    OBVIOUS
  <2>1. 1 \in 1..Len(n.waiters)
    BY <1>1
  <2> QED BY <2>1 DEF Waiting
<1>4. n.waiters = <<>> => Waiting(n) = {}
  BY DEF Waiting
<1> QED BY <1>1, <1>2, <1>3, <1>4 DEF Waiting, Woken

\* notify_one moves the oldest waiter to the woken tasks, if there is one.
LEMMA NotifyOneOK ==
    ASSUME NEW T, NEW n \in NotifyType(T), Orderly(n)
    PROVE  /\ NotifyOne(n) \in NotifyType(T)
           /\ Orderly(NotifyOne(n))
           /\ NotifyOne(n).all = n.all
           /\ \/ /\ Waiting(n) = {}
                 /\ Waiting(NotifyOne(n)) = {}
                 /\ NotifyOne(n).one = n.one
              \/ /\ Waiting(n) # {}
                 /\ Head(n.waiters) \in Waiting(n)
                 /\ Head(n.waiters) \notin Woken(n)
                 /\ Waiting(NotifyOne(n)) = Waiting(n) \ {Head(n.waiters)}
                 /\ NotifyOne(n).one = n.one \union {Head(n.waiters)}
<1>1. CASE n.waiters = <<>>
  <2>1. NotifyOne(n) = [n EXCEPT !.permit = TRUE]
    BY <1>1 DEF NotifyOne
  <2>2. /\ NotifyOne(n).waiters = <<>>
        /\ NotifyOne(n).one = n.one
        /\ NotifyOne(n).all = n.all
        /\ NotifyOne(n) \in NotifyType(T)
    BY <1>1, <2>1 DEF NotifyType
  <2> QED BY <1>1, <2>2 DEF Orderly, Waiting
<1>2. CASE n.waiters # <<>>
  <2> DEFINE w == n.waiters
             m == NotifyOne(n)
  <2>1. /\ m = [n EXCEPT !.waiters = Tail(w), !.one = n.one \union {Head(w)}]
        /\ m.waiters = Tail(w)
        /\ m.one = n.one \union {Head(w)}
        /\ m.all = n.all
        /\ m.permit = n.permit
    BY <1>2 DEF NotifyOne, NotifyType
  <2>2. /\ w \in Seq(T) /\ Len(w) \in Nat /\ Len(w) > 0
        /\ Head(w) \in T /\ Head(w) = w[1]
        /\ Tail(w) \in Seq(T)
        /\ Len(Tail(w)) = Len(w) - 1
        /\ \A i \in 1..Len(w) - 1 : Tail(w)[i] = w[i + 1]
    BY <1>2 DEF NotifyType
  <2>3. m \in NotifyType(T)
    BY <2>1, <2>2 DEF NotifyType
  <2> HIDE DEF w, m
  <2>4. \A i \in 1..Len(w) : w[i] = Head(w) => i = 1
    BY <2>2 DEF Orderly, w
  <2>5. Orderly(m)
    <3>1. \A i, j \in 1..Len(w) : w[i] = w[j] => i = j
      BY DEF Orderly, w
    <3>2. \A i \in 1..Len(w) : w[i] \notin n.one /\ w[i] \notin n.all
      BY DEF Orderly, w
    <3>3. ASSUME NEW i \in 1..Len(m.waiters), NEW j \in 1..Len(m.waiters),
                 m.waiters[i] = m.waiters[j]
          PROVE  i = j
      BY <2>1, <2>2, <3>1, <3>3
    <3>4. ASSUME NEW i \in 1..Len(m.waiters)
          PROVE  m.waiters[i] \notin m.one /\ m.waiters[i] \notin m.all
      BY <2>1, <2>2, <2>4, <3>2
    <3> QED BY <3>3, <3>4 DEF Orderly
  <2>6. Waiting(m) = Waiting(n) \ {Head(w)}
    <3>1. ASSUME NEW x PROVE x \in Waiting(m) => x \in Waiting(n) \ {Head(w)}
      BY <2>1, <2>2, <2>4 DEF Waiting, w
    <3>2. ASSUME NEW x \in Waiting(n), x # Head(w) PROVE x \in Waiting(m)
      <4>1. PICK i \in 1..Len(w) : x = w[i]
        BY DEF Waiting, w
      <4>2. i # 1 /\ i - 1 \in 1..Len(w) - 1 /\ Tail(w)[i - 1] = w[i]
        BY <2>2, <3>2, <4>1
      <4> QED BY <2>1, <2>2, <4>1, <4>2 DEF Waiting
    <3> QED BY <3>1, <3>2
  <2>7. Head(w) \in Waiting(n) /\ Head(w) \notin Woken(n)
    BY <2>2 DEF Waiting, Woken, Orderly, w
  <2> QED BY <2>1, <2>3, <2>5, <2>6, <2>7 DEF w, m
<1> QED BY <1>1, <1>2

\* notify_waiters wakes everybody.
LEMMA NotifyWaitersOK ==
    ASSUME NEW T, NEW n \in NotifyType(T)
    PROVE  /\ NotifyWaiters(n) \in NotifyType(T)
           /\ Orderly(NotifyWaiters(n))
           /\ Waiting(NotifyWaiters(n)) = {}
           /\ Woken(NotifyWaiters(n)) = Woken(n) \union Waiting(n)
<1>1. Waiting(n) \subseteq T
  BY NobodyWaits
<1>2. <<>> \in Seq(T) /\ n.all \union Waiting(n) \in SUBSET T
  BY <1>1 DEF NotifyType
<1>3. /\ NotifyWaiters(n).waiters = <<>>
      /\ NotifyWaiters(n).one = n.one
      /\ NotifyWaiters(n).all = n.all \union Waiting(n)
      /\ NotifyWaiters(n) \in NotifyType(T)
  BY <1>2 DEF NotifyWaiters, NotifyType
<1> QED BY <1>3 DEF Orderly, Waiting, Woken

\* A woken task that runs is woken no more.
LEMMA ResumedOK ==
    ASSUME NEW T, NEW n \in NotifyType(T), Orderly(n), NEW t
    PROVE  /\ Resumed(n, t) \in NotifyType(T)
           /\ Orderly(Resumed(n, t))
           /\ Waiting(Resumed(n, t)) = Waiting(n)
           /\ Woken(Resumed(n, t)) = Woken(n) \ {t}
           /\ Resumed(n, t).one = n.one \ {t}
           /\ Resumed(n, t).all = n.all \ {t}
BY DEF Resumed, NotifyType, Orderly, Waiting, Woken

\* A task that is neither waiting nor woken joins the queue.
LEMMA ParkOK ==
    ASSUME NEW T, NEW n \in NotifyType(T), Orderly(n), NEW t \in T,
           t \notin Waiting(n), t \notin Woken(n)
    PROVE  /\ Park(n, t) \in NotifyType(T)
           /\ Orderly(Park(n, t))
           /\ Waiting(Park(n, t)) = Waiting(n) \union {t}
           /\ Woken(Park(n, t)) = Woken(n)
           /\ Park(n, t).one = n.one
           /\ Park(n, t).all = n.all
<1> DEFINE w == n.waiters
           m == Park(n, t)
<1>1. /\ m.waiters = Append(w, t)
      /\ m.one = n.one
      /\ m.all = n.all
      /\ m \in NotifyType(T)
  <2>1. Append(w, t) \in Seq(T)
    BY DEF NotifyType
  <2> QED BY <2>1 DEF Park, NotifyType
<1>2. /\ w \in Seq(T) /\ Len(w) \in Nat
      /\ Len(Append(w, t)) = Len(w) + 1
      /\ \A i \in 1..Len(w) : Append(w, t)[i] = w[i]
      /\ Append(w, t)[Len(w) + 1] = t
  BY DEF NotifyType
<1> HIDE DEF w, m
<1>3. \A i \in 1..Len(w) : w[i] # t
  BY DEF Waiting, w
<1>4. Orderly(m)
  <2>1. ASSUME NEW i \in 1..Len(m.waiters)
        PROVE  \/ i \in 1..Len(w) /\ m.waiters[i] = w[i]
               \/ i = Len(w) + 1 /\ m.waiters[i] = t
    BY <1>1, <1>2
  <2>2. /\ \A i, j \in 1..Len(w) : w[i] = w[j] => i = j
        /\ \A i \in 1..Len(w) : w[i] \notin n.one /\ w[i] \notin n.all
    BY DEF Orderly, w
  <2>3. t \notin n.one /\ t \notin n.all
    BY DEF Woken
  <2>4. ASSUME NEW i \in 1..Len(m.waiters), NEW j \in 1..Len(m.waiters),
               m.waiters[i] = m.waiters[j]
        PROVE  i = j
    BY <1>3, <2>1, <2>2, <2>4
  <2>5. ASSUME NEW i \in 1..Len(m.waiters)
        PROVE  m.waiters[i] \notin m.one /\ m.waiters[i] \notin m.all
    BY <1>1, <2>1, <2>2, <2>3
  <2> QED BY <2>4, <2>5 DEF Orderly
<1>5. Waiting(m) = Waiting(n) \union {t}
  <2>1. ASSUME NEW x \in Waiting(m) PROVE x \in Waiting(n) \union {t}
    BY <1>1, <1>2 DEF Waiting, w
  <2>2. ASSUME NEW x \in Waiting(n) PROVE x \in Waiting(m)
    <3>1. PICK i \in 1..Len(w) : x = w[i]
      BY DEF Waiting, w
    <3>2. i \in 1..Len(m.waiters) /\ m.waiters[i] = w[i]
      BY <1>1, <1>2
    <3> QED BY <3>1, <3>2 DEF Waiting
  <2>3. t \in Waiting(m)
    <3>1. Len(w) + 1 \in 1..Len(m.waiters) /\ m.waiters[Len(w) + 1] = t
      BY <1>1, <1>2
    <3> QED BY <3>1 DEF Waiting
  <2> QED BY <2>1, <2>2, <2>3
<1>6. Woken(m) = Woken(n)
  BY <1>1 DEF Woken
<1> QED BY <1>1, <1>4, <1>5, <1>6 DEF m

Members(s) == {s[i] : i \in 1..Len(s)}
Distinct(s) == \A i, j \in 1..Len(s) : s[i] = s[j] => i = j

\* Taking a task out of the queue leaves the others.
LEMMA WithoutOK ==
    ASSUME NEW T, NEW s \in Seq(T), NEW t, Distinct(s)
    PROVE  /\ Without(s, t) \in Seq(T)
           /\ Distinct(Without(s, t))
           /\ Members(Without(s, t)) = Members(s) \ {t}
<1>1. CASE \A i \in 1..Len(s) : s[i] # t
  <2>1. Without(s, t) = s
    BY <1>1 DEF Without
  <2>2. t \notin Members(s)
    BY <1>1 DEF Members
  <2> QED BY <2>1, <2>2
<1>2. CASE \E i \in 1..Len(s) : s[i] = t
  <2> DEFINE k == CHOOSE i \in 1..Len(s) : s[i] = t
             u == [i \in 1..Len(s) - 1 |-> IF i < k THEN s[i] ELSE s[i + 1]]
  <2>1. Without(s, t) = u
    BY <1>2 DEF Without
  <2>2. k \in 1..Len(s) /\ s[k] = t
    BY <1>2
  <2> HIDE DEF k
  <2>3. Len(s) \in Nat /\ Len(s) - 1 \in Nat /\ \A i \in 1..Len(s) : s[i] \in T
    BY <2>2
  <2>4. u \in Seq(T)
    <3>1. \A i \in 1..Len(s) - 1 : (IF i < k THEN s[i] ELSE s[i + 1]) \in T
      BY <2>2, <2>3
    <3> QED BY <2>3, <3>1
  <2>5. Len(u) = Len(s) - 1
    BY <2>3
  <2>6. \A i \in 1..Len(s) - 1 : u[i] = IF i < k THEN s[i] ELSE s[i + 1]
    OBVIOUS
  <2> HIDE DEF u
  <2>7. Distinct(u)
    <3> SUFFICES ASSUME NEW i \in 1..Len(u), NEW j \in 1..Len(u), u[i] = u[j]
                 PROVE  i = j
      BY DEF Distinct
    <3>1. i \in 1..Len(s) - 1 /\ j \in 1..Len(s) - 1
      BY <2>5
    <3>2. PICK a \in 1..Len(s) : u[i] = s[a] /\ a = IF i < k THEN i ELSE i + 1
      BY <2>2, <2>3, <2>6, <3>1
    <3>3. PICK b \in 1..Len(s) : u[j] = s[b] /\ b = IF j < k THEN j ELSE j + 1
      BY <2>2, <2>3, <2>6, <3>1
    <3>4. a = b
      BY <3>2, <3>3 DEF Distinct
    <3> QED BY <2>2, <2>3, <3>1, <3>2, <3>3, <3>4
  <2>8. ASSUME NEW x \in Members(u) PROVE x \in Members(s) \ {t}
    BY <2>2, <2>3, <2>5, <2>6 DEF Members, Distinct
  <2>9. ASSUME NEW x \in Members(s) \ {t} PROVE x \in Members(u)
    <3>1. PICK i \in 1..Len(s) : x = s[i]
      BY DEF Members
    <3>2. CASE i < k
      BY <2>2, <2>3, <2>5, <2>6, <3>1, <3>2 DEF Members
    <3>3. CASE i > k
      <4>1. i - 1 \in 1..Len(u) /\ u[i - 1] = s[i]
        BY <2>2, <2>3, <2>5, <2>6, <3>3
      <4> QED BY <3>1, <4>1 DEF Members
    <3> QED BY <2>2, <2>3, <3>1, <3>2, <3>3
  <2>10. Members(u) = Members(s) \ {t}
    BY <2>8, <2>9, Zenon
  <2> QED BY <2>1, <2>4, <2>7, <2>10, Zenon
<1> QED BY <1>1, <1>2

\* A task that is cancelled is neither waiting nor woken; a wake-up of its own
\* goes to the oldest waiter, if there is one.
LEMMA WithdrawOK ==
    ASSUME NEW T, NEW n \in NotifyType(T), Orderly(n), NEW t
    PROVE  /\ Withdraw(n, t) \in NotifyType(T)
           /\ Orderly(Withdraw(n, t))
           /\ Withdraw(n, t).all = n.all \ {t}
           /\ \/ /\ t \notin n.one \/ Waiting(n) \ {t} = {}
                 /\ Waiting(Withdraw(n, t)) = Waiting(n) \ {t}
                 /\ Withdraw(n, t).one = n.one \ {t}
              \/ /\ t \in n.one
                 /\ \E u \in Waiting(n) \ {t} :
                       /\ u \notin Woken(n)
                       /\ Waiting(Withdraw(n, t)) = Waiting(n) \ {t, u}
                       /\ Withdraw(n, t).one = (n.one \ {t}) \union {u}
<1> DEFINE left == [n EXCEPT !.waiters = Without(n.waiters, t), !.one = n.one \ {t},
                             !.all = n.all \ {t}]
<1>1. /\ n.waiters \in Seq(T)
      /\ Distinct(n.waiters)
      /\ Waiting(n) = Members(n.waiters)
  BY DEF NotifyType, Orderly, Distinct, Waiting, Members
<1>2. /\ Without(n.waiters, t) \in Seq(T)
      /\ Distinct(Without(n.waiters, t))
      /\ Members(Without(n.waiters, t)) = Waiting(n) \ {t}
  BY <1>1, WithoutOK
<1>3. /\ left.waiters = Without(n.waiters, t)
      /\ left.one = n.one \ {t}
      /\ left.all = n.all \ {t}
      /\ left \in NotifyType(T)
  BY <1>2 DEF NotifyType
<1>4. Withdraw(n, t) = IF t \in n.one THEN NotifyOne(left) ELSE left
  BY DEF Withdraw
<1> HIDE DEF left
<1>5. Waiting(left) = Waiting(n) \ {t}
  <2>1. Waiting(left) = Members(left.waiters)
    BY DEF Waiting, Members
  <2> QED BY <1>2, <1>3, <2>1
<1>6. Orderly(left)
  <2>1. ASSUME NEW x \in Waiting(n) PROVE x \notin n.one /\ x \notin n.all
    BY DEF Waiting, Orderly
  <2>2. ASSUME NEW i \in 1..Len(left.waiters) PROVE left.waiters[i] \in Waiting(n) \ {t}
    BY <1>5 DEF Waiting
  <2>3. Distinct(left.waiters)
    BY <1>2, <1>3
  <2> QED BY <1>3, <2>1, <2>2, <2>3 DEF Orderly, Distinct
<1>7. CASE t \notin n.one
  BY <1>3, <1>4, <1>5, <1>6, <1>7
<1>8. CASE t \in n.one
  <2>1. Withdraw(n, t) = NotifyOne(left)
    BY <1>4, <1>8
  <2> DEFINE u == Head(left.waiters)
  <2>2. /\ NotifyOne(left) \in NotifyType(T)
        /\ Orderly(NotifyOne(left))
        /\ NotifyOne(left).all = left.all
        /\ \/ /\ Waiting(left) = {}
              /\ Waiting(NotifyOne(left)) = {}
              /\ NotifyOne(left).one = left.one
           \/ /\ u \in Waiting(left)
              /\ Waiting(NotifyOne(left)) = Waiting(left) \ {u}
              /\ NotifyOne(left).one = left.one \union {u}
    BY <1>3, <1>6, NotifyOneOK
  <2> HIDE DEF u
  <2>3. CASE Waiting(left) = {}
    BY <1>3, <1>5, <2>1, <2>2, <2>3
  <2>4. CASE Waiting(left) # {}
    <3>1. /\ u \in Waiting(n) \ {t}
          /\ Waiting(Withdraw(n, t)) = Waiting(n) \ {t, u}
          /\ Withdraw(n, t).one = (n.one \ {t}) \union {u}
      BY <1>3, <1>5, <2>1, <2>2, <2>4
    <3>2. u \notin Woken(n)
      BY <3>1 DEF Waiting, Woken, Orderly
    <3> QED BY <1>3, <1>8, <2>1, <2>2, <3>1, <3>2
  <2> QED BY <2>3, <2>4
<1> QED BY <1>7, <1>8

(***************************************************************************)
(* What keeps the users of a Notify from sleeping through a wake-up.  The  *)
(* tasks W of T wait for one of k things; cl says that the Notify has been *)
(* closed with notify_waiters.                                             *)
(***************************************************************************)

\* Exactly the tasks of W are queued or woken; while one is still queued, each of
\* the k things is some woken task's to take; after the close nobody is queued.
Served(n, T, W, cl, k) ==
    /\ n \in NotifyType(T)
    /\ Orderly(n)
    /\ Waiting(n) \union Woken(n) = W
    /\ ~cl => n.all = {}
    /\ Waiting(n) # {} => ~cl /\ k <= Cardinality(Woken(n))

\* The woken tasks are finitely many.
LEMMA WokenFinite ==
    ASSUME NEW T, IsFiniteSet(T), NEW n \in NotifyType(T)
    PROVE  IsFiniteSet(Woken(n)) /\ Cardinality(Woken(n)) \in Nat
<1>1. Woken(n) \in SUBSET T
  BY NobodyWaits
<1> QED BY <1>1, FS_Subset, FS_CardinalityType

\* A new Notify serves nobody.
LEMMA ServedNew == ASSUME NEW T, NEW k PROVE Served(NewNotify, T, {}, FALSE, k)
BY NewNotifyOK DEF Served, NewNotify

\* One thing more, and notify_one.
LEMMA ServedNotifyOne ==
    ASSUME NEW T, IsFiniteSet(T), NEW n, NEW W, NEW cl \in BOOLEAN, NEW k \in Int,
           Served(n, T, W, cl, k)
    PROVE  Served(NotifyOne(n), T, W, cl, k + 1)
<1> DEFINE m == NotifyOne(n)
           h == Head(n.waiters)
<1>0. /\ n \in NotifyType(T) /\ Orderly(n) /\ Waiting(n) \union Woken(n) = W
      /\ ~cl => n.all = {}
      /\ Waiting(n) # {} => ~cl /\ k <= Cardinality(Woken(n))
  BY DEF Served
<1>1. /\ m \in NotifyType(T) /\ Orderly(m) /\ m.all = n.all
      /\ \/ Waiting(n) = {} /\ Waiting(m) = {} /\ m.one = n.one
         \/ /\ Waiting(n) # {} /\ h \in Waiting(n) /\ h \notin Woken(n)
            /\ Waiting(m) = Waiting(n) \ {h}
            /\ m.one = n.one \union {h}
  BY <1>0, NotifyOneOK
<1> HIDE DEF m, h
<1>2. CASE Waiting(n) = {}
  <2>1. Waiting(m) = {} /\ Woken(m) = Woken(n)
    BY <1>1, <1>2 DEF Woken
  <2> QED BY <1>0, <1>1, <1>2, <2>1 DEF Served, m
<1>3. CASE Waiting(n) # {}
  <2>1. /\ h \in Waiting(n) /\ h \notin Woken(n)
        /\ Waiting(m) = Waiting(n) \ {h} /\ Woken(m) = Woken(n) \union {h}
    BY <1>1, <1>3 DEF Woken
  <2>2. Waiting(m) \union Woken(m) = W
    BY <1>0, <2>1
  <2>3. Cardinality(Woken(m)) = Cardinality(Woken(n)) + 1 /\ Cardinality(Woken(n)) \in Nat
    BY <1>0, <2>1, WokenFinite, FS_AddElement
  <2>4. k + 1 <= Cardinality(Woken(m))
    BY <1>0, <1>3, <2>3
  <2> QED BY <1>0, <1>1, <1>3, <2>2, <2>4 DEF Served, m
<1> QED BY <1>2, <1>3

\* A task that is not queued runs and takes one of the things.
LEMMA ServedResumed ==
    ASSUME NEW T, IsFiniteSet(T), NEW n, NEW W, NEW cl \in BOOLEAN, NEW k \in Int,
           Served(n, T, W, cl, k), NEW t, t \notin Waiting(n)
    PROVE  Served(Resumed(n, t), T, W \ {t}, cl, k - 1)
<1> DEFINE m == Resumed(n, t)
<1>0. /\ n \in NotifyType(T) /\ Orderly(n) /\ Waiting(n) \union Woken(n) = W
      /\ ~cl => n.all = {}
      /\ Waiting(n) # {} => ~cl /\ k <= Cardinality(Woken(n))
  BY DEF Served
<1>1. /\ m \in NotifyType(T) /\ Orderly(m) /\ m.all = n.all \ {t}
      /\ Waiting(m) = Waiting(n) /\ Woken(m) = Woken(n) \ {t}
  BY <1>0, ResumedOK
<1> HIDE DEF m
<1>2. Waiting(m) \union Woken(m) = W \ {t}
  BY <1>0, <1>1
<1>3. Cardinality(Woken(n)) \in Nat /\ IsFiniteSet(Woken(n))
  BY <1>0, WokenFinite
<1>4. Cardinality(Woken(m)) = IF t \in Woken(n) THEN Cardinality(Woken(n)) - 1
                              ELSE Cardinality(Woken(n))
  BY <1>1, <1>3, FS_RemoveElement
<1>5. k <= Cardinality(Woken(n)) => k - 1 <= Cardinality(Woken(m))
  BY <1>3, <1>4
<1> QED BY <1>0, <1>1, <1>2, <1>5 DEF Served, m

\* A task that finds nothing to take queues.
LEMMA ServedPark ==
    ASSUME NEW T, IsFiniteSet(T), NEW n, NEW W, NEW k \in Int, NEW j \in Int, j <= 0,
           Served(n, T, W, FALSE, k), NEW t \in T, t \notin W
    PROVE  Served(Park(n, t), T, W \union {t}, FALSE, j)
<1> DEFINE m == Park(n, t)
<1>0. n \in NotifyType(T) /\ Orderly(n) /\ Waiting(n) \union Woken(n) = W /\ n.all = {}
  BY DEF Served
<1>1. t \notin Waiting(n) /\ t \notin Woken(n)
  BY <1>0
<1>2. /\ m \in NotifyType(T) /\ Orderly(m) /\ m.all = n.all
      /\ Waiting(m) = Waiting(n) \union {t} /\ Woken(m) = Woken(n)
  BY <1>0, <1>1, ParkOK
<1> HIDE DEF m
<1>3. Waiting(m) \union Woken(m) = W \union {t}
  BY <1>0, <1>2
<1>4. j <= Cardinality(Woken(m))
  BY <1>2, WokenFinite
<1> QED BY <1>0, <1>2, <1>3, <1>4 DEF Served, m

\* A task is cancelled: the others are served as before.
LEMMA ServedWithdraw ==
    ASSUME NEW T, IsFiniteSet(T), NEW n, NEW W, NEW cl \in BOOLEAN, NEW k \in Int,
           Served(n, T, W, cl, k), NEW t
    PROVE  Served(Withdraw(n, t), T, W \ {t}, cl, k)
<1> DEFINE m == Withdraw(n, t)
<1>0. /\ n \in NotifyType(T) /\ Orderly(n) /\ Waiting(n) \union Woken(n) = W
      /\ ~cl => n.all = {}
      /\ Waiting(n) # {} => ~cl /\ k <= Cardinality(Woken(n))
  BY DEF Served
<1>1. /\ m \in NotifyType(T) /\ Orderly(m) /\ m.all = n.all \ {t}
      /\ \/ /\ t \notin n.one \/ Waiting(n) \ {t} = {}
            /\ Waiting(m) = Waiting(n) \ {t}
            /\ m.one = n.one \ {t}
         \/ /\ t \in n.one
            /\ \E u \in Waiting(n) \ {t} :
                  /\ u \notin Woken(n)
                  /\ Waiting(m) = Waiting(n) \ {t, u}
                  /\ m.one = (n.one \ {t}) \union {u}
  BY <1>0, WithdrawOK
<1> HIDE DEF m
<1>2. ~cl => m.all = {}
  BY <1>0, <1>1
<1>3. CASE /\ t \notin n.one \/ Waiting(n) \ {t} = {}
           /\ Waiting(m) = Waiting(n) \ {t}
           /\ m.one = n.one \ {t}
  <2>1. Waiting(m) \union Woken(m) = W \ {t}
    BY <1>0, <1>1, <1>3 DEF Woken
  <2>2. Waiting(m) # {} => ~cl /\ Woken(m) = Woken(n) /\ Waiting(n) # {}
    BY <1>0, <1>1, <1>3 DEF Woken
  <2>3. Waiting(m) # {} => ~cl /\ k <= Cardinality(Woken(m))
    BY <1>0, <2>2
  <2> QED BY <1>1, <1>2, <2>1, <2>3 DEF Served, m
<1>4. CASE /\ t \in n.one
           /\ \E u \in Waiting(n) \ {t} :
                 /\ u \notin Woken(n)
                 /\ Waiting(m) = Waiting(n) \ {t, u}
                 /\ m.one = (n.one \ {t}) \union {u}
  <2>1. PICK u \in Waiting(n) \ {t} : /\ u \notin Woken(n)
                                      /\ Waiting(m) = Waiting(n) \ {t, u}
                                      /\ m.one = (n.one \ {t}) \union {u}
    BY <1>4
  <2>2. t \in Woken(n) /\ Woken(m) = (Woken(n) \ {t}) \union {u}
    BY <1>1, <1>4, <2>1 DEF Woken
  <2>3. Waiting(m) \union Woken(m) = W \ {t}
    BY <1>0, <2>1, <2>2
  <2>4. Cardinality(Woken(n)) \in Nat /\ IsFiniteSet(Woken(n))
    BY <1>0, WokenFinite
  <2>5. /\ IsFiniteSet(Woken(n) \ {t})
        /\ Cardinality(Woken(n) \ {t}) = Cardinality(Woken(n)) - 1
    BY <2>2, <2>4, FS_RemoveElement
  <2>6. Cardinality(Woken(m)) = Cardinality(Woken(n) \ {t}) + 1
    BY <2>1, <2>2, <2>5, FS_AddElement
  <2>7. ~cl /\ k <= Cardinality(Woken(m))
    BY <1>0, <2>1, <2>4, <2>5, <2>6
  <2> QED BY <1>1, <1>2, <2>3, <2>7 DEF Served, m
<1> QED BY <1>1, <1>3, <1>4

\* The close wakes everybody.
LEMMA ServedClose ==
    ASSUME NEW T, NEW n, NEW W, NEW cl, NEW k, NEW j, Served(n, T, W, cl, k)
    PROVE  Served(NotifyWaiters(n), T, W, TRUE, j)
BY NotifyWaitersOK DEF Served

\* Fewer things to take, or, when nobody can be queued, any number.
LEMMA ServedLess ==
    ASSUME NEW T, IsFiniteSet(T), NEW n, NEW W, NEW cl \in BOOLEAN, NEW k \in Int, NEW j \in Int,
           Served(n, T, W, cl, k), j <= k \/ cl
    PROVE  Served(n, T, W, cl, j)
<1>1. n \in NotifyType(T) /\ Cardinality(Woken(n)) \in Nat
  BY WokenFinite DEF Served
<1> QED BY <1>1 DEF Served
=============================================================================
