-------------------------- MODULE DispatcherProofs --------------------------
(***************************************************************************)
(* Proofs about Dispatcher for any number of threads and tasks: its types, *)
(* the agreement of the list with the fate of the tasks, that no wake-up   *)
(* is lost and that tasks are taken in the order they were posted.         *)
(***************************************************************************)
EXTENDS Dispatcher, Integers, TLAPS

(* The stamps are those handed out so far, and a new task has none.        *)
StampsGiven ==
  \A t \in Tasks : stamp[t] <= posts /\ (status[t] \in {"new", "dropped"} => stamp[t] = 0)

IInv == TypeOK /\ ListedOnce /\ HandMatches /\ StampsGiven /\ FifoOrder
-----------------------------------------------------------------------------
(* Appending or prepending an element: what addTask does to the list.      *)
LEMMA AppendList ==
  ASSUME NEW S, NEW s \in Seq(S), NEW t \in S
  PROVE  /\ Append(s, t) \in Seq(S)
         /\ Len(Append(s, t)) = Len(s) + 1
         /\ DOMAIN Append(s, t) = 1 .. Len(s) + 1
         /\ \A i \in DOMAIN s : Append(s, t)[i] = s[i]
         /\ Append(s, t)[Len(s) + 1] = t
  OBVIOUS

LEMMA PrependList ==
  ASSUME NEW S, NEW s \in Seq(S), NEW t \in S
  PROVE  /\ <<t>> \o s \in Seq(S)
         /\ DOMAIN (<<t>> \o s) = 1 .. Len(s) + 1
         /\ \A i \in DOMAIN s : (<<t>> \o s)[i + 1] = s[i]
         /\ (<<t>> \o s)[1] = t
  OBVIOUS

(* Taking the first element: what dispatcherThread and flush() do.         *)
LEMMA PopList ==
  ASSUME NEW S, NEW s \in Seq(S), s # <<>>
  PROVE  /\ Head(s) = s[1] /\ Head(s) \in S /\ 1 \in DOMAIN s
         /\ Tail(s) \in Seq(S)
         /\ DOMAIN Tail(s) = 1 .. Len(s) - 1
         /\ \A i \in DOMAIN Tail(s) : i + 1 \in DOMAIN s /\ Tail(s)[i] = s[i + 1]
  OBVIOUS
-----------------------------------------------------------------------------
(* A push and a pop, whoever does them, leave values of the right types.   *)
LEMMA PushTypes ==
  ASSUME TypeOK, NEW t \in Tasks, NEW front \in BOOLEAN, Push(t, front)
  PROVE  /\ m_taskList' \in Seq(Tasks)
         /\ status' \in [Tasks -> Statuses]
         /\ stamp' \in [Tasks -> Nat]
         /\ posts' \in Nat
<1>1. m_taskList \in Seq(Tasks)
  BY DEF TypeOK
<1>2. Append(m_taskList, t) \in Seq(Tasks) /\ <<t>> \o m_taskList \in Seq(Tasks)
  BY <1>1, AppendList, PrependList
<1>3. m_taskList' \in Seq(Tasks)
  BY <1>1, <1>2 DEF Push
<1>4. status' \in [Tasks -> Statuses]
  BY DEF Push, TypeOK, Statuses
<1>5. posts' \in Nat /\ stamp' \in [Tasks -> Nat]
  <2>1. posts + 1 \in Nat /\ [stamp EXCEPT ![t] = posts + 1] \in [Tasks -> Nat]
    BY DEF TypeOK
  <2> QED BY <2>1 DEF Push, TypeOK
<1> QED BY <1>3, <1>4, <1>5

LEMMA PopTypes ==
  ASSUME TypeOK, m_taskList # <<>>
  PROVE  Head(m_taskList) \in Tasks /\ Tail(m_taskList) \in Seq(Tasks)
  BY PopList DEF TypeOK

THEOREM TypeInvariant == Spec => []TypeOK
<1>1. Init => TypeOK
  BY DispatcherAssumption DEF Init, TypeOK, ThreadStates, Locations, Statuses
<1>2. TypeOK /\ [Next]_vars => TypeOK'
  <2> SUFFICES ASSUME TypeOK, [Next]_vars PROVE TypeOK'
    OBVIOUS
  <2> USE DispatcherAssumption DEF TypeOK, ThreadStates, Locations, Statuses
  <2>1. ASSUME NEW th \in Threads, NEW t \in Tasks, NEW front \in BOOLEAN, AddTask(th, t, front)
        PROVE TypeOK'
    <3>1. Push(t, front) BY <2>1 DEF AddTask
    <3>2. MustSignal \in BOOLEAN BY DEF MustSignal
    <3>3. m_taskLock = "free" BY <3>1 DEF Push
    <3> QED BY <2>1, <3>1, <3>2, <3>3, PushTypes DEF AddTask
  <2>2. ASSUME NEW th \in Threads, Notify(th) PROVE TypeOK'
    BY <2>2 DEF Notify
  <2>3. ASSUME NEW t \in Tasks, Expire(t) PROVE TypeOK'
    BY <2>3 DEF Expire
  <2>4. CASE Loop BY <2>4 DEF Loop
  <2>5. CASE Lock BY <2>5, PopTypes DEF Lock, TakeFirst
  <2>6. CASE Relock BY <2>6, PopTypes DEF Relock, TakeFirst
  <2>7. CASE Start BY <2>7 DEF Start
  <2>8. ASSUME NEW t \in Tasks, WantPost(t) PROVE TypeOK'
    BY <2>8 DEF WantPost
  <2>9. ASSUME NEW front \in BOOLEAN, Post(front) PROVE TypeOK'
    <3>1. Push(want, front) /\ want \in Tasks BY <2>9 DEF Post
    <3>2. m_taskLock = "free" BY <3>1 DEF Push
    <3>3. /\ m_taskList' \in Seq(Tasks)
          /\ status' \in [Tasks -> Statuses]
          /\ stamp' \in [Tasks -> Nat]
          /\ posts' \in Nat
      BY <3>1, PushTypes
    <3> QED BY <2>9, <3>2, <3>3 DEF Post
  <2>10. CASE Stop BY <2>10 DEF Stop
  <2>11. CASE Finish BY <2>11 DEF Finish
  <2>12. CASE Halt BY <2>12 DEF Halt
  <2>13. CASE Shutdown BY <2>13 DEF Shutdown
  <2>14. CASE Flush BY <2>14, PopTypes DEF Flush
  <2>15. CASE SpuriousWakeup BY <2>15 DEF SpuriousWakeup
  <2>16. CASE UNCHANGED vars BY <2>16 DEF vars
  <2> QED
    BY <2>1, <2>2, <2>3, <2>4, <2>5, <2>6, <2>7, <2>8, <2>9, <2>10, <2>11, <2>12,
       <2>13, <2>14, <2>15, <2>16 DEF Next, DispatcherThread, Frame
<1> QED BY <1>1, <1>2, PTL DEF Spec
-----------------------------------------------------------------------------
(***************************************************************************)
(* No lost wake-up needs no other invariant than the types: it is          *)
(* inductive because a push that finds the list empty raises signal, a     *)
(* push that does not was preceded by one whose notification is still due, *)
(* and the thread begins to wait on an empty list only.                    *)
(***************************************************************************)
THEOREM NoLostWakeupHolds == Spec => []NoLostWakeup
<1>1. Init => NoLostWakeup
  BY DEF Init, NoLostWakeup
<1>2. TypeOK /\ NoLostWakeup /\ [Next]_vars => NoLostWakeup'
  <2> SUFFICES ASSUME TypeOK, NoLostWakeup, [Next]_vars PROVE NoLostWakeup'
    OBVIOUS
  <2> USE DEF NoLostWakeup, TypeOK
  <2>1. ASSUME NEW th \in Threads, NEW t \in Tasks, NEW front \in BOOLEAN, AddTask(th, t, front)
        PROVE NoLostWakeup'
    <3>1. CASE m_threadState = "RUNNING" /\ m_taskList = <<>>
      BY <2>1, <3>1 DEF AddTask, MustSignal
    <3>2. CASE m_threadState = "RUNNING" /\ m_taskList # <<>>
      <4>1. SUFFICES ASSUME pc = "waiting" PROVE \E x \in Threads : signal'[x]
        BY <2>1 DEF AddTask
      <4>2. PICK x \in Threads : signal[x]
        BY <3>2, <4>1
      <4>3. x # th
        BY <2>1, <4>2 DEF AddTask
      <4> QED BY <2>1, <4>2, <4>3 DEF AddTask
    <3>3. CASE m_threadState # "RUNNING"
      <4>1. SUFFICES ASSUME pc = "waiting", m_taskList # <<>> PROVE \E x \in Threads : signal'[x]
        BY <2>1, <3>3 DEF AddTask, Push
      <4>2. PICK x \in Threads : signal[x]
        BY <4>1
      <4>3. x # th
        BY <2>1, <4>2 DEF AddTask
      <4> QED BY <2>1, <4>2, <4>3 DEF AddTask
    <3> QED BY <3>1, <3>2, <3>3
  <2>2. ASSUME NEW th \in Threads, Notify(th) PROVE NoLostWakeup'
    BY <2>2 DEF Notify
  <2>3. ASSUME NEW t \in Tasks, Expire(t) PROVE NoLostWakeup'
    BY <2>3 DEF Expire
  <2>4. CASE Loop BY <2>4 DEF Loop
  <2>5. CASE Lock BY <2>5 DEF Lock, TakeFirst
  <2>6. CASE Relock BY <2>6 DEF Relock, TakeFirst
  <2>7. CASE Start BY <2>7 DEF Start
  <2>8. ASSUME NEW t \in Tasks, WantPost(t) PROVE NoLostWakeup'
    BY <2>8 DEF WantPost
  <2>9. ASSUME NEW front \in BOOLEAN, Post(front) PROVE NoLostWakeup'
    BY <2>9 DEF Post
  <2>10. CASE Stop BY <2>10 DEF Stop
  <2>11. CASE Finish BY <2>11 DEF Finish
  <2>12. CASE Halt BY <2>12 DEF Halt
  <2>13. CASE Shutdown BY <2>13 DEF Shutdown
  <2>14. CASE Flush BY <2>14 DEF Flush
  <2>15. CASE SpuriousWakeup BY <2>15 DEF SpuriousWakeup
  <2>16. CASE UNCHANGED vars BY <2>16 DEF vars
  <2> QED
    BY <2>1, <2>2, <2>3, <2>4, <2>5, <2>6, <2>7, <2>8, <2>9, <2>10, <2>11, <2>12,
       <2>13, <2>14, <2>15, <2>16 DEF Next, DispatcherThread, Frame
<1> QED BY <1>1, <1>2, TypeInvariant, PTL DEF Spec
-----------------------------------------------------------------------------
(* A step that leaves the list and its numbering alone, and may only end   *)
(* the task in hand, keeps the order.                                      *)
LEMMA SameList ==
  ASSUME IInv, UNCHANGED <<m_taskList, stamp, posts>>,
         \/ UNCHANGED status
         \/ \E s \in {"done", "expired"} : task \in Tasks /\ status' = [status EXCEPT ![task] = s]
  PROVE  ListedOnce' /\ StampsGiven' /\ FifoOrder'
  BY DEF IInv, TypeOK, ListedOnce, HandMatches, StampsGiven, FifoOrder, Statuses

(* Posting a task: at the back it gets the highest stamp, in front none.   *)
LEMMA PushKeepsOrder ==
  ASSUME IInv, NEW t \in Tasks, NEW front \in BOOLEAN, status[t] = "new", Push(t, front)
  PROVE  ListedOnce' /\ StampsGiven' /\ FifoOrder'
<1> USE DEF IInv, TypeOK, ListedOnce, StampsGiven, FifoOrder, Statuses
<1>1. /\ m_taskList \in Seq(Tasks)
      /\ Len(m_taskList) \in Nat /\ DOMAIN m_taskList = 1 .. Len(m_taskList)
      /\ \A i \in DOMAIN m_taskList : m_taskList[i] # t /\ m_taskList[i] \in Tasks
  <2>1. m_taskList \in Seq(Tasks)
    OBVIOUS
  <2>2. \A i \in DOMAIN m_taskList : m_taskList[i] # t
    OBVIOUS
  <2>3. Len(m_taskList) \in Nat /\ DOMAIN m_taskList = 1 .. Len(m_taskList)
    BY <2>1
  <2>4. \A i \in DOMAIN m_taskList : m_taskList[i] \in Tasks
    BY <2>1
  <2> QED BY <2>1, <2>2, <2>3, <2>4
<1>2. CASE m_threadState # "RUNNING"
  <2>1. /\ UNCHANGED <<m_taskList, stamp, posts>>
        /\ status' = [status EXCEPT ![t] = "dropped"]
        /\ stamp[t] = 0
    BY <1>2 DEF Push
  <2>2. ListedOnce'
    <3>1. \A x \in Tasks : status'[x] = "queued" => \E j \in DOMAIN m_taskList' : m_taskList'[j] = x
      <4> SUFFICES ASSUME NEW x \in Tasks, status'[x] = "queued"
                   PROVE  \E j \in DOMAIN m_taskList' : m_taskList'[j] = x
        OBVIOUS
      <4>1. status[x] = "queued"
        BY <2>1
      <4> QED BY <4>1, <2>1
    <3>2. \A i \in DOMAIN m_taskList' : status'[m_taskList'[i]] = "queued"
      BY <1>1, <2>1
    <3> QED BY <3>1, <3>2, <2>1
  <2>3. StampsGiven'
    BY <2>1
  <2>4. FifoOrder'
    BY <1>1, <2>1
  <2> QED BY <2>2, <2>3, <2>4
<1>3. CASE m_threadState = "RUNNING" /\ front
  <2>1. /\ m_taskList' = <<t>> \o m_taskList
        /\ status' = [status EXCEPT ![t] = "queued"]
        /\ stamp' = stamp /\ posts' = posts /\ stamp[t] = 0
    BY <1>3 DEF Push
  <2>2. /\ DOMAIN m_taskList' = 1 .. Len(m_taskList) + 1
        /\ \A i \in DOMAIN m_taskList : m_taskList'[i + 1] = m_taskList[i]
        /\ m_taskList'[1] = t
    BY <1>1, <2>1, PrependList
  <2>3. \A j \in DOMAIN m_taskList' :
           \/ j = 1 /\ m_taskList'[j] = t
           \/ j - 1 \in DOMAIN m_taskList /\ m_taskList'[j] = m_taskList[j - 1]
    BY <1>1, <2>2
  <2>4. ListedOnce'
    <3>1. \A x \in Tasks : status'[x] = "queued" => \E j \in DOMAIN m_taskList' : m_taskList'[j] = x
      <4> SUFFICES ASSUME NEW x \in Tasks, status'[x] = "queued"
                   PROVE  \E j \in DOMAIN m_taskList' : m_taskList'[j] = x
        OBVIOUS
      <4>1. CASE x = t
        <5>1. 1 \in DOMAIN m_taskList' BY <1>1, <2>2
        <5> QED BY <4>1, <5>1, <2>2
      <4>2. CASE x # t
        <5>1. PICK i \in DOMAIN m_taskList : m_taskList[i] = x
          BY <4>2, <2>1
        <5>2. i + 1 \in DOMAIN m_taskList' /\ m_taskList'[i + 1] = x BY <5>1, <2>2, <1>1
        <5> QED BY <5>2
      <4> QED BY <4>1, <4>2
    <3>2. \A j \in DOMAIN m_taskList' : status'[m_taskList'[j]] = "queued"
      BY <1>1, <2>1, <2>3
    <3>3. \A i, j \in DOMAIN m_taskList' : m_taskList'[i] = m_taskList'[j] => i = j
      <4> SUFFICES ASSUME NEW i \in DOMAIN m_taskList', NEW j \in DOMAIN m_taskList',
                          m_taskList'[i] = m_taskList'[j]
                   PROVE  i = j
        OBVIOUS
      <4>1. i \in Int /\ j \in Int
        BY <1>1, <2>2
      <4>2. CASE i = 1 \/ j = 1 BY <4>2, <1>1, <2>2, <2>3
      <4>3. CASE i # 1 /\ j # 1
        <5>1. i - 1 \in DOMAIN m_taskList /\ j - 1 \in DOMAIN m_taskList
          BY <4>3, <2>3
        <5>2. m_taskList[i - 1] = m_taskList[j - 1]
          BY <4>3, <2>3
        <5> QED BY <4>1, <5>1, <5>2
      <4> QED BY <4>2, <4>3
    <3> QED BY <3>1, <3>2, <3>3
  <2>5. StampsGiven'
    BY <1>1, <2>1
  <2>6. FifoOrder'
    <3>1. ASSUME NEW i \in DOMAIN m_taskList', NEW j \in DOMAIN m_taskList', i < j,
                 stamp[m_taskList'[i]] > 0, stamp[m_taskList'[j]] > 0
          PROVE  stamp[m_taskList'[i]] < stamp[m_taskList'[j]]
      <4>1. i \in Int /\ j \in Int /\ i # 1 /\ j # 1
        BY <3>1, <1>1, <2>1, <2>2
      <4>2. /\ i - 1 \in DOMAIN m_taskList /\ j - 1 \in DOMAIN m_taskList
            /\ m_taskList'[i] = m_taskList[i - 1] /\ m_taskList'[j] = m_taskList[j - 1]
        BY <4>1, <2>3
      <4>3. i - 1 < j - 1
        BY <3>1, <4>1
      <4> QED BY <3>1, <4>2, <4>3
    <3>2. ASSUME NEW x \in Tasks, NEW i \in DOMAIN m_taskList', stamp[x] > 0,
                 status'[x] # "queued", stamp[m_taskList'[i]] > 0
          PROVE  stamp[x] < stamp[m_taskList'[i]]
      <4>1. i - 1 \in DOMAIN m_taskList /\ m_taskList'[i] = m_taskList[i - 1]
        BY <3>2, <2>1, <2>3
      <4>2. status[x] # "queued"
        BY <3>2, <2>1
      <4> QED BY <3>2, <4>1, <4>2
    <3> QED BY <3>1, <3>2, <2>1
  <2> QED BY <2>4, <2>5, <2>6
<1>4. CASE m_threadState = "RUNNING" /\ ~front
  <2>1. /\ m_taskList' = Append(m_taskList, t)
        /\ status' = [status EXCEPT ![t] = "queued"]
        /\ stamp' = [stamp EXCEPT ![t] = posts + 1]
        /\ posts' = posts + 1
    BY <1>4 DEF Push
  <2>2. /\ DOMAIN m_taskList' = 1 .. Len(m_taskList) + 1
        /\ \A i \in DOMAIN m_taskList : m_taskList'[i] = m_taskList[i]
        /\ m_taskList'[Len(m_taskList) + 1] = t
    BY <1>1, <2>1, AppendList
  <2>3. \A j \in DOMAIN m_taskList' :
           \/ j = Len(m_taskList) + 1 /\ m_taskList'[j] = t
           \/ j \in DOMAIN m_taskList /\ m_taskList'[j] = m_taskList[j]
    BY <1>1, <2>2
  <2>4. ListedOnce'
    <3>1. \A x \in Tasks : status'[x] = "queued" => \E j \in DOMAIN m_taskList' : m_taskList'[j] = x
      <4> SUFFICES ASSUME NEW x \in Tasks, status'[x] = "queued"
                   PROVE  \E j \in DOMAIN m_taskList' : m_taskList'[j] = x
        OBVIOUS
      <4>1. CASE x = t
        <5>1. Len(m_taskList) + 1 \in DOMAIN m_taskList' BY <1>1, <2>2
        <5> QED BY <4>1, <5>1, <2>2
      <4>2. CASE x # t
        <5>1. PICK i \in DOMAIN m_taskList : m_taskList[i] = x
          BY <4>2, <2>1
        <5> QED BY <5>1, <2>2, <1>1
      <4> QED BY <4>1, <4>2
    <3> QED BY <1>1, <2>1, <2>2, <2>3, <3>1
  <2>5. StampsGiven'
    BY <1>1, <2>1
  <2>6. FifoOrder'
    BY <1>1, <2>1, <2>2, <2>3
  <2> QED BY <2>4, <2>5, <2>6
<1> QED BY <1>2, <1>3, <1>4

(* Taking the first task: those behind it have higher stamps.              *)
LEMMA PopKeepsOrder ==
  ASSUME IInv, m_taskList # <<>>, m_taskList' = Tail(m_taskList),
         status' = [status EXCEPT ![Head(m_taskList)] = "taken"],
         UNCHANGED <<stamp, posts>>
  PROVE  ListedOnce' /\ StampsGiven' /\ FifoOrder'
<1> USE DEF IInv, TypeOK, ListedOnce, StampsGiven, FifoOrder, Statuses
<1> DEFINE h == Head(m_taskList)
<1>1. m_taskList \in Seq(Tasks) /\ h \in Tasks /\ 1 \in DOMAIN m_taskList /\ h = m_taskList[1]
  BY PopList
<1>2. /\ DOMAIN m_taskList' = 1 .. Len(m_taskList) - 1
      /\ \A i \in DOMAIN m_taskList' : i + 1 \in DOMAIN m_taskList /\ m_taskList'[i] = m_taskList[i + 1]
  BY <1>1, PopList
<1> HIDE DEF h
<1>3. status' = [status EXCEPT ![h] = "taken"]
  BY DEF h
<1>4. \A x \in Tasks : status'[x] = "queued" => \E j \in DOMAIN m_taskList' : m_taskList'[j] = x
  <2> SUFFICES ASSUME NEW x \in Tasks, status'[x] = "queued"
               PROVE  \E j \in DOMAIN m_taskList' : m_taskList'[j] = x
    OBVIOUS
  <2>1. x # h /\ status[x] = "queued"
    BY <1>1, <1>3
  <2>2. PICK i \in DOMAIN m_taskList : m_taskList[i] = x
    BY <2>1
  <2>3. i # 1 /\ i - 1 \in DOMAIN m_taskList'
    BY <1>1, <1>2, <2>1, <2>2
  <2> QED BY <1>1, <1>2, <2>2, <2>3
<1>5. ListedOnce'
  BY <1>1, <1>2, <1>3, <1>4
<1>6. StampsGiven'
  BY <1>1, <1>3
<1>7. FifoOrder'
  <2>1. ASSUME NEW i \in DOMAIN m_taskList', NEW j \in DOMAIN m_taskList', i < j,
               stamp[m_taskList'[i]] > 0, stamp[m_taskList'[j]] > 0
        PROVE  stamp[m_taskList'[i]] < stamp[m_taskList'[j]]
    <3>1. i \in Int /\ j \in Int /\ i + 1 < j + 1
      BY <2>1, <1>1, <1>2
    <3> QED BY <2>1, <3>1, <1>2
  <2>2. ASSUME NEW x \in Tasks, NEW i \in DOMAIN m_taskList', stamp[x] > 0,
               status'[x] # "queued", stamp[m_taskList'[i]] > 0
        PROVE  stamp[x] < stamp[m_taskList'[i]]
    <3>1. i \in Int /\ i + 1 \in DOMAIN m_taskList /\ m_taskList'[i] = m_taskList[i + 1]
      BY <1>1, <1>2
    <3>2. CASE x = h
      <4>1. 1 < i + 1
        BY <3>1, <1>1, <1>2
      <4> QED BY <2>2, <3>1, <3>2, <4>1, <1>1
    <3>3. CASE x # h
      <4>1. status[x] # "queued"
        BY <2>2, <3>3, <1>3
      <4> QED BY <2>2, <3>1, <4>1
    <3> QED BY <3>2, <3>3
  <2> QED BY <2>1, <2>2
<1> QED BY <1>5, <1>6, <1>7

(* IInv is inductive: tasks are pushed, popped, or left in place.          *)
THEOREM IInvHolds == Spec => []IInv
<1>1. Init => ListedOnce /\ HandMatches /\ StampsGiven /\ FifoOrder
  BY DispatcherAssumption DEF Init, ListedOnce, HandMatches, StampsGiven, FifoOrder
<1>2. IInv /\ [Next]_vars => ListedOnce' /\ HandMatches' /\ StampsGiven' /\ FifoOrder'
  <2> SUFFICES ASSUME IInv, [Next]_vars
               PROVE  ListedOnce' /\ HandMatches' /\ StampsGiven' /\ FifoOrder'
    OBVIOUS
  <2> DEFINE Goal == ListedOnce /\ HandMatches /\ StampsGiven /\ FifoOrder
  <2> USE DispatcherAssumption
  <2>1. ASSUME NEW th \in Threads, NEW t \in Tasks, NEW front \in BOOLEAN, AddTask(th, t, front)
        PROVE Goal'
    <3>1. Push(t, front) /\ status[t] = "new" /\ t # want /\ UNCHANGED <<task, want>>
      BY <2>1 DEF AddTask
    <3>2. HandMatches'
      BY <3>1 DEF IInv, TypeOK, HandMatches, Push, Statuses
    <3> QED BY <3>1, <3>2, PushKeepsOrder
  <2>2. ASSUME NEW th \in Threads, Notify(th) PROVE Goal'
    BY <2>2, SameList DEF Notify, IInv, HandMatches
  <2>3. ASSUME NEW t \in Tasks, Expire(t) PROVE Goal'
    BY <2>3, SameList DEF Expire, IInv, HandMatches
  <2>4. CASE Loop
    BY <2>4, SameList DEF Loop, IInv, HandMatches
  <2>5. ASSUME TakeFirst, pc \in {"lock", "relock"}, UNCHANGED <<want, stamp, posts>>
        PROVE Goal'
    <3>1. CASE m_taskList # <<>> /\ m_threadState # "TERMINATED"
      <4>1. HandMatches'
        BY <2>5, <3>1, PopTypes DEF TakeFirst, IInv, TypeOK, HandMatches, ListedOnce, Statuses
      <4> QED BY <2>5, <3>1, <4>1, PopKeepsOrder DEF TakeFirst
    <3>2. CASE ~(m_taskList # <<>> /\ m_threadState # "TERMINATED")
      BY <2>5, <3>2, SameList DEF TakeFirst, IInv, HandMatches
    <3> QED BY <3>1, <3>2
  <2>6. CASE Lock
    <3>1. CASE m_taskList = <<>>
      BY <2>6, <3>1, SameList DEF Lock, IInv, HandMatches
    <3>2. CASE m_taskList # <<>>
      BY <2>6, <3>2, <2>5 DEF Lock
    <3> QED BY <3>1, <3>2
  <2>7. CASE Relock
    BY <2>7, <2>5 DEF Relock
  <2>8. ASSUME task # NoTask, task' = NoTask, UNCHANGED <<m_taskList, want, stamp, posts>>,
               \E s \in {"done", "expired"} : status' = [status EXCEPT ![task] = s]
        PROVE Goal'
    <3>1. task \in Tasks
      BY <2>8 DEF IInv, TypeOK
    <3>2. HandMatches'
      BY <2>8, <3>1 DEF IInv, TypeOK, HandMatches, Statuses
    <3> QED BY <2>8, <3>1, <3>2, SameList
  <2>9. CASE Start
    <3>1. CASE task \in past
      <4>1. task # NoTask BY <2>9 DEF Start, IInv, TypeOK
      <4> QED BY <2>9, <3>1, <4>1, <2>8 DEF Start
    <3>2. CASE task \notin past
      BY <2>9, <3>2, SameList DEF Start, IInv, HandMatches
    <3> QED BY <3>1, <3>2
  <2>10. ASSUME NEW t \in Tasks, WantPost(t) PROVE Goal'
    BY <2>10, SameList DEF WantPost, IInv, HandMatches
  <2>11. ASSUME NEW front \in BOOLEAN, Post(front) PROVE Goal'
    <3>1. want \in Tasks /\ status[want] = "new" /\ Push(want, front)
      BY <2>11 DEF Post, IInv, TypeOK, HandMatches
    <3>2. HandMatches'
      BY <2>11, <3>1 DEF Post, IInv, TypeOK, HandMatches, Push, Statuses
    <3> QED BY <3>1, <3>2, PushKeepsOrder
  <2>12. CASE Stop
    BY <2>12, SameList DEF Stop, IInv, HandMatches
  <2>13. CASE Finish
    <3>1. task # NoTask BY <2>13 DEF Finish, IInv, TypeOK
    <3> QED BY <2>13, <3>1, <2>8 DEF Finish
  <2>14. CASE Halt
    BY <2>14, SameList DEF Halt, IInv, HandMatches
  <2>15. CASE Shutdown
    <3>1. task # NoTask BY <2>15 DEF Shutdown, IInv, TypeOK
    <3> QED BY <2>15, <3>1, <2>8 DEF Shutdown
  <2>16. CASE Flush
    <3>1. CASE m_taskList = <<>>
      BY <2>16, <3>1, SameList DEF Flush, IInv, HandMatches
    <3>2. CASE m_taskList # <<>>
      <4>1. HandMatches'
        BY <2>16, <3>2, PopTypes DEF Flush, IInv, TypeOK, HandMatches, ListedOnce, Statuses
      <4> QED BY <2>16, <3>2, <4>1, PopKeepsOrder DEF Flush
    <3> QED BY <3>1, <3>2
  <2>17. CASE SpuriousWakeup
    BY <2>17, SameList DEF SpuriousWakeup, IInv, HandMatches
  <2>18. CASE UNCHANGED vars
    BY <2>18, SameList DEF vars, IInv, HandMatches
  <2> QED
    BY <2>1, <2>2, <2>3, <2>4, <2>6, <2>7, <2>9, <2>10, <2>11, <2>12, <2>13, <2>14,
       <2>15, <2>16, <2>17, <2>18 DEF Next, DispatcherThread, Frame
<1> QED BY <1>1, <1>2, TypeInvariant, PTL DEF Spec, IInv

(* The list and the fate of the tasks agree, and tasks posted at the back  *)
(* are taken in the order they were posted.                                *)
THEOREM ListInOrderHolds == Spec => []ListInOrder
<1>1. IInv => ListInOrder
  BY DEF IInv, ListInOrder, ListMatchesStatus
<1> QED BY <1>1, IInvHolds, PTL
-----------------------------------------------------------------------------
(* addTask is a Put or, once the state is not RUNNING, a Forget.           *)
LEMMA PushIsPut ==
  ASSUME TypeOK, NEW t \in Tasks, NEW front \in BOOLEAN, status[t] = "new",
         Push(t, front), UNCHANGED <<task, m_threadState>>
  PROVE  Queue!Put(t) \/ Queue!Forget(t)
<1>1. CASE m_threadState = "RUNNING"
  BY <1>1 DEF Push, Queue!Put
<1>2. CASE m_threadState # "RUNNING"
  BY <1>2 DEF Push, Queue!Forget
<1> QED BY <1>1, <1>2

(* Taking a task, wherever the code does it, is a Take.                    *)
LEMMA TakeFirstIsTake ==
  ASSUME TypeOK, task = NoTask, TakeFirst, UNCHANGED m_threadState
  PROVE  Queue!Take \/ UNCHANGED Queue!vars
  BY DEF TakeFirst, Queue!Take, Queue!vars

(* Every step of the dispatcher is one of the queue's, or none.            *)
LEMMA StepOfQueue ==
  ASSUME IInv, [Next]_vars
  PROVE  [Queue!Next]_(Queue!vars)
<1> USE DEF IInv
<1> DEFINE Stutter == UNCHANGED <<m_taskList, task, status, m_threadState>>
<1>0. Stutter => UNCHANGED Queue!vars
  BY DEF Queue!vars
<1>1. ASSUME NEW th \in Threads, NEW t \in Tasks, NEW front \in BOOLEAN, AddTask(th, t, front)
      PROVE Queue!Next
  <2>1. Queue!Put(t) \/ Queue!Forget(t)
    BY <1>1, PushIsPut DEF AddTask
  <2> QED BY <2>1 DEF Queue!Next
<1>2. ASSUME NEW th \in Threads, Notify(th) PROVE Stutter
  BY <1>2 DEF Notify
<1>3. ASSUME NEW t \in Tasks, Expire(t) PROVE Stutter
  BY <1>3 DEF Expire
<1>4. CASE Loop BY <1>0, <1>4 DEF Loop
<1>5. ASSUME Lock PROVE Queue!Take \/ UNCHANGED Queue!vars
  <2>1. task = NoTask /\ UNCHANGED m_threadState
    BY <1>5 DEF Lock, TypeOK
  <2>2. CASE m_taskList = <<>>
    BY <1>0, <1>5, <2>2 DEF Lock
  <2>3. CASE m_taskList # <<>>
    BY <1>5, <2>1, <2>3, TakeFirstIsTake DEF Lock
  <2> QED BY <2>2, <2>3
<1>6. ASSUME Relock PROVE Queue!Take \/ UNCHANGED Queue!vars
  BY <1>6, TakeFirstIsTake DEF Relock, TypeOK
<1>7. ASSUME Start PROVE Queue!Complete \/ UNCHANGED Queue!vars
  <2>1. task # NoTask BY <1>7 DEF Start, TypeOK
  <2>2. CASE task \in past
    BY <1>7, <2>1, <2>2 DEF Start, Queue!Complete
  <2>3. CASE task \notin past
    BY <1>0, <1>7, <2>3 DEF Start
  <2> QED BY <2>2, <2>3
<1>8. ASSUME NEW t \in Tasks, WantPost(t) PROVE Stutter
  BY <1>8 DEF WantPost
<1>9. ASSUME NEW front \in BOOLEAN, Post(front) PROVE Queue!Next
  <2>1. want \in Tasks /\ status[want] = "new"
    BY <1>9 DEF Post, TypeOK, HandMatches
  <2>2. Queue!Put(want) \/ Queue!Forget(want)
    BY <1>9, <2>1, PushIsPut DEF Post
  <2> QED BY <2>1, <2>2 DEF Queue!Next
<1>10. ASSUME Stop PROVE Queue!Shut
  BY <1>10 DEF Stop, TypeOK, Queue!Shut
<1>11. ASSUME Finish PROVE Queue!Complete
  BY <1>11 DEF Finish, TypeOK, Queue!Complete
<1>12. ASSUME Halt PROVE Stutter
  BY <1>12 DEF Halt
<1>13. ASSUME Shutdown PROVE Queue!Complete
  BY <1>13 DEF Shutdown, TypeOK, Queue!Complete
<1>14. ASSUME Flush PROVE Queue!Take \/ UNCHANGED Queue!vars
  <2>1. task = NoTask BY <1>14 DEF Flush, TypeOK
  <2>2. CASE m_taskList = <<>>
    BY <1>0, <1>14, <2>2 DEF Flush
  <2>3. CASE m_taskList # <<>>
    BY <1>14, <2>1, <2>3 DEF Flush, Queue!Take
  <2> QED BY <2>2, <2>3
<1>15. ASSUME SpuriousWakeup \/ UNCHANGED vars PROVE Stutter
  BY <1>15 DEF SpuriousWakeup, vars
<1> QED
  BY <1>0, <1>1, <1>2, <1>3, <1>4, <1>5, <1>6, <1>7, <1>8, <1>9, <1>10, <1>11, <1>12,
     <1>13, <1>14, <1>15 DEF Next, DispatcherThread, Frame, Queue!Next

(* The dispatcher implements the queue that the other threads and the      *)
(* protocol objects rely on.                                               *)
THEOREM ImplementsTaskQueueHolds == Spec => ImplementsTaskQueue
<1>1. Init => Queue!Init
  BY DEF Init, Queue!Init
<1>2. IInv /\ [Next]_vars => [Queue!Next]_(Queue!vars)
  BY StepOfQueue
<1> QED BY <1>1, <1>2, IInvHolds, PTL DEF Spec, ImplementsTaskQueue, Queue!Spec
=============================================================================
