-------------------------- MODULE SchedulerProofs --------------------------
(***************************************************************************)
(* Proofs about Scheduler for any callers, events and delays: its types,   *)
(* that the active ids are those of the queued events, that stopEvent() is *)
(* final, and that the thread does not sleep past an event.  That ids tell *)
(* events apart is what the first two rest on: it holds because each new   *)
(* id is one more than the number of ids given so far.                     *)
(***************************************************************************)
EXTENDS Scheduler, FiniteSetTheorems, TLAPS

(* The events that have been given an id.                                  *)
Numbered == {e \in Events : id[e] # 0}

(* m_lastEvent counts the ids given, no two events have the same, and an   *)
(* event has one once it was queued.                                       *)
IdsTellApart ==
  /\ m_lastEvent = Cardinality(Numbered)
  /\ \A e \in Events : id[e] <= m_lastEvent
  /\ \A e, f \in Events : id[e] # 0 /\ id[e] = id[f] => e = f
  /\ \A e \in Events : status[e] = "new" => id[e] = 0
  /\ \A e \in m_eventList \cup stopped : id[e] # 0

(* The event the thread holds is neither queued nor dispatched.            *)
HandIsPopped == task # NoEvent => status[task] = "popped"

IdsInv == IdsMatchQueue /\ IdsTellApart /\ HandIsPopped

(* The time a timed wait was given is that of an event, which is due when  *)
(* the wait ends by itself, unless the queue was cleared meanwhile.        *)
TimeoutHasEvent ==
  \/ m_threadState = "TERMINATED"
  \/ /\ pc = "timed" => \E e \in m_eventList : cycle[e] <= deadline
     /\ pc = "relock" /\ slept = "timed" /\ ~ret => \E e \in m_eventList : cycle[e] <= now

SleepInv == SleepsUntilDue /\ TimeoutHasEvent
-----------------------------------------------------------------------------
(* createSchedulerTask() returns a task that was not in use.               *)
LEMMA FreshIsNew ==
  ASSUME \E x \in Events : status[x] = "new"
  PROVE  Fresh \in Events /\ status[Fresh] = "new"
BY DEF Fresh

LEMMA NextIdType ==
  ASSUME TypeOK
  PROVE  NextId \in 1 .. MaxId
BY SchedulerAssumption DEF TypeOK, NextId

LEMMA InitTypes == Init => TypeOK
<1>1. 0 \in 0 .. MaxId
  BY SchedulerAssumption
<1>2. Init => signal \in [Callers -> BOOLEAN] /\ ret \in BOOLEAN /\ run \in BOOLEAN
  BY DEF Init
<1>3. Init => id \in [Events -> 0 .. MaxId] /\ cycle \in [Events -> Nat]
  BY <1>1 DEF Init
<1> QED BY <1>1, <1>2, <1>3 DEF Init, TypeOK, Locations, Statuses

(* Types; the thread holds an event from its pop to its hand-over only.    *)
THEOREM TypeInvariant == Spec => []TypeOK
<1>1. Init => TypeOK
  BY InitTypes
<1>2. TypeOK /\ [Next]_vars => TypeOK'
  <2> SUFFICES ASSUME TypeOK, [Next]_vars PROVE TypeOK'
    OBVIOUS
  <2> USE DEF TypeOK, Locations, Statuses
  <2>1. ASSUME NEW c \in Callers, NEW delay \in Delays, AddEvent(c, delay) PROVE TypeOK'
    <3> DEFINE due == now + (IF delay < MinTicks THEN MinTicks ELSE delay)
    <3>1. Fresh \in Events
      BY <2>1, FreshIsNew DEF AddEvent
    <3>2. due \in Nat
      BY SchedulerAssumption
    <3>3. NextId \in 1 .. MaxId
      BY NextIdType
    <3>4. TopsList(due) \in BOOLEAN
      BY DEF TopsList
    <3>5. UNCHANGED <<m_threadState, pc, ret, task, run, deadline, slept, now, stopped>>
      BY <2>1 DEF AddEvent, threadVars
    <3> HIDE DEF due
    <3>6. CASE m_threadState = "RUNNING"
      <4>1. /\ m_lastEvent' = NextId
            /\ id' = [id EXCEPT ![Fresh] = NextId]
            /\ cycle' = [cycle EXCEPT ![Fresh] = due]
            /\ m_eventIds' = m_eventIds \cup {NextId}
            /\ m_eventList' = m_eventList \cup {Fresh}
            /\ status' = [status EXCEPT ![Fresh] = "queued"]
            /\ signal' = [signal EXCEPT ![c] = TopsList(due)]
        BY <2>1, <3>6 DEF AddEvent, due
      <4> QED BY <3>1, <3>2, <3>3, <3>4, <3>5, <4>1, SchedulerAssumption
    <3>7. CASE m_threadState # "RUNNING"
      BY <2>1, <3>1, <3>5, <3>7 DEF AddEvent
    <3> QED BY <3>6, <3>7
  <2>2. ASSUME NEW c \in Callers, Notify(c) PROVE TypeOK'
    BY <2>2 DEF Notify, queueVars
  <2>3. ASSUME NEW e \in Events, StopEvent(e) PROVE TypeOK'
    BY <2>3 DEF StopEvent, threadVars
  <2>4. CASE Stop
    BY <2>4 DEF Stop, queueVars, threadVars
  <2>5. CASE Shutdown
    BY <2>5 DEF Shutdown, threadVars
  <2>6. CASE Tick
    BY <2>6 DEF Tick, queueVars, threadVars
  <2>7. CASE Loop
    BY <2>7 DEF Loop, queueVars
  <2>8. CASE Lock
    BY <2>8 DEF Lock, Tops, queueVars
  <2>9. CASE Timeout
    BY <2>9 DEF Timeout, queueVars
  <2>10. CASE SpuriousWakeup
    BY <2>10 DEF SpuriousWakeup, queueVars
  <2>11. CASE Relock
    <3>1. CASE ret \/ m_threadState = "TERMINATED" \/ m_eventList = {}
      BY <2>11, <3>1 DEF Relock
    <3>2. CASE ~(ret \/ m_threadState = "TERMINATED" \/ m_eventList = {})
      <4>1. PICK e \in Tops : Pop(e)
        BY <2>11, <3>2 DEF Relock
      <4>2. e \in Events /\ e # NoEvent
        BY SchedulerAssumption DEF Tops
      <4>3. pc' = "handover" /\ task' \in Events /\ task' # NoEvent
        BY <2>11, <3>2, <4>1, <4>2 DEF Relock, Pop
      <4>4. run' \in BOOLEAN
        BY <4>1 DEF Pop
      <4> QED BY <2>11, <4>1, <4>2, <4>3, <4>4 DEF Relock, Pop
    <3> QED BY <3>1, <3>2
  <2>12. CASE HandOver
    BY <2>12, SchedulerAssumption DEF HandOver
  <2>13. CASE UNCHANGED vars
    BY <2>13 DEF vars
  <2> QED
    BY <2>1, <2>2, <2>3, <2>4, <2>5, <2>6, <2>7, <2>8, <2>9, <2>10, <2>11, <2>12, <2>13
    DEF Next, SchedulerThread
<1> QED BY <1>1, <1>2, PTL DEF Spec
-----------------------------------------------------------------------------
(* An event whose id is active is queued and was not stopped.              *)
LEMMA ActiveIsQueued ==
  ASSUME IdsInv, NEW e \in Events, id[e] \in m_eventIds
  PROVE  e \in m_eventList /\ e \notin stopped
<1>1. PICK f \in m_eventList \ stopped : id[f] = id[e]
  BY DEF IdsInv, IdsMatchQueue
<1>2. f \in Events /\ id[f] # 0
  BY <1>1 DEF IdsInv, IdsMatchQueue, IdsTellApart
<1>3. f = e
  BY <1>1, <1>2 DEF IdsInv, IdsTellApart
<1> QED BY <1>1, <1>3

(* While there is a new event, the ids are not used up.                    *)
LEMMA IdsAreLeft ==
  ASSUME TypeOK, IdsTellApart, NEW e \in Events, status[e] = "new"
  PROVE  /\ NextId = m_lastEvent + 1
         /\ IsFiniteSet(Numbered) /\ e \notin Numbered
<1>1. e \notin Numbered /\ Numbered \subseteq Events
  BY DEF IdsTellApart, Numbered
<1>2. IsFiniteSet(Numbered) /\ Cardinality(Numbered) < Cardinality(Events)
  <2>1. IsFiniteSet(Events) /\ Numbered # Events
    BY <1>1, IdsSuffice
  <2>2. /\ IsFiniteSet(Numbered)
        /\ Cardinality(Numbered) <= Cardinality(Events)
        /\ Cardinality(Numbered) # Cardinality(Events)
    BY <1>1, <2>1, FS_Subset
  <2> QED BY <2>1, <2>2, FS_CardinalityType
<1>3. Cardinality(Events) \in Nat /\ Cardinality(Events) <= MaxId
  BY IdsSuffice, FS_CardinalityType
<1>4. m_lastEvent < MaxId
  BY <1>2, <1>3, SchedulerAssumption DEF IdsTellApart, TypeOK
<1> QED BY <1>1, <1>2, <1>4, SchedulerAssumption DEF NextId, TypeOK

(* addEvent() gives the event the next id, which no other one has.         *)
LEMMA AddKeepsIds ==
  ASSUME IdsInv, StopIsDecisive, TypeOK',
         NEW c \in Callers, NEW delay \in Delays, AddEvent(c, delay)
  PROVE  IdsInv' /\ StopIsDecisive'
<1> DEFINE e == Fresh
<1>1. e \in Events /\ status[e] = "new"
  BY FreshIsNew DEF AddEvent
<1>2. e \notin m_eventList /\ e \notin stopped /\ id[e] = 0
  BY <1>1 DEF IdsInv, IdsMatchQueue, IdsTellApart
<1>3. NextId = m_lastEvent + 1 /\ IsFiniteSet(Numbered) /\ e \notin Numbered
  BY <1>1, IdsAreLeft DEF IdsInv, IdsMatchQueue
<1>4. task # e
  BY <1>1, SchedulerAssumption DEF IdsInv, HandIsPopped
<1>5. UNCHANGED <<task, run, stopped>>
  BY DEF AddEvent, threadVars
<1> HIDE DEF e
<1>6. CASE m_threadState = "RUNNING"
  <2>1. /\ m_lastEvent' = m_lastEvent + 1
        /\ id' = [id EXCEPT ![e] = m_lastEvent + 1]
        /\ m_eventIds' = m_eventIds \cup {m_lastEvent + 1}
        /\ m_eventList' = m_eventList \cup {e}
        /\ status' = [status EXCEPT ![e] = "queued"]
    BY <1>3, <1>6 DEF AddEvent, e
  <2>2. m_lastEvent \in Nat /\ id \in [Events -> Nat] /\ status \in [Events -> Statuses]
    BY SchedulerAssumption DEF IdsInv, IdsMatchQueue, TypeOK
  <2>3. \A f \in Events : id'[f] = IF f = e THEN m_lastEvent + 1 ELSE id[f]
    BY <2>1, <2>2
  <2>4. \A f \in Events : status'[f] = IF f = e THEN "queued" ELSE status[f]
    BY <2>1, <2>2
  <2>5. IdsMatchQueue'
    <3>1. m_eventList' = {f \in Events : status'[f] = "queued"}
      BY <1>1, <2>1, <2>4 DEF IdsInv, IdsMatchQueue
    <3>2. m_eventList' \ stopped' = (m_eventList \ stopped) \cup {e}
      BY <1>2, <1>5, <2>1
    <3>3. m_eventList \ stopped \subseteq Events /\ e \notin m_eventList \ stopped
      BY <1>2 DEF IdsInv, IdsMatchQueue, TypeOK
    <3>4. {id'[f] : f \in m_eventList' \ stopped'} =
            {id[f] : f \in m_eventList \ stopped} \cup {m_lastEvent + 1}
      BY <1>1, <2>3, <3>2, <3>3
    <3> QED BY <2>1, <3>1, <3>4 DEF IdsInv, IdsMatchQueue
  <2>6. IdsTellApart'
    <3>1. Numbered' = Numbered \cup {e}
      BY <1>1, <2>2, <2>3 DEF Numbered
    <3>2. m_lastEvent' = Cardinality(Numbered')
      BY <1>3, <2>1, <3>1, FS_AddElement DEF IdsInv, IdsTellApart
    <3>3. \A f \in Events : id'[f] <= m_lastEvent'
      BY <2>1, <2>2, <2>3 DEF IdsInv, IdsTellApart
    <3>4. \A f, g \in Events : id'[f] # 0 /\ id'[f] = id'[g] => f = g
      BY <2>2, <2>3 DEF IdsInv, IdsTellApart
    <3>5. \A f \in Events : status'[f] = "new" => id'[f] = 0
      BY <2>3, <2>4 DEF IdsInv, IdsTellApart
    <3>6. \A f \in m_eventList' \cup stopped' : id'[f] # 0
      BY <1>1, <1>5, <2>1, <2>2, <2>3 DEF IdsInv, IdsMatchQueue, IdsTellApart, TypeOK
    <3> QED BY <3>2, <3>3, <3>4, <3>5, <3>6 DEF IdsTellApart
  <2>7. HandIsPopped'
    BY <1>4, <1>5, <2>4 DEF IdsInv, HandIsPopped, IdsMatchQueue, TypeOK
  <2>8. StopIsDecisive'
    BY <1>5, <2>4 DEF IdsInv, IdsMatchQueue, TypeOK, StopIsDecisive
  <2> QED BY <2>5, <2>6, <2>7, <2>8 DEF IdsInv
<1>7. CASE m_threadState # "RUNNING"
  <2>1. /\ status' = [status EXCEPT ![e] = "dropped"]
        /\ UNCHANGED <<m_lastEvent, id, m_eventIds, m_eventList>>
    BY <1>7 DEF AddEvent, e
  <2>2. \A f \in Events : status'[f] = IF f = e THEN "dropped" ELSE status[f]
    BY <2>1 DEF IdsInv, IdsMatchQueue, TypeOK
  <2>3. IdsMatchQueue'
    BY <1>1, <1>5, <2>1, <2>2 DEF IdsInv, IdsMatchQueue
  <2>4. IdsTellApart'
    BY <1>5, <2>1, <2>2 DEF IdsInv, IdsTellApart, Numbered
  <2>5. HandIsPopped'
    BY <1>4, <1>5, <2>2 DEF IdsInv, HandIsPopped, IdsMatchQueue, TypeOK
  <2>6. StopIsDecisive'
    BY <1>2, <1>5, <2>2 DEF IdsInv, IdsMatchQueue, TypeOK, StopIsDecisive
  <2> QED BY <2>3, <2>4, <2>5, <2>6 DEF IdsInv
<1> QED BY <1>6, <1>7

(* stopEvent() finds the id of an event that is queued.                    *)
LEMMA StopKeepsIds ==
  ASSUME IdsInv, StopIsDecisive, TypeOK', NEW e \in Events, StopEvent(e)
  PROVE  IdsInv' /\ StopIsDecisive'
<1>1. e \in m_eventList /\ e \notin stopped
  BY ActiveIsQueued DEF StopEvent
<1>2. /\ m_eventIds' = m_eventIds \ {id[e]}
      /\ stopped' = stopped \cup {e}
      /\ UNCHANGED <<m_eventList, m_lastEvent, id, status, task, run>>
  BY DEF StopEvent, threadVars
<1>3. m_eventList \subseteq Events /\ status[e] = "queued"
  BY <1>1 DEF IdsInv, IdsMatchQueue, TypeOK
<1>4. \A f \in m_eventList : id[f] = id[e] => f = e
  BY <1>1, <1>3 DEF IdsInv, IdsTellApart
<1>5. {id[f] : f \in m_eventList \ stopped} \ {id[e]} =
        {id[f] : f \in m_eventList \ (stopped \cup {e})}
  BY <1>4
<1>6. IdsMatchQueue'
  BY <1>2, <1>5 DEF IdsInv, IdsMatchQueue
<1>7. IdsTellApart'
  BY <1>1, <1>2 DEF IdsInv, IdsTellApart, Numbered
<1>8. HandIsPopped'
  BY <1>2 DEF IdsInv, HandIsPopped
<1>9. StopIsDecisive'
  BY <1>2, <1>3, SchedulerAssumption DEF IdsInv, HandIsPopped, StopIsDecisive
<1> QED BY <1>6, <1>7, <1>8, <1>9 DEF IdsInv

(* A popped event leaves the queue and its id the active ones.             *)
LEMMA PopKeepsIds ==
  ASSUME IdsInv, StopIsDecisive, TypeOK', NEW e \in Tops, Pop(e),
         UNCHANGED <<m_lastEvent, id, stopped>>
  PROVE  IdsInv' /\ StopIsDecisive'
<1>1. e \in m_eventList /\ e \in Events /\ m_eventList \subseteq Events
  BY DEF Tops, IdsInv, IdsMatchQueue, TypeOK
<1>2. \A f \in m_eventList : id[f] = id[e] => f = e
  BY <1>1 DEF IdsInv, IdsTellApart
<1>3. {id[f] : f \in m_eventList \ stopped} \ {id[e]} =
        {id[f] : f \in (m_eventList \ {e}) \ stopped}
  BY <1>2
<1>4. \A f \in Events : status'[f] = IF f = e THEN "popped" ELSE status[f]
  BY DEF Pop, IdsInv, IdsMatchQueue, TypeOK
<1>5. IdsMatchQueue'
  BY <1>1, <1>3, <1>4 DEF Pop, IdsInv, IdsMatchQueue
<1>6. IdsTellApart'
  BY <1>4 DEF Pop, IdsInv, IdsTellApart, Numbered
<1>7. HandIsPopped'
  BY <1>1, <1>4 DEF Pop, HandIsPopped
<1>8. e \in stopped => id[e] \notin m_eventIds
  BY <1>1, ActiveIsQueued
<1>9. StopIsDecisive'
  BY <1>1, <1>4, <1>8 DEF Pop, IdsInv, IdsMatchQueue, TypeOK, StopIsDecisive
<1> QED BY <1>5, <1>6, <1>7, <1>9 DEF IdsInv

LEMMA IdsInductive ==
  ASSUME IdsInv, StopIsDecisive, TypeOK', [Next]_vars
  PROVE  IdsInv' /\ StopIsDecisive'
<1>1. ASSUME UNCHANGED <<m_eventList, m_eventIds, m_lastEvent, id, status, stopped, task, run>>
      PROVE  IdsInv' /\ StopIsDecisive'
  BY <1>1 DEF IdsInv, IdsMatchQueue, IdsTellApart, Numbered, HandIsPopped, StopIsDecisive
<1>2. ASSUME NEW c \in Callers, NEW delay \in Delays, AddEvent(c, delay)
      PROVE  IdsInv' /\ StopIsDecisive'
  BY <1>2, AddKeepsIds
<1>3. ASSUME NEW c \in Callers, Notify(c) PROVE IdsInv' /\ StopIsDecisive'
  BY <1>1, <1>3 DEF Notify, queueVars
<1>4. ASSUME NEW e \in Events, StopEvent(e) PROVE IdsInv' /\ StopIsDecisive'
  BY <1>4, StopKeepsIds
<1>5. CASE Shutdown
  <2>1. /\ m_eventList' = {} /\ m_eventIds' = {}
        /\ status' = [e \in Events |-> IF e \in m_eventList THEN "cleared" ELSE status[e]]
        /\ UNCHANGED <<m_lastEvent, id, task, run, stopped>>
    BY <1>5 DEF Shutdown, threadVars
  <2>2. IdsMatchQueue'
    <3>1. \A e \in Events : status'[e] # "queued"
      BY <2>1 DEF IdsInv, IdsMatchQueue
    <3> QED BY <2>1, <3>1 DEF IdsMatchQueue
  <2>3. IdsTellApart'
    BY <2>1 DEF IdsInv, IdsTellApart, Numbered
  <2>4. HandIsPopped'
    <3>1. task # NoEvent => task \in Events /\ task \notin m_eventList
      BY DEF IdsInv, IdsMatchQueue, HandIsPopped, TypeOK
    <3> QED BY <2>1, <3>1 DEF IdsInv, HandIsPopped
  <2>5. StopIsDecisive'
    BY <2>1 DEF IdsInv, IdsMatchQueue, TypeOK, StopIsDecisive
  <2> QED BY <2>2, <2>3, <2>4, <2>5 DEF IdsInv
<1>6. CASE Relock
  <2>1. CASE ret \/ m_threadState = "TERMINATED" \/ m_eventList = {}
    BY <1>1, <1>6, <2>1 DEF Relock
  <2>2. CASE ~(ret \/ m_threadState = "TERMINATED" \/ m_eventList = {})
    BY <1>6, <2>2, PopKeepsIds DEF Relock
  <2> QED BY <2>1, <2>2
<1>7. CASE HandOver
  <2>1. task \in Events /\ status[task] = "popped"
    BY <1>7 DEF HandOver, IdsInv, IdsMatchQueue, HandIsPopped, TypeOK
  <2>2. /\ status' = [status EXCEPT ![task] = IF run THEN "dispatched" ELSE "deleted"]
        /\ task' = NoEvent /\ run' = FALSE
        /\ UNCHANGED <<m_eventList, m_eventIds, m_lastEvent, id, stopped>>
    BY <1>7 DEF HandOver
  <2>3. \A e \in Events : status'[e] = IF e # task THEN status[e]
                                       ELSE IF run THEN "dispatched" ELSE "deleted"
    BY <2>2 DEF IdsInv, IdsMatchQueue, TypeOK
  <2>4. IdsMatchQueue'
    BY <2>1, <2>2, <2>3 DEF IdsInv, IdsMatchQueue
  <2>5. IdsTellApart'
    BY <2>2, <2>3 DEF IdsInv, IdsTellApart, Numbered
  <2>6. HandIsPopped'
    BY <2>2 DEF HandIsPopped
  <2>7. StopIsDecisive'
    BY <2>1, <2>2, <2>3 DEF IdsInv, IdsMatchQueue, TypeOK, StopIsDecisive
  <2> QED BY <2>4, <2>5, <2>6, <2>7 DEF IdsInv
<1>8. CASE Stop \/ Tick
  BY <1>1, <1>8 DEF Stop, Tick, queueVars, threadVars
<1>9. CASE Loop \/ Lock \/ Timeout \/ SpuriousWakeup
  BY <1>1, <1>9 DEF Loop, Lock, Timeout, SpuriousWakeup, queueVars
<1>10. CASE UNCHANGED vars
  BY <1>1, <1>10 DEF vars
<1> QED
  BY <1>2, <1>3, <1>4, <1>5, <1>6, <1>7, <1>8, <1>9, <1>10 DEF Next, SchedulerThread
-----------------------------------------------------------------------------
LEMMA IdsInvariant == Spec => [](IdsInv /\ StopIsDecisive)
<1>1. Init => IdsInv /\ StopIsDecisive
  <2> SUFFICES ASSUME Init, TypeOK PROVE IdsInv /\ StopIsDecisive
    BY InitTypes
  <2>1. m_eventList = {} /\ m_eventIds = {} /\ stopped = {} /\ m_lastEvent = 0 /\ task = NoEvent
    BY DEF Init
  <2>2. \A e \in Events : id[e] = 0 /\ status[e] = "new"
    BY DEF Init
  <2>3. Numbered = {} /\ Cardinality(Numbered) = 0
    BY <2>2, FS_EmptySet DEF Numbered
  <2>4. IdsMatchQueue
    BY <2>1, <2>2 DEF IdsMatchQueue
  <2>5. IdsTellApart
    BY <2>1, <2>2, <2>3 DEF IdsTellApart
  <2> QED BY <2>1, <2>4, <2>5 DEF IdsInv, HandIsPopped, StopIsDecisive
<1>2. IdsInv /\ StopIsDecisive /\ TypeOK' /\ [Next]_vars => IdsInv' /\ StopIsDecisive'
  BY IdsInductive
<1> QED BY <1>1, <1>2, TypeInvariant, PTL DEF Spec

(* The active ids are those of the queued events that were not stopped.    *)
THEOREM IdsMatchQueueHolds == Spec => []IdsMatchQueue
<1>1. IdsInv => IdsMatchQueue
  BY DEF IdsInv
<1> QED BY <1>1, IdsInvariant, PTL

(* An event for which stopEvent() returned true is never handed over.      *)
THEOREM StopIsDecisiveHolds == Spec => []StopIsDecisive
BY IdsInvariant, PTL
-----------------------------------------------------------------------------
(* addEvent() wakes the thread unless an event is due no later than the    *)
(* new one, and that one the thread's deadline was set for.                *)
LEMMA AddKeepsSleep ==
  ASSUME IdsInv, SleepInv, NEW c \in Callers, NEW delay \in Delays, AddEvent(c, delay)
  PROVE  SleepInv'
<1> DEFINE e == Fresh
           due == now + (IF delay < MinTicks THEN MinTicks ELSE delay)
<1>1. e \in Events /\ e \notin m_eventList /\ (pc = "handover" => task # e)
  <2>1. e \in Events /\ status[e] = "new"
    BY FreshIsNew DEF AddEvent
  <2> QED BY <2>1 DEF IdsInv, IdsMatchQueue, HandIsPopped, TypeOK
<1>2. UNCHANGED <<m_threadState, pc, ret, task, deadline, slept, now>>
  BY DEF AddEvent, threadVars
<1>3. due \in Nat /\ deadline \in Nat /\ now \in Nat /\ m_eventList \subseteq Events
  BY SchedulerAssumption DEF IdsInv, IdsMatchQueue, TypeOK
<1>4. ~signal[c] /\ (m_threadState = "RUNNING" => m_threadState # "TERMINATED")
  BY DEF AddEvent
<1>5. CASE m_threadState = "RUNNING"
  <2>1. /\ cycle' = [cycle EXCEPT ![e] = due]
        /\ m_eventList' = m_eventList \cup {e}
        /\ signal' = [signal EXCEPT ![c] = TopsList(due)]
    BY <1>5 DEF AddEvent
  <2>2. /\ cycle \in [Events -> Nat]
        /\ signal \in [Callers -> BOOLEAN]
        /\ pc = "handover" => task \in Events
    BY DEF IdsInv, IdsMatchQueue, TypeOK
  <2> HIDE DEF due, e
  <2>3. \A f \in Events : cycle'[f] = IF f = e THEN due ELSE cycle[f]
    BY <2>1, <2>2
  <2>4. \/ \E d \in Callers : signal'[d]
        \/ /\ pc = "waiting" => m_eventList' = {}
           /\ pc = "timed" => \A f \in m_eventList' : deadline <= cycle'[f]
    <3>1. CASE TopsList(due)
      <4>1. signal'[c]
        BY <2>1, <2>2, <3>1
      <4> QED BY <4>1
    <3>2. CASE ~TopsList(due)
      <4>1. PICK o \in m_eventList : cycle[o] <= due
        BY <1>3, <2>2, <3>2 DEF TopsList
      <4>2. CASE \E d \in Callers : signal[d]
        <5>1. PICK d \in Callers : signal[d]
          BY <4>2
        <5>2. signal'[d]
          BY <1>4, <2>1, <2>2, <5>1
        <5> QED BY <5>2
      <4>3. CASE ~\E d \in Callers : signal[d]
        <5>1. pc # "waiting"
          BY <4>1, <4>3 DEF SleepInv, SleepsUntilDue
        <5>2. pc = "timed" => \A f \in m_eventList : deadline <= cycle[f]
          BY <4>3 DEF SleepInv, SleepsUntilDue
        <5>3. pc = "timed" => deadline <= due
          BY <1>3, <2>2, <4>1, <5>2
        <5> QED BY <1>1, <1>3, <2>1, <2>3, <5>1, <5>2, <5>3
      <4> QED BY <4>2, <4>3
    <3> QED BY <3>1, <3>2
  <2>5. pc = "handover" /\ slept = "timed" => cycle'[task] <= now
    BY <1>1, <2>2, <2>3 DEF SleepInv, SleepsUntilDue
  <2>6. \A t \in Nat : (\E f \in m_eventList : cycle[f] <= t)
                         => \E f \in m_eventList' : cycle'[f] <= t
    BY <1>1, <1>3, <2>1, <2>3
  <2>7. TimeoutHasEvent'
    BY <1>2, <1>3, <1>4, <1>5, <2>6 DEF SleepInv, TimeoutHasEvent
  <2> QED BY <1>2, <2>4, <2>5, <2>7 DEF SleepInv, SleepsUntilDue
<1>6. CASE m_threadState # "RUNNING"
  <2>1. UNCHANGED <<cycle, m_eventList, signal>>
    BY <1>6 DEF AddEvent
  <2> QED BY <1>2, <2>1 DEF SleepInv, SleepsUntilDue, TimeoutHasEvent
<1> QED BY <1>5, <1>6

LEMMA SleepInductive ==
  ASSUME IdsInv, SleepInv, TypeOK', [Next]_vars
  PROVE  SleepInv'
<1> USE DEF SleepInv, SleepsUntilDue, TimeoutHasEvent
<1>1. TypeOK
  BY DEF IdsInv, IdsMatchQueue
<1>2. ASSUME NEW c \in Callers, NEW delay \in Delays, AddEvent(c, delay) PROVE SleepInv'
  BY <1>2, AddKeepsSleep
<1>3. ASSUME NEW c \in Callers, Notify(c) PROVE SleepInv'
  <2>1. CASE pc \in {"waiting", "timed"}
    <3>1. pc' = "relock" /\ ret' = (pc = "timed") /\ slept' = pc /\ UNCHANGED m_threadState
      BY <1>3, <2>1 DEF Notify
    <3>2. slept' = "timed" => ret'
      BY <3>1
    <3> QED BY <3>1, <3>2
  <2>2. CASE pc \notin {"waiting", "timed"}
    <3>1. UNCHANGED <<m_threadState, pc, ret, slept, m_eventList, cycle, task, now, deadline>>
      BY <1>3, <2>2 DEF Notify, queueVars
    <3> QED BY <2>2, <3>1
  <2> QED BY <2>1, <2>2
<1>4. ASSUME NEW e \in Events, StopEvent(e) PROVE SleepInv'
  BY <1>4 DEF StopEvent, threadVars
<1>5. CASE Stop
  BY <1>5 DEF Stop, queueVars, threadVars
<1>6. CASE Shutdown
  BY <1>6 DEF Shutdown, threadVars
<1>7. CASE Tick
  <2>1. now' >= now /\ now' \in Nat /\ now \in Nat /\ cycle \in [Events -> Nat]
        /\ m_eventList \subseteq Events /\ (pc = "handover" => task \in Events)
    BY <1>1, <1>7 DEF Tick, TypeOK
  <2>2. UNCHANGED <<m_threadState, m_eventList, cycle, signal, pc, ret, task, deadline, slept>>
    BY <1>7 DEF Tick, queueVars, threadVars
  <2> QED BY <2>1, <2>2
<1>8. CASE Loop
  BY <1>8 DEF Loop
<1>9. CASE Lock
  <2>1. CASE m_eventList = {}
    BY <1>9, <2>1 DEF Lock, queueVars
  <2>2. CASE m_eventList # {}
    <3>1. PICK e \in Tops : deadline' = cycle[e]
      BY <1>9, <2>2 DEF Lock
    <3>2. pc' = "timed" /\ UNCHANGED <<m_eventList, cycle>>
      BY <1>9, <2>2 DEF Lock, queueVars
    <3>3. e \in m_eventList /\ cycle[e] <= cycle[e] /\ \A o \in m_eventList : cycle[e] <= cycle[o]
      BY DEF Tops
    <3> QED BY <3>1, <3>2, <3>3
  <2> QED BY <2>1, <2>2
<1>10. CASE Timeout
  <2>1. now \in Nat /\ deadline \in Nat /\ cycle \in [Events -> Nat] /\ m_eventList \subseteq Events
    BY <1>1 DEF TypeOK
  <2> QED BY <1>10, <2>1 DEF Timeout, queueVars
<1>11. CASE SpuriousWakeup
  <2>1. pc' = "relock" /\ ret' = (pc = "timed") /\ slept' = pc /\ UNCHANGED m_threadState
    BY <1>11 DEF SpuriousWakeup
  <2>2. slept' = "timed" => ret'
    BY <2>1
  <2> QED BY <2>1, <2>2
<1>12. CASE Relock
  <2>1. CASE ret \/ m_threadState = "TERMINATED" \/ m_eventList = {}
    BY <1>12, <2>1 DEF Relock
  <2>2. CASE ~(ret \/ m_threadState = "TERMINATED" \/ m_eventList = {})
    <3>1. PICK e \in Tops : Pop(e)
      BY <1>12, <2>2 DEF Relock
    <3>2. pc' = "handover" /\ task' = e /\ UNCHANGED <<slept, now, cycle>>
      BY <1>12, <2>2, <3>1 DEF Relock, Pop
    <3>3. slept = "timed" => cycle[e] <= now
      <4>1. slept = "timed" => \E f \in m_eventList : cycle[f] <= now
        BY <1>12, <2>2 DEF Relock
      <4>2. \A f \in m_eventList : cycle[e] <= cycle[f]
        BY DEF Tops
      <4> QED BY <1>1, <4>1, <4>2 DEF TypeOK, Tops
    <3> QED BY <3>2, <3>3
  <2> QED BY <2>1, <2>2
<1>13. CASE HandOver
  BY <1>13 DEF HandOver
<1>14. CASE UNCHANGED vars
  BY <1>14 DEF vars
<1> QED
  BY <1>2, <1>3, <1>4, <1>5, <1>6, <1>7, <1>8, <1>9, <1>10, <1>11, <1>12, <1>13, <1>14
  DEF Next, SchedulerThread

(* The thread never sleeps past an event, nor ends a timed wait early.     *)
THEOREM SleepsUntilDueHolds == Spec => []SleepsUntilDue
<1>1. Init => SleepInv
  BY DEF Init, SleepInv, SleepsUntilDue, TimeoutHasEvent
<1>2. SleepInv /\ IdsInv /\ TypeOK' /\ [Next]_vars => SleepInv'
  BY SleepInductive
<1>3. SleepInv => SleepsUntilDue
  BY DEF SleepInv
<1> QED BY <1>1, <1>2, <1>3, IdsInvariant, TypeInvariant, PTL DEF Spec
=============================================================================
