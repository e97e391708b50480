------------------------------ MODULE Scheduler ------------------------------
(***************************************************************************)
(* The scheduler of src/src/scheduler.cpp: delayed tasks wait in a         *)
(* priority queue until their cycle comes, and the scheduler thread then   *)
(* hands them to the dispatcher.  stopEvent() does not search the queue:   *)
(* it erases the event's id from m_eventIds, and the thread deletes an     *)
(* event whose id it does not find there when the event's turn comes.      *)
(*                                                                         *)
(* Every critical section of m_eventLock is one step; so is everything     *)
(* the thread does between a return of wait() and its unlock().            *)
(***************************************************************************)
EXTENDS Naturals, FiniteSets

CONSTANTS
  Callers,   \* threads that call addEvent: the dispatcher's, a signal handler
  Events,    \* the SchedulerTask objects of one execution
  Delays,    \* delays asked for
  MinTicks,  \* SCHEDULER_MINTICKS
  MaxId,     \* 0xFFFFFFFF, the last event id
  MaxTime,   \* bound: the time at which the model's clock stops
  NoEvent    \* the NULL of `SchedulerTask* task`

ASSUME SchedulerAssumption ==
  /\ Delays \subseteq Nat \ {0}
  /\ MinTicks \in Nat \ {0}
  /\ MaxId \in Nat \ {0}
  /\ MaxTime \in Nat
  /\ NoEvent \notin Events

(* No id comes round again while its event is outstanding: 2^32 events are *)
(* far more than one run of the server schedules.                          *)
ASSUME IdsSuffice == IsFiniteSet(Events) /\ Cardinality(Events) <= MaxId

VARIABLES
  m_threadState, \* Scheduler::m_threadState
  m_eventList,   \* Scheduler::m_eventList, the events in the priority queue
  m_eventIds,    \* Scheduler::m_eventIds, the ids of the active events
  m_lastEvent,   \* Scheduler::m_lastEvent
  id,            \* SchedulerTask::m_eventId of each event
  cycle,         \* getCycle() of each event, the time it is due
  pc,            \* where the scheduler thread is
  ret,           \* what timed_wait() returned
  task,          \* the event the thread has popped
  run,           \* the popped event was not stopped
  deadline,      \* the time timed_wait() was given
  signal,        \* signal[c]: c left addEvent's critical section, notify_one is due
  now,           \* the clock
  status,        \* what became of each event
  stopped,       \* history: the events for which stopEvent returned true
  slept          \* history: the kind of wait that ended last

vars == <<m_threadState, m_eventList, m_eventIds, m_lastEvent, id, cycle, pc,
          ret, task, run, deadline, signal, now, status, stopped, slept>>

queueVars == <<m_eventList, m_eventIds, m_lastEvent, id, cycle, status>>
threadVars == <<pc, ret, task, run, deadline, slept>>

Statuses == {"new", "queued", "popped", "dispatched", "deleted", "cleared", "dropped"}
Locations == {"loop", "lock", "waiting", "timed", "relock", "handover", "crashed", "exited"}

(* top(): an event with the earliest cycle.                                *)
Tops == {e \in m_eventList : \A o \in m_eventList : cycle[e] <= cycle[o]}
-----------------------------------------------------------------------------
Init ==
  /\ m_threadState = "RUNNING"
  /\ m_eventList = {}
  /\ m_eventIds = {}
  /\ m_lastEvent = 0
  /\ id = [e \in Events |-> 0]
  /\ cycle = [e \in Events |-> 0]
  /\ pc = "loop"
  /\ ret = FALSE
  /\ task = NoEvent
  /\ run = FALSE
  /\ deadline = 0
  /\ signal = [c \in Callers |-> FALSE]
  /\ now = 0
  /\ status = [e \in Events |-> "new"]
  /\ stopped = {}
  /\ slept = "none"

NextId == IF m_lastEvent >= MaxId THEN 1 ELSE m_lastEvent + 1

(* Mutant: signals only when the list was empty, as addTask does.          *)
TopsListWhenEmpty(due) == m_eventList = {}

(* Mutant: compares the event with the top of a queue that has one.        *)
TopsOtherEvent(due) == m_eventList # {} /\ \A o \in m_eventList : due < cycle[o]

(* push() puts an event on top when every other one is due later.          *)
TopsList(due) == \A o \in m_eventList : due < cycle[o]

(* The object that createSchedulerTask() allocates next: any will do.      *)
Fresh == CHOOSE e \in Events : status[e] = "new"

(* createSchedulerTask() with a delay, then addEvent().                    *)
AddEvent(c, delay) ==
  LET due == now + (IF delay < MinTicks THEN MinTicks ELSE delay)
      e == Fresh
  IN
  /\ ~signal[c]
  /\ \E x \in Events : status[x] = "new"
  /\ due <= MaxTime
  /\ IF m_threadState = "RUNNING"
       THEN /\ m_lastEvent' = NextId
            /\ id' = [id EXCEPT ![e] = NextId]
            /\ cycle' = [cycle EXCEPT ![e] = due]
            /\ m_eventIds' = m_eventIds \cup {NextId}
            /\ m_eventList' = m_eventList \cup {e}
            /\ status' = [status EXCEPT ![e] = "queued"]
            /\ signal' = [signal EXCEPT ![c] = TopsList(due)]
       ELSE /\ status' = [status EXCEPT ![e] = "dropped"]
            /\ UNCHANGED <<m_lastEvent, id, cycle, m_eventIds, m_eventList, signal>>
  /\ UNCHANGED <<m_threadState, threadVars, now, stopped>>

(* m_eventSignal.notify_one(), after the mutex was released.               *)
Notify(c) ==
  /\ signal[c]
  /\ signal' = [signal EXCEPT ![c] = FALSE]
  /\ IF pc \in {"waiting", "timed"}
       THEN pc' = "relock" /\ ret' = (pc = "timed") /\ slept' = pc
       ELSE UNCHANGED <<pc, ret, slept>>
  /\ UNCHANGED <<m_threadState, queueVars, task, run, deadline, now, stopped>>

(* stopEvent() with the id that addEvent() returned for e.                 *)
StopEvent(e) ==
  /\ id[e] # 0
  /\ id[e] \in m_eventIds
  /\ m_eventIds' = m_eventIds \ {id[e]}
  /\ stopped' = stopped \cup {e}
  /\ UNCHANGED <<m_threadState, m_eventList, m_lastEvent, id, cycle, threadVars,
                 signal, now, status>>

(* stop(), called by setGameState(GAME_STATE_SHUTDOWN).                    *)
Stop ==
  /\ m_threadState = "RUNNING"
  /\ m_threadState' = "CLOSING"
  /\ UNCHANGED <<queueVars, threadVars, signal, now, stopped>>

(* shutdown(), called by Game::shutdown: no notification follows.          *)
Shutdown ==
  /\ m_threadState # "TERMINATED"
  /\ m_threadState' = "TERMINATED"
  /\ m_eventList' = {}
  /\ m_eventIds' = {}
  /\ status' = [e \in Events |-> IF e \in m_eventList THEN "cleared" ELSE status[e]]
  /\ UNCHANGED <<m_lastEvent, id, cycle, threadVars, signal, now, stopped>>

(* Time passes.                                                            *)
Tick ==
  /\ now < MaxTime
  /\ now' = now + 1
  /\ UNCHANGED <<m_threadState, queueVars, threadVars, signal, stopped>>
-----------------------------------------------------------------------------
(* schedulerThread: the loop's condition, read without the lock.           *)
Loop ==
  /\ pc = "loop"
  /\ IF m_threadState = "TERMINATED"
       THEN pc' = "exited" /\ UNCHANGED ret
       ELSE pc' = "lock" /\ ret' = FALSE
  /\ deadline' = 0
  /\ slept' = "none"
  /\ UNCHANGED <<m_threadState, queueVars, task, run, signal, now, stopped>>

(* Waits for a signal, or until the top event is due.                      *)
Lock ==
  /\ pc = "lock"
  /\ IF m_eventList = {}
       THEN pc' = "waiting" /\ UNCHANGED deadline
       ELSE pc' = "timed" /\ \E e \in Tops : deadline' = cycle[e]
  /\ UNCHANGED <<m_threadState, queueVars, ret, task, run, slept, signal, now, stopped>>

Timeout ==
  /\ pc = "timed"
  /\ now >= deadline
  /\ pc' = "relock"
  /\ ret' = FALSE
  /\ slept' = "timed"
  /\ UNCHANGED <<m_threadState, queueVars, task, run, deadline, signal, now, stopped>>

(* Both waits may return with no notification, before their time is up.    *)
SpuriousWakeup ==
  /\ pc \in {"waiting", "timed"}
  /\ pc = "timed" => now < deadline
  /\ pc' = "relock"
  /\ ret' = (pc = "timed")
  /\ slept' = pc
  /\ UNCHANGED <<m_threadState, queueVars, task, run, deadline, signal, now, stopped>>

(* Mutant: an event is run whether or not its id is still active.          *)
PopAnyway(e) ==
  /\ m_eventList' = m_eventList \ {e}
  /\ task' = e
  /\ run' = TRUE
  /\ m_eventIds' = m_eventIds \ {id[e]}
  /\ status' = [status EXCEPT ![e] = "popped"]

(* Mutant: the id of a popped event stays active.                          *)
PopKeepingId(e) ==
  /\ m_eventList' = m_eventList \ {e}
  /\ task' = e
  /\ run' = (id[e] \in m_eventIds)
  /\ m_eventIds' = m_eventIds
  /\ status' = [status EXCEPT ![e] = "popped"]

(* The event is popped; it is to be run if its id was active.              *)
Pop(e) ==
  /\ m_eventList' = m_eventList \ {e}
  /\ task' = e
  /\ run' = (id[e] \in m_eventIds)
  /\ m_eventIds' = m_eventIds \ {id[e]}
  /\ status' = [status EXCEPT ![e] = "popped"]

(* The wait has the mutex again and took ret for a timeout.  top() of an   *)
(* empty priority queue is undefined: "crashed" stands for any outcome.    *)
Relock ==
  /\ pc = "relock"
  /\ IF ret \/ m_threadState = "TERMINATED"
       THEN pc' = "loop" /\ UNCHANGED <<m_eventList, task, run, m_eventIds, status>>
     ELSE IF m_eventList = {}
       THEN pc' = "crashed" /\ UNCHANGED <<m_eventList, task, run, m_eventIds, status>>
     ELSE pc' = "handover" /\ \E e \in Tops : Pop(e)
  /\ UNCHANGED <<m_threadState, m_lastEvent, id, cycle, ret, deadline, slept,
                 signal, now, stopped>>

(* Dispatcher::addTask(task), or delete task when it was stopped.          *)
HandOver ==
  /\ pc = "handover"
  /\ status' = [status EXCEPT ![task] = IF run THEN "dispatched" ELSE "deleted"]
  /\ task' = NoEvent
  /\ run' = FALSE
  /\ pc' = "loop"
  /\ UNCHANGED <<m_threadState, m_eventList, m_eventIds, m_lastEvent, id, cycle,
                 ret, deadline, slept, signal, now, stopped>>
-----------------------------------------------------------------------------
SchedulerThread == Loop \/ Lock \/ Timeout \/ Relock \/ HandOver

Next ==
  \/ pc # "crashed" /\ SchedulerThread
  \/ SpuriousWakeup
  \/ \E c \in Callers, delay \in Delays : AddEvent(c, delay)
  \/ \E c \in Callers : Notify(c)
  \/ \E e \in Events : StopEvent(e)
  \/ Stop
  \/ Shutdown
  \/ Tick

Spec == Init /\ [][Next]_vars

(* The thread runs, notifications that are due happen, and time passes.    *)
FairSpec == /\ Spec
            /\ WF_vars(SchedulerThread)
            /\ \A c \in Callers : WF_vars(Notify(c))
            /\ WF_vars(Tick)
-----------------------------------------------------------------------------
(* Types; the thread holds an event between its pop and its hand-over.     *)
TypeOK ==
  /\ m_threadState \in {"RUNNING", "CLOSING", "TERMINATED"}
  /\ m_eventList \subseteq Events
  /\ m_eventIds \subseteq 1 .. MaxId
  /\ m_lastEvent \in 0 .. MaxId
  /\ id \in [Events -> 0 .. MaxId]
  /\ cycle \in [Events -> Nat]
  /\ pc \in Locations
  /\ ret \in BOOLEAN
  /\ task \in Events \cup {NoEvent}
  /\ run \in BOOLEAN
  /\ deadline \in Nat
  /\ signal \in [Callers -> BOOLEAN]
  /\ now \in Nat
  /\ status \in [Events -> Statuses]
  /\ stopped \subseteq Events
  /\ slept \in {"none", "waiting", "timed"}
  /\ (task # NoEvent) <=> (pc = "handover")

(***************************************************************************)
(* m_eventIds holds exactly the ids of the queued events that were not     *)
(* stopped.  A stale id would make a later stopEvent() claim that it had   *)
(* stopped an event that has run already; a missing one would silently     *)
(* drop an event, and with it a recurring job of the game.                 *)
(***************************************************************************)
IdsMatchQueue ==
  /\ TypeOK
  /\ m_eventList = {e \in Events : status[e] = "queued"}
  /\ m_eventIds = {id[e] : e \in m_eventList \ stopped}

(***************************************************************************)
(* stopEvent() returning true is final: the event is never handed to the   *)
(* dispatcher, although it stays in the queue until it is due.  Creature,  *)
(* Player, Raid and Spawn cancel their pending walk, action or check this  *)
(* way and then schedule a new one.                                        *)
(***************************************************************************)
StopIsDecisive ==
  \A e \in stopped : status[e] # "dispatched" /\ ~(task = e /\ run)

(***************************************************************************)
(* The thread never sleeps past an event: unless a notification is due, it *)
(* sleeps without a limit only while nothing is queued and with one only   *)
(* up to the earliest queued event.  Nor does a timed wait end too early:  *)
(* what is popped at its end is due.  (What is popped at the end of an     *)
(* unlimited wait need not be, see below.)                                 *)
(***************************************************************************)
SleepsUntilDue ==
  /\ \/ \E c \in Callers : signal[c]
     \/ /\ pc = "waiting" => m_eventList = {}
        /\ pc = "timed" => \A e \in m_eventList : deadline <= cycle[e]
  /\ pc = "handover" /\ slept = "timed" => cycle[task] <= now

(***************************************************************************)
(* An event is handed over in the end unless it is stopped, the server     *)
(* shuts down, or the thread popped an empty queue.                        *)
(***************************************************************************)
EventDispatched ==
  \A e \in Events :
    status[e] = "queued" ~>
      \/ status[e] = "dispatched"
      \/ e \in stopped
      \/ m_threadState = "TERMINATED"
      \/ pc = "crashed"

(***************************************************************************)
(* "ok we had a timeout, so there has to be an event we have to execute"   *)
(* (src/src/scheduler.cpp:57): where the code believes that it had a       *)
(* timeout, an event is queued and due.                                    *)
(***************************************************************************)
TimeoutMeansDue ==
  pc = "relock" /\ ~ret /\ m_threadState # "TERMINATED" =>
    \E e \in m_eventList : cycle[e] <= now
=============================================================================
