----------------------------- MODULE Dispatcher -----------------------------
(***************************************************************************)
(* The dispatcher of src/src/dispatcher.cpp: a list of tasks that any      *)
(* thread of the server fills and that one thread, the dispatcher thread,  *)
(* empties.  All game logic runs in that thread, so everything the rest of *)
(* the server assumes about mutual exclusion and about the order in which  *)
(* two requests are carried out rests on this component.                   *)
(*                                                                         *)
(* m_taskLock is a plain boost::mutex.  Its critical sections are steps    *)
(* of this specification, except the one of shutdown(), which runs tasks   *)
(* while it holds the lock and takes many steps.                           *)
(***************************************************************************)
EXTENDS Naturals, Sequences

CONSTANTS
  Threads,   \* threads other than the dispatcher's that call addTask
  Tasks,     \* the tasks of one execution, each posted at most once
  Timed,     \* the tasks created with an expiration
  Closers,   \* tasks running Game::setGameState(GAME_STATE_SHUTDOWN)
  Halters,   \* tasks running Game::shutdown
  HaltOf,    \* the Game::shutdown task that each closer posts
  NoTask     \* the NULL of `Task* task`

ASSUME DispatcherAssumption ==
  /\ Timed \subseteq Tasks
  /\ Closers \subseteq Tasks
  /\ Halters \subseteq Tasks
  /\ Closers \cap Halters = {}
  /\ HaltOf \in [Closers -> Halters]
  /\ NoTask \notin Tasks

VARIABLES
  m_threadState,  \* Dispatcher::m_threadState
  m_taskList,     \* Dispatcher::m_taskList
  m_taskLock,     \* "free", or "flush" while shutdown() holds it over its loop
  pc,             \* where the dispatcher thread is
  task,           \* the task the dispatcher thread has taken
  want,           \* the task the running task is about to post
  signal,         \* signal[th]: th left addTask's critical section, notify_one is due
  status,         \* what became of each task
  past,           \* the tasks whose expiration lies in the past
  stamp,          \* history: stamp[t] > 0 numbers the tasks pushed at the back
  posts           \* history: how many tasks were pushed at the back

vars == <<m_threadState, m_taskList, m_taskLock, pc, task, want, signal,
          status, past, stamp, posts>>

ThreadStates == {"RUNNING", "CLOSING", "TERMINATED"}
Statuses == {"new", "queued", "taken", "done", "expired", "dropped"}
Locations == {"loop", "lock", "waiting", "relock", "taken", "running",
              "posting", "stopping", "halting", "flush", "exited"}

Posted == {HaltOf[c] : c \in Closers}   \* these come from a closer only

(* Game::gameState = GAME_STATE_SHUTDOWN, for a task other than `task`.    *)
ShuttingDown == \E c \in Closers : status[c] = "done"
-----------------------------------------------------------------------------
(* The constructor: the thread starts with an empty list.                  *)
Init ==
  /\ m_threadState = "RUNNING"
  /\ m_taskList = <<>>
  /\ m_taskLock = "free"
  /\ pc = "loop"
  /\ task = NoTask
  /\ want = NoTask
  /\ signal = [th \in Threads |-> FALSE]
  /\ status = [t \in Tasks |-> "new"]
  /\ past = {}
  /\ stamp = [t \in Tasks |-> 0]
  /\ posts = 0

(* Mutant: the newest task goes first unless the caller asks otherwise.    *)
PushSwapped(t, front) ==
  /\ m_taskLock = "free"
  /\ m_threadState = "RUNNING"
  /\ m_taskList' = IF front THEN Append(m_taskList, t) ELSE <<t>> \o m_taskList
  /\ status' = [status EXCEPT ![t] = "queued"]
  /\ stamp' = IF front THEN stamp ELSE [stamp EXCEPT ![t] = posts + 1]
  /\ posts' = IF front THEN posts ELSE posts + 1

(***************************************************************************)
(* addTask's critical section for task t: front is its second argument.    *)
(* A task that comes after stop() is forgotten (and leaked).               *)
(***************************************************************************)
Push(t, front) ==
  /\ m_taskLock = "free"
  /\ IF m_threadState = "RUNNING"
       THEN /\ m_taskList' = IF front THEN <<t>> \o m_taskList
                                      ELSE Append(m_taskList, t)
            /\ status' = [status EXCEPT ![t] = "queued"]
            /\ stamp' = IF front THEN stamp ELSE [stamp EXCEPT ![t] = posts + 1]
            /\ posts' = IF front THEN posts ELSE posts + 1
       ELSE /\ status' = [status EXCEPT ![t] = "dropped"]
            /\ UNCHANGED <<m_taskList, stamp, posts>>

(* Mutant: looks at the list after the push.                               *)
SignalLate == m_threadState = "RUNNING" /\ Len(m_taskList) = 1

(* The wake-up is due when the list was empty before the push.             *)
MustSignal == m_threadState = "RUNNING" /\ m_taskList = <<>>

(***************************************************************************)
(* addTask called by another thread: the io thread, the scheduler thread   *)
(* or a signal handler.  Game::shutdown is posted from outside by SIGTERM, *)
(* setGameState(SHUTDOWN) by SIGQUIT.                                      *)
(***************************************************************************)
AddTask(th, t, front) ==
  /\ pc # "exited"
  /\ ~signal[th]
  /\ status[t] = "new"
  /\ t \notin Posted \cup {want}
  /\ Push(t, front)
  /\ signal' = [signal EXCEPT ![th] = MustSignal]
  /\ UNCHANGED <<m_threadState, m_taskLock, pc, task, want, past>>

(* m_taskSignal.notify_one(), after the mutex was released.                *)
Notify(th) ==
  /\ pc # "exited"
  /\ signal[th]
  /\ signal' = [signal EXCEPT ![th] = FALSE]
  /\ pc' = IF pc = "waiting" THEN "relock" ELSE pc
  /\ UNCHANGED <<m_threadState, m_taskList, m_taskLock, task, want, status,
                 past, stamp, posts>>

(* Time passes the expiration of a task that has one.                      *)
Expire(t) ==
  /\ t \in Timed \ past
  /\ past' = past \cup {t}
  /\ UNCHANGED <<m_threadState, m_taskList, m_taskLock, pc, task, want,
                 signal, status, stamp, posts>>
-----------------------------------------------------------------------------
(* dispatcherThread: the loop's condition, read without the lock.          *)
Loop ==
  /\ pc = "loop"
  /\ pc' = IF m_threadState = "TERMINATED" THEN "exited" ELSE "lock"
  /\ UNCHANGED <<m_threadState, m_taskList, m_taskLock, task, want, signal,
                 status, past, stamp, posts>>

(* Mutant: takes tasks only while RUNNING, not until TERMINATED.           *)
TakeRunning ==
  IF m_taskList # <<>> /\ m_threadState = "RUNNING"
    THEN /\ task' = Head(m_taskList)
         /\ m_taskList' = Tail(m_taskList)
         /\ status' = [status EXCEPT ![Head(m_taskList)] = "taken"]
         /\ pc' = "taken"
    ELSE /\ pc' = "loop"
         /\ UNCHANGED <<task, m_taskList, status>>

(* Takes the first task, the lock being held.                              *)
TakeFirst ==
  IF m_taskList # <<>> /\ m_threadState # "TERMINATED"
    THEN /\ task' = Head(m_taskList)
         /\ m_taskList' = Tail(m_taskList)
         /\ status' = [status EXCEPT ![Head(m_taskList)] = "taken"]
         /\ pc' = "taken"
    ELSE /\ pc' = "loop"
         /\ UNCHANGED <<task, m_taskList, status>>

(* taskLockUnique.lock(): waits on the condition when there is no task.    *)
Lock ==
  /\ pc = "lock"
  /\ m_taskLock = "free"
  /\ IF m_taskList = <<>>
       THEN pc' = "waiting" /\ UNCHANGED <<task, m_taskList, status>>
       ELSE TakeFirst
  /\ UNCHANGED <<m_threadState, m_taskLock, want, signal, past, stamp, posts>>

(* wait() may also return with no notification.                            *)
SpuriousWakeup ==
  /\ pc = "waiting"
  /\ pc' = "relock"
  /\ UNCHANGED <<m_threadState, m_taskList, m_taskLock, task, want, signal,
                 status, past, stamp, posts>>

(* wait() has the lock again.                                              *)
Relock ==
  /\ pc = "relock"
  /\ m_taskLock = "free"
  /\ TakeFirst
  /\ UNCHANGED <<m_threadState, m_taskLock, want, signal, past, stamp, posts>>

(* The task is run, or only deleted when hasExpired().                     *)
Start ==
  /\ pc = "taken"
  /\ IF task \in past
       THEN /\ status' = [status EXCEPT ![task] = "expired"]
            /\ task' = NoTask
            /\ pc' = "loop"
       ELSE pc' = "running" /\ UNCHANGED <<task, status>>
  /\ UNCHANGED <<m_threadState, m_taskList, m_taskLock, want, signal, past,
                 stamp, posts>>
-----------------------------------------------------------------------------
(***************************************************************************)
(* A frame: the task itself, then sendAll(), which releases messages.      *)
(* Both may call addTask in the dispatcher thread.  The notification is    *)
(* then without effect: the only thread that ever waits is this one.       *)
(***************************************************************************)
WantPost(t) ==
  /\ pc = "running"
  /\ task \notin Halters
  /\ status[t] = "new"
  /\ t \in Posted => /\ task \in Closers
                      /\ t = HaltOf[task]
                      /\ ~ShuttingDown
  /\ want' = t
  /\ pc' = "posting"
  /\ UNCHANGED <<m_threadState, m_taskList, m_taskLock, task, signal, status,
                 past, stamp, posts>>

(* addTask in the dispatcher thread; after a closer's halter comes stop(). *)
Post(front) ==
  /\ pc = "posting"
  /\ want \in Posted => ~front
  /\ Push(want, front)
  /\ want' = NoTask
  /\ pc' = IF want \in Posted THEN "stopping" ELSE "running"
  /\ UNCHANGED <<m_threadState, m_taskLock, task, signal, past>>

(* stop(), the last statement of setGameState(GAME_STATE_SHUTDOWN).        *)
Stop ==
  /\ pc = "stopping"
  /\ m_taskLock = "free"
  /\ m_threadState' = "CLOSING"
  /\ pc' = "running"
  /\ UNCHANGED <<m_taskList, m_taskLock, task, want, signal, status, past,
                 stamp, posts>>

(* The frame ends: back to the loop, or to flush() inside shutdown().      *)
Finish ==
  /\ pc = "running"
  /\ task \notin Halters
  /\ task \in Closers => m_threadState = "CLOSING" \/ ShuttingDown
  /\ status' = [status EXCEPT ![task] = "done"]
  /\ task' = NoTask
  /\ pc' = IF m_taskLock = "flush" THEN "flush" ELSE "loop"
  /\ UNCHANGED <<m_threadState, m_taskList, m_taskLock, want, signal, past,
                 stamp, posts>>

(* Game::shutdown reaches Dispatcher::shutdown.                            *)
Halt ==
  /\ pc = "running"
  /\ task \in Halters
  /\ pc' = "halting"
  /\ UNCHANGED <<m_threadState, m_taskList, m_taskLock, task, want, signal,
                 status, past, stamp, posts>>

(* shutdown() takes the lock, which is not recursive, and begins flush().  *)
Shutdown ==
  /\ pc = "halting"
  /\ m_taskLock = "free"
  /\ m_taskLock' = "flush"
  /\ m_threadState' = "TERMINATED"
  /\ status' = [status EXCEPT ![task] = "done"]
  /\ task' = NoTask
  /\ pc' = "flush"
  /\ UNCHANGED <<m_taskList, want, signal, past, stamp, posts>>

(* Mutant: empties the list from its end.                                  *)
FlushBackwards ==
  /\ pc = "flush"
  /\ IF m_taskList = <<>>
       THEN /\ m_taskLock' = "free"
            /\ pc' = "exited"
            /\ UNCHANGED <<task, m_taskList, status>>
       ELSE /\ task' = m_taskList[Len(m_taskList)]
            /\ m_taskList' = SubSeq(m_taskList, 1, Len(m_taskList) - 1)
            /\ status' = [status EXCEPT ![task'] = "taken"]
            /\ pc' = "running"
            /\ UNCHANGED m_taskLock
  /\ UNCHANGED <<m_threadState, want, signal, past, stamp, posts>>

(* flush() runs every task left, expired or not, with the lock held.       *)
Flush ==
  /\ pc = "flush"
  /\ IF m_taskList = <<>>
       THEN /\ m_taskLock' = "free"
            /\ pc' = "exited"
            /\ UNCHANGED <<task, m_taskList, status>>
       ELSE /\ task' = Head(m_taskList)
            /\ m_taskList' = Tail(m_taskList)
            /\ status' = [status EXCEPT ![Head(m_taskList)] = "taken"]
            /\ pc' = "running"
            /\ UNCHANGED m_taskLock
  /\ UNCHANGED <<m_threadState, want, signal, past, stamp, posts>>
-----------------------------------------------------------------------------
Frame == \/ \E t \in Tasks : WantPost(t)
         \/ \E front \in BOOLEAN : Post(front)
         \/ Stop \/ Finish \/ Halt \/ Shutdown

DispatcherThread == Loop \/ Lock \/ Relock \/ Start \/ Frame \/ Flush

Next ==
  \/ DispatcherThread
  \/ SpuriousWakeup
  \/ \E th \in Threads, t \in Tasks, front \in BOOLEAN : AddTask(th, t, front)
  \/ \E th \in Threads : Notify(th)
  \/ \E t \in Tasks : Expire(t)

(***************************************************************************)
(* The operating system runs the dispatcher thread and every thread that   *)
(* owes a notification; a task ends (no task of the server loops for       *)
(* ever).  Nobody owes the dispatcher a spurious wake-up, a new task or    *)
(* an expiration.                                                          *)
(***************************************************************************)
Spec == Init /\ [][Next]_vars

FairSpec == /\ Spec
            /\ WF_vars(DispatcherThread)
            /\ \A th \in Threads : WF_vars(Notify(th))
-----------------------------------------------------------------------------
(***************************************************************************)
(* Types, and where the pointers and the lock of the dispatcher thread may *)
(* be at each of its locations: a task is held from the moment it leaves   *)
(* the list until it is deleted, and the lock is kept over several steps   *)
(* inside shutdown() only.                                                 *)
(***************************************************************************)
TypeOK ==
  /\ m_threadState \in ThreadStates
  /\ m_taskList \in Seq(Tasks)
  /\ m_taskLock \in {"free", "flush"}
  /\ pc \in Locations
  /\ task \in Tasks \cup {NoTask}
  /\ want \in Tasks \cup {NoTask}
  /\ signal \in [Threads -> BOOLEAN]
  /\ status \in [Tasks -> Statuses]
  /\ past \subseteq Timed
  /\ stamp \in [Tasks -> Nat]
  /\ posts \in Nat
  /\ (task # NoTask) <=> (pc \in {"taken", "running", "posting", "stopping", "halting"})
  /\ (want # NoTask) <=> (pc = "posting")
  /\ (m_taskLock = "flush") => (pc \in {"flush", "running", "posting", "halting"})

ListedOnce ==
  /\ \A i \in DOMAIN m_taskList : status[m_taskList[i]] = "queued"
  /\ \A t \in Tasks : status[t] = "queued" => \E i \in DOMAIN m_taskList : m_taskList[i] = t
  /\ \A i, j \in DOMAIN m_taskList : m_taskList[i] = m_taskList[j] => i = j

HandMatches ==
  /\ \A t \in Tasks : (status[t] = "taken") <=> (t = task)
  /\ want # NoTask => status[want] = "new"

(***************************************************************************)
(* The list and the fate of the tasks agree: a task is in the list exactly *)
(* while its status is "queued", and only once; the task in hand is not in *)
(* the list any more, so the thread that runs it may delete it; a task     *)
(* that is about to be posted was never posted.                            *)
(***************************************************************************)
ListMatchesStatus == ListedOnce /\ HandMatches

(***************************************************************************)
(* The thread never sleeps on a non-empty list unless somebody still owes  *)
(* it a notification.  addTask notifies after it has released the mutex    *)
(* and only when the list was empty, so one lost notification would leave  *)
(* the whole game waiting until the list had been emptied - that is, for   *)
(* ever.                                                                   *)
(***************************************************************************)
NoLostWakeup ==
  (pc = "waiting" /\ m_taskList # <<>>) => \E th \in Threads : signal[th]

(***************************************************************************)
(* Tasks posted at the back are taken in the order they were posted,       *)
(* whatever is pushed in front of them meanwhile.  The protocol classes    *)
(* rely on it: ProtocolGame::login and parsePacket post tasks bound to a   *)
(* raw `this` that a later task of the same queue deletes.                 *)
(***************************************************************************)
FifoOrder ==
  /\ \A i, j \in DOMAIN m_taskList :
       i < j /\ stamp[m_taskList[i]] > 0 /\ stamp[m_taskList[j]] > 0
         => stamp[m_taskList[i]] < stamp[m_taskList[j]]
  /\ \A t \in Tasks, i \in DOMAIN m_taskList :
       stamp[t] > 0 /\ status[t] # "queued" /\ stamp[m_taskList[i]] > 0
         => stamp[t] < stamp[m_taskList[i]]

(* Both: no task is lost, listed twice or overtaken.                       *)
ListInOrder == ListMatchesStatus /\ FifoOrder

(***************************************************************************)
(* To the rest of the server the dispatcher is a TaskQueue: threads, locks *)
(* and wake-ups apart, tasks are carried out one after the other from the  *)
(* front of the list, by the loop as well as by flush(), and the list      *)
(* stops growing only when a task says so.                                 *)
(***************************************************************************)
Queue == INSTANCE TaskQueue WITH
           queue <- m_taskList, current <- task, fate <- status,
           open <- m_threadState = "RUNNING"

ImplementsTaskQueue == Queue!Spec

(* shutdown() waits for the mutex it holds itself.                         *)
SelfBlocked == m_taskLock = "flush" /\ pc \in {"posting", "halting"}

(***************************************************************************)
(* Every task that got into the list is run or, past its expiration,       *)
(* deleted - also after stop() - unless the dispatcher blocked itself in   *)
(* shutdown().                                                             *)
(***************************************************************************)
TaskHandled ==
  \A t \in Tasks : status[t] = "queued" ~> status[t] \in {"done", "expired"} \/ SelfBlocked

(***************************************************************************)
(* "//shutdown" (src/src/otserv.cpp:281): once Game::shutdown has begun,   *)
(* the process exits.                                                      *)
(***************************************************************************)
ShutdownCompletes == (pc = "running" /\ task \in Halters) ~> pc = "exited"
=============================================================================
