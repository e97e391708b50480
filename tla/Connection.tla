----------------------------- MODULE Connection -----------------------------
(***************************************************************************)
(* The life of one client connection: src/src/connection.cpp with the      *)
(* parts of outputmessage.cpp, protocol.cpp and protocolgame.cpp that      *)
(* touch it.  Two threads share it.  The io thread (Server::run) completes *)
(* reads and writes; the dispatcher thread runs the game, writes messages, *)
(* and closes and deletes the connection.  Output messages, connection and *)
(* protocol keep each other alive with reference counts, and everything    *)
(* that frees one of them is a task of the dispatcher.                     *)
(*                                                                         *)
(* A critical section of m_connectionLock is one step.  ioLocks counts the *)
(* times the io thread still holds that (recursive) lock when its handler  *)
(* has returned.  The dispatcher holds m_outputPoolLock while it is in     *)
(* "sendAll" or "send".                                                    *)
(***************************************************************************)
EXTENDS Integers, Sequences, FiniteSets

CONSTANTS
  Msgs,  \* OutputMessage objects of the pool (bound: the pool grows in the code)
  NoMsg  \* no message

VARIABLES
  m_closeState,       \* Connection::m_closeState
  m_pendingRead,      \* Connection::m_pendingRead
  m_pendingWrite,     \* Connection::m_pendingWrite
  m_writeError,       \* Connection::m_writeError
  m_socketClosed,     \* Connection::m_socketClosed
  m_outputQueue,      \* Connection::m_outputQueue
  m_refCount,         \* Connection::m_refCount
  m_protocol,         \* Connection::m_protocol # NULL
  connection,         \* "alive" or "deleted"
  protocol,           \* the ProtocolGame object: "none", "alive" or "deleted"
  m_connection,       \* Protocol::m_connection # NULL
  protocolRefs,       \* Protocol::m_refCount
  client,             \* a player's client is this protocol
  m_autoSend,         \* this protocol's message in OutputMessagePool::m_autoSend
  m_outputMessages,   \* OutputMessagePool::m_outputMessages, the free messages
  tasks,              \* the dispatcher's list: "login", "close", "releaseProtocol",
                      \* "releaseConnection", "game", or a message that was released
  scheduled,          \* the scheduler's events, of the same kinds
  dispatcher,         \* where the dispatcher thread is
  ioLocks,            \* m_connectionLock held by the io thread between handlers
  reading,            \* the outstanding async_read: "none", "header" or "packet"
  writing,            \* the message of the outstanding async_write
  dropping            \* the message whose last reference the io thread drops next

connVars == <<m_closeState, m_pendingRead, m_pendingWrite, m_writeError,
              m_socketClosed, m_outputQueue, m_protocol>>
protVars == <<protocol, m_connection, client>>
refVars == <<m_refCount, protocolRefs, m_outputMessages>>
ioVars == <<ioLocks, reading, writing, dropping>>
vars == <<connVars, connection, protVars, refVars, m_autoSend, tasks, scheduled,
          dispatcher, ioVars>>

Kinds == {"login", "close", "releaseProtocol", "releaseConnection", "game"}

(* The release of a message is another task than these.                    *)
ASSUME ConnectionAssumption ==
  NoMsg \notin Msgs /\ IsFiniteSet(Msgs) /\ Msgs \cap Kinds = {}

(* How many tasks and events of kind k are pending.                        *)
Count(k) == Cardinality({i \in DOMAIN tasks : tasks[i] = k}) + (IF k \in scheduled THEN 1 ELSE 0)
-----------------------------------------------------------------------------
(* Server::onAccept has called accept(): the first header is being read.   *)
Init ==
  /\ m_closeState = "NONE"
  /\ m_pendingRead = 1
  /\ m_pendingWrite = 0
  /\ m_writeError = FALSE
  /\ m_socketClosed = FALSE
  /\ m_outputQueue = <<>>
  /\ m_protocol = FALSE
  /\ connection = "alive"
  /\ protocol = "none"
  /\ m_connection = FALSE
  /\ client = FALSE
  /\ m_refCount = 0
  /\ protocolRefs = 0
  /\ m_outputMessages = Msgs
  /\ m_autoSend = NoMsg
  /\ tasks = <<>>
  /\ scheduled = {}
  /\ dispatcher = "idle"
  /\ ioLocks = 0
  /\ reading = "header"
  /\ writing = NoMsg
  /\ dropping = NoMsg

(* The handlers run one after the other in the one io thread.              *)
IoReady == dropping = NoMsg

(* The dispatcher gets m_connectionLock.                                   *)
DispatcherLocks == ioLocks = 0

(* What close() posts: nothing when it was called before.                  *)
CloseTask == IF m_closeState = "NONE" THEN <<"close">> ELSE <<>>
CloseRequested == IF m_closeState = "NONE" THEN "REQUESTED" ELSE m_closeState

(***************************************************************************)
(* closingConnection() with the given counters: it closes the socket when  *)
(* no write is pending any more, and it posts releaseConnection, unlocks   *)
(* and returns true when no read is pending either.                        *)
(***************************************************************************)
ClosesSocket(writes, failed) == writes = 0 \/ failed
Releases(reads, writes, failed) == ClosesSocket(writes, failed) /\ reads = 0
ReleaseTask(reads, writes, failed) ==
  IF Releases(reads, writes, failed) THEN <<"releaseConnection">> ELSE <<>>

(* getOutputMessage(): m leaves the pool and refers to both objects.       *)
Allocate(m) ==
  /\ m \in m_outputMessages
  /\ m_outputMessages' = m_outputMessages \ {m}
  /\ m_refCount' = m_refCount + 1
  /\ protocolRefs' = protocolRefs + 1

(* send() refuses; the caller then drops the message.                      *)
Refuses == m_closeState = "CLOSING" \/ m_writeError

(***************************************************************************)
(* send(m): refused, written at once, or queued behind the write that is   *)
(* pending.  When m is refused the pool posts its release, in front of the *)
(* tasks; `then` are the tasks the caller posts at the back.               *)
(***************************************************************************)
Send(m, then) ==
  IF Refuses
    THEN /\ tasks' = <<m>> \o tasks \o then
         /\ UNCHANGED <<m_pendingWrite, writing, m_outputQueue>>
    ELSE /\ tasks' = tasks \o then
         /\ IF m_pendingWrite = 0
              THEN m_pendingWrite' = 1 /\ writing' = m /\ UNCHANGED m_outputQueue
              ELSE /\ m_outputQueue' = Append(m_outputQueue, m)
                   /\ UNCHANGED <<m_pendingWrite, writing>>
-----------------------------------------------------------------------------
(* The io thread.                                                          *)

(* A read completes while CLOSING: parseHeader and parsePacket return.     *)
ReadWhileClosing ==
  /\ IoReady
  /\ reading # "none"
  /\ m_closeState = "CLOSING"
  /\ reading' = "none"
  /\ m_pendingRead' = m_pendingRead - 1
  /\ m_socketClosed' = (m_socketClosed \/ ClosesSocket(m_pendingWrite, m_writeError))
  /\ tasks' = tasks \o ReleaseTask(m_pendingRead - 1, m_pendingWrite, m_writeError)
  /\ UNCHANGED <<m_closeState, m_pendingWrite, m_writeError, m_outputQueue, m_protocol,
                 connection, protVars, refVars, m_autoSend, scheduled, dispatcher,
                 ioLocks, writing, dropping>>

(* parseHeader with a good size: reads the packet.                         *)
ReadHeader ==
  /\ IoReady
  /\ reading = "header"
  /\ m_closeState # "CLOSING"
  /\ reading' = "packet"
  /\ UNCHANGED <<connVars, connection, protVars, refVars, m_autoSend, tasks,
                 scheduled, dispatcher, ioLocks, writing, dropping>>

(* A read error, a bad size, or the first packet of an unknown protocol:   *)
(* close(), and nothing more is read.                                      *)
ReadError ==
  /\ IoReady
  /\ reading # "none"
  /\ m_closeState # "CLOSING"
  /\ reading' = "none"
  /\ m_pendingRead' = m_pendingRead - 1
  /\ m_closeState' = CloseRequested
  /\ tasks' = tasks \o CloseTask
  /\ UNCHANGED <<m_pendingWrite, m_writeError, m_socketClosed, m_outputQueue, m_protocol,
                 connection, protVars, refVars, m_autoSend, scheduled, dispatcher,
                 ioLocks, writing, dropping>>

(* parsePacket is called back with a packet, which it handles and then     *)
(* reads the next header: m_pendingRead goes down and up again.            *)
Packet ==
  /\ IoReady
  /\ reading = "packet"
  /\ m_closeState # "CLOSING"
  /\ reading' = "header"
  /\ UNCHANGED <<m_pendingRead, m_writeError, m_socketClosed, connection, client,
                 m_autoSend, scheduled, dispatcher, ioLocks, dropping>>

NewProtocol ==
  /\ ~m_protocol
  /\ m_protocol' = TRUE
  /\ protocol' = "alive"
  /\ m_connection' = TRUE

(* The first packet passes ProtocolGame::parseFirstPacket.                 *)
FirstPacketAccepted ==
  /\ Packet
  /\ NewProtocol
  /\ tasks' = Append(tasks, "login")
  /\ UNCHANGED <<m_closeState, m_pendingWrite, m_outputQueue, refVars, writing>>

(* The first packet is refused in the io thread: disconnectClient(), which *)
(* needs m_outputPoolLock, or only close() when RSA_decrypt fails.         *)
FirstPacketRefused ==
  /\ Packet
  /\ NewProtocol
  /\ m_closeState' = CloseRequested
  /\ \/ /\ dispatcher \notin {"sendAll", "send"}
        /\ \E m \in Msgs : Allocate(m) /\ Send(m, CloseTask)
     \/ /\ tasks' = tasks \o CloseTask
        /\ UNCHANGED <<refVars, m_pendingWrite, writing, m_outputQueue>>

(* A later packet: ProtocolGame::parsePacket posts a task of the game.     *)
NextPacket ==
  /\ Packet
  /\ m_protocol
  /\ UNCHANGED <<m_closeState, m_pendingWrite, m_outputQueue, m_protocol, protocol,
                 m_connection, refVars, tasks, writing>>

(***************************************************************************)
(* onWriteOperation's last lines, after the write is accounted for: while  *)
(* CLOSING it locks once more where it should unlock, unless the           *)
(* connection has been released.                                           *)
(***************************************************************************)
AfterWrite(writes, failed, then) ==
  IF m_closeState = "CLOSING"
    THEN /\ m_socketClosed' = (m_socketClosed \/ ClosesSocket(writes, failed))
         /\ tasks' = tasks \o ReleaseTask(m_pendingRead, writes, failed)
         /\ ioLocks' = IF Releases(m_pendingRead, writes, failed) THEN ioLocks ELSE ioLocks + 2
    ELSE /\ tasks' = tasks \o then
         /\ UNCHANGED <<m_socketClosed, ioLocks>>

(* Mutant: unlocks the connection before it has looked at the queue.       *)
WriteDoneForgetsQueue ==
  /\ IoReady
  /\ writing # NoMsg
  /\ dropping' = writing
  /\ m_pendingWrite' = m_pendingWrite - 1
  /\ writing' = NoMsg
  /\ AfterWrite(m_pendingWrite', m_writeError, <<>>)
  /\ UNCHANGED <<m_closeState, m_pendingRead, m_writeError, m_outputQueue, m_protocol,
                 connection, protVars, refVars, m_autoSend, scheduled, dispatcher, reading>>

(* onWriteOperation without an error: writes the next queued message.      *)
WriteDone ==
  /\ IoReady
  /\ writing # NoMsg
  /\ dropping' = writing
  /\ IF m_outputQueue # <<>>
       THEN /\ writing' = Head(m_outputQueue)
            /\ m_outputQueue' = Tail(m_outputQueue)
            /\ UNCHANGED m_pendingWrite
       ELSE /\ writing' = NoMsg
            /\ m_pendingWrite' = m_pendingWrite - 1
            /\ UNCHANGED m_outputQueue
  /\ AfterWrite(m_pendingWrite', m_writeError, <<>>)
  /\ UNCHANGED <<m_closeState, m_pendingRead, m_writeError, m_protocol,
                 connection, protVars, refVars, m_autoSend, scheduled, dispatcher, reading>>

(* onWriteOperation with an error: handleWriteError.                       *)
WriteFailed ==
  /\ IoReady
  /\ writing # NoMsg
  /\ dropping' = writing
  /\ writing' = NoMsg
  /\ m_pendingWrite' = m_pendingWrite - 1
  /\ m_writeError' = TRUE
  /\ m_closeState' = CloseRequested
  /\ AfterWrite(m_pendingWrite', TRUE, CloseTask)
  /\ UNCHANGED <<m_pendingRead, m_outputQueue, m_protocol, connection, protVars,
                 refVars, m_autoSend, scheduled, dispatcher, reading>>

(* The completed handler is destroyed and with it the last reference to    *)
(* its message: OutputMessagePool::releaseMessage posts in front.          *)
DropMessage ==
  /\ dropping # NoMsg
  /\ tasks' = <<dropping>> \o tasks
  /\ dropping' = NoMsg
  /\ UNCHANGED <<connVars, connection, protVars, refVars, m_autoSend, scheduled,
                 dispatcher, ioLocks, reading, writing>>
-----------------------------------------------------------------------------
(* The dispatcher thread.  A frame runs one task and ends with sendAll().  *)

(* The scheduler hands an event of releaseProtocol or releaseConnection on.*)
EventDue(k) ==
  /\ k \in scheduled
  /\ scheduled' = scheduled \ {k}
  /\ tasks' = Append(tasks, k)
  /\ UNCHANGED <<connVars, connection, protVars, refVars, m_autoSend, dispatcher, ioVars>>

Take(k) ==
  /\ dispatcher = "idle"
  /\ tasks # <<>>
  /\ Head(tasks) = k
  /\ tasks' = Tail(tasks)

(* ProtocolGame::login and closeConnectionTask run after they are taken.   *)
TakeLogin ==
  /\ Take("login")
  /\ dispatcher' = "login"
  /\ UNCHANGED <<connVars, connection, protVars, refVars, m_autoSend, scheduled, ioVars>>

TakeClose ==
  /\ Take("close")
  /\ dispatcher' = "closeTask"
  /\ UNCHANGED <<connVars, connection, protVars, refVars, m_autoSend, scheduled, ioVars>>

(***************************************************************************)
(* Another task: an event of the game or a packet of a client.  Bound: one *)
(* is in the list at a time; there may be any number before and after it.  *)
(***************************************************************************)
PostGame ==
  /\ Count("game") = 0
  /\ tasks' = Append(tasks, "game")
  /\ UNCHANGED <<connVars, connection, protVars, refVars, m_autoSend, scheduled,
                 dispatcher, ioVars>>

(* It may do something for this player while it has a client.              *)
TakeGame ==
  /\ Take("game")
  /\ dispatcher' = IF client THEN "frame" ELSE "sendAll"
  /\ UNCHANGED <<connVars, connection, protVars, refVars, m_autoSend, scheduled, ioVars>>

(* login() lets the player in, or sends a message and disconnects.         *)
LoginAccepted ==
  /\ dispatcher = "login"
  /\ client' = TRUE
  /\ dispatcher' = "frame"
  /\ UNCHANGED <<connVars, connection, protocol, m_connection, refVars, m_autoSend,
                 tasks, scheduled, ioVars>>

LoginRefused ==
  /\ dispatcher = "login"
  /\ DispatcherLocks
  /\ \E m \in Msgs : Allocate(m) /\ Send(m, <<>>)
  /\ dispatcher' = "close"
  /\ UNCHANGED <<m_closeState, m_pendingRead, m_writeError, m_socketClosed, m_protocol,
                 connection, protVars, m_autoSend, scheduled, ioLocks, reading, dropping>>

(* getOutputBuffer(): the protocol's autosend message, made when needed.   *)
Write(m) ==
  /\ dispatcher = "frame"
  /\ client
  /\ m_connection
  /\ m_autoSend = NoMsg
  /\ Allocate(m)
  /\ m_autoSend' = m
  /\ UNCHANGED <<connVars, connection, protVars, tasks, scheduled, dispatcher, ioVars>>

(* The game disconnects the player: close() is called, then carried out.   *)
CallClose ==
  /\ dispatcher = "frame"
  /\ client
  /\ m_connection
  /\ dispatcher' = "close"
  /\ UNCHANGED <<connVars, connection, protVars, refVars, m_autoSend, tasks, scheduled, ioVars>>

Close ==
  /\ dispatcher = "close"
  /\ DispatcherLocks
  /\ m_closeState' = CloseRequested
  /\ tasks' = tasks \o CloseTask
  /\ dispatcher' = "frame"
  /\ UNCHANGED <<m_pendingRead, m_pendingWrite, m_writeError, m_socketClosed, m_outputQueue,
                 m_protocol, connection, protVars, refVars, m_autoSend, scheduled, ioVars>>

EndTask ==
  /\ dispatcher = "frame"
  /\ dispatcher' = "sendAll"
  /\ UNCHANGED <<connVars, connection, protVars, refVars, m_autoSend, tasks, scheduled, ioVars>>

(***************************************************************************)
(* closeConnectionTask(): detaches the protocol and begins to close.  (In  *)
(* another state it only logs an error; ClosesOnce shows it is never so.)  *)
(***************************************************************************)
CloseConnectionTask ==
  /\ dispatcher = "closeTask"
  /\ DispatcherLocks
  /\ m_closeState = "REQUESTED"
  /\ m_closeState' = "CLOSING"
  /\ m_protocol' = FALSE
  /\ m_connection' = FALSE
  /\ m_socketClosed' = (m_socketClosed \/ ClosesSocket(m_pendingWrite, m_writeError))
  /\ tasks' = tasks \o (IF m_protocol THEN <<"releaseProtocol">> ELSE <<>>)
                    \o ReleaseTask(m_pendingRead, m_pendingWrite, m_writeError)
  /\ dispatcher' = "sendAll"
  /\ UNCHANGED <<m_pendingRead, m_pendingWrite, m_writeError, m_outputQueue, connection,
                 protocol, client, refVars, m_autoSend, scheduled, ioVars>>

(* Mutant: deletes the protocol without looking at its references.         *)
ReleaseProtocolNow ==
  /\ Take("releaseProtocol")
  /\ client' = FALSE
  /\ protocol' = "deleted"
  /\ dispatcher' = "sendAll"
  /\ UNCHANGED <<connVars, connection, m_connection, refVars, m_autoSend, scheduled, ioVars>>

(* releaseProtocol(), of ProtocolGame and of Protocol.                     *)
ReleaseProtocol ==
  /\ Take("releaseProtocol")
  /\ client' = FALSE
  /\ IF protocolRefs > 0
       THEN scheduled' = scheduled \cup {"releaseProtocol"} /\ UNCHANGED protocol
       ELSE protocol' = "deleted" /\ UNCHANGED scheduled
  /\ dispatcher' = "sendAll"
  /\ UNCHANGED <<connVars, connection, m_connection, refVars, m_autoSend, ioVars>>

(* Mutant: deletes the connection without looking at its references.       *)
ReleaseConnectionNow ==
  /\ Take("releaseConnection")
  /\ connection' = "deleted"
  /\ dispatcher' = "sendAll"
  /\ UNCHANGED <<connVars, protVars, refVars, m_autoSend, scheduled, ioVars>>

(* Mutant: does not try again.                                             *)
ReleaseConnectionOnce ==
  /\ Take("releaseConnection")
  /\ connection' = IF m_refCount > 0 THEN connection ELSE "deleted"
  /\ dispatcher' = "sendAll"
  /\ UNCHANGED <<connVars, protVars, refVars, m_autoSend, scheduled, ioVars>>

(* releaseConnection(): deletes it, or tries again later.                  *)
ReleaseConnection ==
  /\ Take("releaseConnection")
  /\ IF m_refCount > 0
       THEN scheduled' = scheduled \cup {"releaseConnection"} /\ UNCHANGED connection
       ELSE connection' = "deleted" /\ UNCHANGED scheduled
  /\ dispatcher' = "sendAll"
  /\ UNCHANGED <<connVars, protVars, refVars, m_autoSend, ioVars>>

(* Mutant: forgets the reference of the protocol.                          *)
FreeMessageOnly(m) ==
  /\ Take(m)
  /\ m_refCount' = m_refCount - 1
  /\ m_outputMessages' = m_outputMessages \cup {m}
  /\ dispatcher' = "sendAll"
  /\ UNCHANGED <<connVars, connection, protVars, protocolRefs, m_autoSend, scheduled, ioVars>>

(* internalReleaseMessage(m).                                              *)
FreeMessage(m) ==
  /\ Take(m)
  /\ m_refCount' = m_refCount - 1
  /\ protocolRefs' = protocolRefs - 1
  /\ m_outputMessages' = m_outputMessages \cup {m}
  /\ dispatcher' = "sendAll"
  /\ UNCHANGED <<connVars, connection, protVars, m_autoSend, scheduled, ioVars>>

(* sendAll() finds the message old or big enough; then it sends it.        *)
MessageDue ==
  /\ dispatcher = "sendAll"
  /\ m_autoSend # NoMsg
  /\ dispatcher' = "send"
  /\ UNCHANGED <<connVars, connection, protVars, refVars, m_autoSend, tasks, scheduled, ioVars>>

SendAll ==
  /\ dispatcher = "send"
  /\ DispatcherLocks
  /\ Send(m_autoSend, <<>>)
  /\ m_autoSend' = NoMsg
  /\ dispatcher' = "idle"
  /\ UNCHANGED <<m_closeState, m_pendingRead, m_writeError, m_socketClosed, m_protocol,
                 connection, protVars, refVars, scheduled, ioLocks, reading, dropping>>

SendNothing ==
  /\ dispatcher = "sendAll"
  /\ dispatcher' = "idle"
  /\ UNCHANGED <<connVars, connection, protVars, refVars, m_autoSend, tasks, scheduled, ioVars>>
-----------------------------------------------------------------------------
Read == ReadWhileClosing \/ ReadHeader \/ ReadError \/ FirstPacketAccepted
          \/ FirstPacketRefused \/ NextPacket
Io == Read \/ WriteDone \/ WriteFailed \/ DropMessage


(* The steps that take a task from the list, and those that go on with it. *)
TakeTask ==
  \/ TakeLogin \/ TakeGame \/ TakeClose \/ ReleaseProtocol \/ ReleaseConnection
  \/ \E m \in Msgs : FreeMessage(m)
RunTask ==
  \/ LoginAccepted \/ LoginRefused \/ CallClose \/ Close \/ CloseConnectionTask
  \/ \E m \in Msgs : Write(m)

Next ==
  \/ Io
  \/ \E k \in Kinds : EventDue(k)
  \/ PostGame \/ TakeTask \/ RunTask \/ EndTask \/ MessageDue \/ SendAll \/ SendNothing

Spec == Init /\ [][Next]_vars

(***************************************************************************)
(* The dispatcher takes its tasks (see Dispatcher), and the game always    *)
(* has a periodic event to run; a task ends; a message gets older than     *)
(* 10 ms, so it is sent in the end if frames go on; events come due; a     *)
(* write completes or fails; a read completes once the socket is closed.   *)
(* A client need not send anything.                                        *)
(***************************************************************************)
FairSpec ==
  /\ Spec
  /\ WF_vars(TakeTask)
  /\ WF_vars(RunTask)
  /\ SF_vars(EndTask)
  /\ WF_vars(PostGame)
  /\ SF_vars(MessageDue)
  /\ WF_vars(SendAll)
  /\ WF_vars(SendNothing)
  /\ \A k \in Kinds : WF_vars(EventDue(k))
  /\ WF_vars(WriteDone \/ WriteFailed)
  /\ WF_vars(DropMessage)
  /\ WF_vars(ReadWhileClosing /\ m_socketClosed)
-----------------------------------------------------------------------------
Elements(s) == {s[i] : i \in DOMAIN s}

(* Types; the counters count the operations that are outstanding.          *)
TypeOK ==
  /\ m_closeState \in {"NONE", "REQUESTED", "CLOSING"}
  /\ m_pendingRead = IF reading = "none" THEN 0 ELSE 1
  /\ m_pendingWrite = IF writing = NoMsg THEN 0 ELSE 1
  /\ {m_writeError, m_socketClosed, m_protocol, m_connection, client} \subseteq BOOLEAN
  /\ m_outputQueue \in Seq(Msgs)
  /\ m_refCount \in Nat /\ protocolRefs \in Nat
  /\ connection \in {"alive", "deleted"}
  /\ protocol \in {"none", "alive", "deleted"}
  /\ {m_autoSend, writing, dropping} \subseteq Msgs \cup {NoMsg}
  /\ m_outputMessages \subseteq Msgs
  /\ Elements(tasks) \subseteq Kinds \cup Msgs
  /\ scheduled \subseteq Kinds
  /\ dispatcher \in {"idle", "login", "frame", "close", "closeTask", "sendAll", "send"}
  /\ ioLocks \in Nat
  /\ reading \in {"none", "header", "packet"}

(***************************************************************************)
(* A message that is not in the pool is in exactly one place, and it is    *)
(* counted once in both reference counters.  The counters are what         *)
(* releaseConnection and releaseProtocol trust before they delete: counted *)
(* too low, a write completes on freed memory; too high, the object stays. *)
(***************************************************************************)
RefsCountMessages ==
  LET places == ({m_autoSend} \cup {writing} \cup {dropping} \cup Elements(m_outputQueue)
                    \cup Elements(tasks)) \ ({NoMsg} \cup Kinds)
      count(m) == (IF m_autoSend = m THEN 1 ELSE 0) + (IF writing = m THEN 1 ELSE 0)
                    + (IF dropping = m THEN 1 ELSE 0) + Count(m)
                    + Cardinality({i \in DOMAIN m_outputQueue : m_outputQueue[i] = m})
  IN /\ TypeOK
     /\ places = Msgs \ m_outputMessages
     /\ \A m \in places : count(m) = 1
     /\ m_refCount = Cardinality(places)
     /\ protocolRefs = Cardinality(places)

(***************************************************************************)
(* A deleted connection is referred to by nothing that will still run: no  *)
(* outstanding read or write, no message, no task or event, no protocol.   *)
(***************************************************************************)
DeletedConnectionIsQuiet ==
  connection = "deleted" =>
    /\ m_closeState = "CLOSING" /\ m_socketClosed
    /\ reading = "none" /\ writing = NoMsg /\ m_outputQueue = <<>>
    /\ m_outputMessages = Msgs
    /\ Count("close") = 0 /\ Count("releaseConnection") = 0
    /\ ~m_connection /\ dispatcher \notin {"login", "close", "closeTask"}

(***************************************************************************)
(* The same for the protocol: login() runs in a task bound to a raw        *)
(* pointer and uses getConnection() without looking whether it is NULL, so *)
(* while the task is pending the protocol and its connection must stay.    *)
(***************************************************************************)
ProtocolOutlivesItsTasks ==
  /\ protocol = "deleted" => m_outputMessages = Msgs /\ ~client /\ Count("releaseProtocol") = 0
  /\ Count("login") > 0 \/ dispatcher \in {"login", "close"} =>
       protocol = "alive" /\ m_connection /\ connection = "alive"

(***************************************************************************)
(* The closing handshake happens once: one closeConnectionTask, which      *)
(* finds the state it expects ("Error: ... m_closeState" is never logged), *)
(* and one pending release of the connection and of the protocol at most.  *)
(***************************************************************************)
ClosesOnce ==
  /\ (Count("close") = 1 \/ dispatcher = "closeTask") <=> m_closeState = "REQUESTED"
  /\ \A k \in Kinds : Count(k) <= 1

(***************************************************************************)
(* The socket is closed only after everything that send() accepted was     *)
(* written, or a write failed: the reason why a client was disconnected    *)
(* reaches it.  And a message never waits in the queue with no write on    *)
(* its way whose completion would send it.                                 *)
(***************************************************************************)
WrittenBeforeClosed ==
  ~m_writeError =>
    /\ m_socketClosed => writing = NoMsg /\ m_outputQueue = <<>>
    /\ m_outputQueue # <<>> => writing # NoMsg

(* Both: the connection closes once and in good order.                     *)
ClosesInOrder == ClosesOnce /\ WrittenBeforeClosed

(***************************************************************************)
(* Once closing has begun the connection is deleted, unless a write failed *)
(* with more messages queued (they are never dropped, so their references  *)
(* keep the connection) or the io thread kept the lock.                    *)
(***************************************************************************)
ClosedIsDeleted ==
  m_closeState # "NONE" ~>
    \/ connection = "deleted"
    \/ m_writeError /\ m_outputQueue # <<>>
    \/ ioLocks > 0

(***************************************************************************)
(* "It will send only messages bigger then 1 kb or with a lifetime greater *)
(* than 10 ms" (src/src/outputmessage.cpp:108): a message that was found   *)
(* due is sent or dropped, and the dispatcher goes on.                     *)
(***************************************************************************)
DueMessageIsSent == dispatcher = "send" ~> dispatcher # "send"
=============================================================================
