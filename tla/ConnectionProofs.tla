-------------------------- MODULE ConnectionProofs --------------------------
(***************************************************************************)
(* Proofs about Connection for a pool of any number of messages: its       *)
(* types, that both reference counters count the messages, that a deleted  *)
(* connection or protocol is referred to by nothing, and that a connection *)
(* closes once and in good order.                                          *)
(***************************************************************************)
EXTENDS Connection, FiniteSetTheorems, TLAPS

Jobs == Elements(tasks) \cup scheduled

(* Nothing is listed twice, and a login comes before the closing task.     *)
Ordered(ts) ==
  /\ \A i, j \in DOMAIN ts : ts[i] = ts[j] => i = j
  /\ \A i, j \in DOMAIN ts : ts[i] = "login" /\ ts[j] = "close" => i < j

ListsFit ==
  /\ tasks \in Seq(Kinds \cup Msgs) /\ Ordered(tasks)
  /\ m_outputQueue \in Seq(Msgs)
  /\ \A i, j \in DOMAIN m_outputQueue : m_outputQueue[i] = m_outputQueue[j] => i = j
  /\ scheduled \subseteq {"releaseProtocol", "releaseConnection"}
  /\ scheduled \cap Elements(tasks) = {}

(* In how many places a message is, the pool included.                     *)
Places(m) ==
  (IF m \in m_outputMessages THEN 1 ELSE 0) + (IF m_autoSend = m THEN 1 ELSE 0)
    + (IF writing = m THEN 1 ELSE 0) + (IF dropping = m THEN 1 ELSE 0)
    + (IF m \in Elements(tasks) THEN 1 ELSE 0)
    + (IF m \in Elements(m_outputQueue) THEN 1 ELSE 0)

MessagesFit ==
  /\ \A m \in Msgs : Places(m) = 1
  /\ m_refCount = Cardinality(Msgs \ m_outputMessages)
  /\ protocolRefs = Cardinality(Msgs \ m_outputMessages)
  /\ dispatcher = "send" => m_autoSend # NoMsg

(* How far closing has come.                                               *)
ClosingFits ==
  /\ "close" \in Jobs \/ dispatcher = "closeTask" <=> m_closeState = "REQUESTED"
  /\ dispatcher = "closeTask" => "close" \notin Jobs
  /\ "releaseProtocol" \in Jobs => m_closeState = "CLOSING"
  /\ "releaseConnection" \in Jobs \/ connection = "deleted" =>
       m_closeState = "CLOSING" /\ m_socketClosed /\ reading = "none" /\ writing = NoMsg
  /\ connection = "deleted" => "releaseConnection" \notin Jobs /\ m_outputMessages = Msgs
  /\ protocol = "deleted" =>
       /\ m_closeState = "CLOSING" /\ "releaseProtocol" \notin Jobs
       /\ ~client /\ m_outputMessages = Msgs
  /\ m_socketClosed => m_closeState = "CLOSING"
  /\ m_writeError => writing = NoMsg

(* The protocol and the connection are attached until closing has begun.   *)
ProtocolFits ==
  /\ m_connection = m_protocol
  /\ m_connection => protocol = "alive" /\ m_closeState # "CLOSING"
  /\ ~m_protocol /\ m_closeState # "CLOSING" => protocol = "none"
  /\ protocol = "none" =>
       ~client /\ m_outputMessages = Msgs /\ (m_closeState # "NONE" => reading = "none")
  /\ "login" \in Jobs \/ dispatcher \in {"login", "close"} => m_connection
  /\ dispatcher = "closeTask" => "login" \notin Jobs

IInv == TypeOK /\ ListsFit /\ MessagesFit /\ ClosingFits /\ ProtocolFits /\ WrittenBeforeClosed
-----------------------------------------------------------------------------
(* What posting tasks does to the list.                                    *)

LEMMA ListMore ==
  ASSUME NEW S, NEW ts \in Seq(S), NEW us \in Seq(S), Elements(ts) \cap Elements(us) = {},
         Ordered(ts), Ordered(us), ~("close" \in Elements(ts) /\ "login" \in Elements(us))
  PROVE  /\ ts \o us \in Seq(S)
         /\ Elements(ts \o us) = Elements(ts) \cup Elements(us)
         /\ Ordered(ts \o us)
<1> DEFINE vs == ts \o us
           n == Len(ts)
<1>1. vs \in Seq(S)
  OBVIOUS
<1>2. /\ n \in Nat
      /\ \A i \in DOMAIN ts : i \in DOMAIN vs /\ vs[i] = ts[i] /\ i \in Nat /\ i <= n
      /\ \A i \in DOMAIN us : i + n \in DOMAIN vs /\ vs[i + n] = us[i] /\ i \in Nat
      /\ \A i \in DOMAIN vs : i \in DOMAIN ts \/ (i - n \in DOMAIN us /\ vs[i] = us[i - n] /\ i \in Nat /\ i > n)
  OBVIOUS
<1> HIDE DEF vs, n
<1>3. /\ \A i \in DOMAIN ts : ts[i] \in Elements(ts)
      /\ \A i \in DOMAIN us : us[i] \in Elements(us)
  BY DEF Elements
<1>4. Elements(vs) = Elements(ts) \cup Elements(us)
  <2>1. Elements(vs) \subseteq Elements(ts) \cup Elements(us)
    <3>1. \A i \in DOMAIN vs : vs[i] \in Elements(ts) \cup Elements(us)
      BY <1>2, <1>3
    <3> QED BY <3>1 DEF Elements
  <2>2. Elements(ts) \subseteq Elements(vs)
    BY <1>2 DEF Elements
  <2>3. Elements(us) \subseteq Elements(vs)
    BY <1>2 DEF Elements
  <2> QED BY <2>1, <2>2, <2>3
<1>5. \A i, j \in DOMAIN vs : vs[i] = vs[j] => i = j
  <2> SUFFICES ASSUME NEW i \in DOMAIN vs, NEW j \in DOMAIN vs, vs[i] = vs[j] PROVE i = j
    OBVIOUS
  <2>1. CASE i \in DOMAIN ts /\ j \in DOMAIN ts
    BY <1>2, <2>1 DEF Ordered
  <2>2. CASE i \notin DOMAIN ts /\ j \notin DOMAIN ts
    <3>1. /\ i - n \in DOMAIN us /\ j - n \in DOMAIN us /\ us[i - n] = us[j - n]
          /\ i \in Nat /\ j \in Nat
      BY <1>2, <2>2
    <3>2. i - n = j - n
      BY <3>1 DEF Ordered
    <3> QED BY <1>2, <3>1, <3>2
  <2>3. CASE i \in DOMAIN ts /\ j \notin DOMAIN ts
    BY <1>2, <1>3, <2>3
  <2>4. CASE i \notin DOMAIN ts /\ j \in DOMAIN ts
    BY <1>2, <1>3, <2>4
  <2> QED BY <2>1, <2>2, <2>3, <2>4
<1>6. \A i, j \in DOMAIN vs : vs[i] = "login" /\ vs[j] = "close" => i < j
  <2> SUFFICES ASSUME NEW i \in DOMAIN vs, NEW j \in DOMAIN vs, vs[i] = "login", vs[j] = "close"
               PROVE  i < j
    OBVIOUS
  <2>1. CASE i \in DOMAIN ts /\ j \in DOMAIN ts
    BY <1>2, <2>1 DEF Ordered
  <2>2. CASE i \notin DOMAIN ts /\ j \notin DOMAIN ts
    <3>1. /\ i - n \in DOMAIN us /\ j - n \in DOMAIN us
          /\ us[i - n] = "login" /\ us[j - n] = "close"
          /\ i \in Nat /\ j \in Nat
      BY <1>2, <2>2
    <3>2. i - n < j - n
      BY <3>1 DEF Ordered
    <3> QED BY <1>2, <3>1, <3>2
  <2>3. CASE i \in DOMAIN ts /\ j \notin DOMAIN ts
    BY <1>2, <2>3
  <2>4. CASE i \notin DOMAIN ts /\ j \in DOMAIN ts
    BY <1>2, <1>3, <2>4
  <2> QED BY <2>1, <2>2, <2>3, <2>4
<1> QED BY <1>1, <1>4, <1>5, <1>6 DEF Ordered, vs

LEMMA ListOne ==
  ASSUME NEW S, NEW e \in S
  PROVE  <<e>> \in Seq(S) /\ Elements(<<e>>) = {e} /\ Ordered(<<e>>)
<1> DEFINE ts == <<e>>
<1>1. ts \in Seq(S) /\ DOMAIN ts = {1} /\ ts[1] = e
  OBVIOUS
<1> HIDE DEF ts
<1>2. Elements(ts) = {e}
  BY <1>1 DEF Elements
<1>3. Ordered(ts)
  <2>1. ~("login" = "close")
    OBVIOUS
  <2> QED BY <1>1, <2>1 DEF Ordered
<1> QED BY <1>1, <1>2, <1>3 DEF ts

LEMMA ListNone ==
  ASSUME NEW S
  PROVE  <<>> \in Seq(S) /\ Elements(<<>>) = {} /\ Ordered(<<>>)
BY DEF Elements, Ordered

(* Taking the first task: what it is has gone, and a login before a close. *)
LEMMA ListTail ==
  ASSUME NEW S, NEW ts \in Seq(S), Ordered(ts), ts # <<>>
  PROVE  /\ Tail(ts) \in Seq(S) /\ Ordered(Tail(ts))
         /\ Head(ts) \in Elements(ts)
         /\ Elements(Tail(ts)) = Elements(ts) \ {Head(ts)}
         /\ Head(ts) = "close" => "login" \notin Elements(ts)
<1> DEFINE us == Tail(ts)
           h == Head(ts)
<1>1. /\ us \in Seq(S)
      /\ 1 \in DOMAIN ts /\ ts[1] = h
      /\ \A i \in DOMAIN us : i \in Nat /\ i + 1 \in DOMAIN ts /\ i + 1 # 1 /\ us[i] = ts[i + 1]
      /\ \A i \in DOMAIN ts : i \in Nat /\ i >= 1
      /\ \A i \in DOMAIN ts \ {1} : i - 1 \in DOMAIN us /\ us[i - 1] = ts[i]
  OBVIOUS
<1> HIDE DEF us, h
<1>2. Elements(us) = Elements(ts) \ {h}
  <2>1. \A i \in DOMAIN ts \ {1} : ts[i] # ts[1]
    BY <1>1 DEF Ordered
  <2>2. \A i \in DOMAIN us : us[i] \in Elements(ts) /\ us[i] # h
    BY <1>1, <2>1 DEF Elements
  <2>3. \A i \in DOMAIN ts : ts[i] # h => ts[i] \in Elements(us)
    BY <1>1 DEF Elements
  <2> QED BY <2>2, <2>3 DEF Elements
<1>3. Ordered(us)
  <2>1. \A i, j \in DOMAIN us : us[i] = us[j] => i = j
    BY <1>1 DEF Ordered
  <2>2. ASSUME NEW i \in DOMAIN us, NEW j \in DOMAIN us, us[i] = "login", us[j] = "close"
        PROVE  i < j
    <3>1. i + 1 < j + 1
      BY <1>1, <2>2 DEF Ordered
    <3> QED BY <1>1, <3>1
  <2> QED BY <2>1, <2>2 DEF Ordered
<1>4. h \in Elements(ts)
  BY <1>1 DEF Elements
<1>5. ASSUME h = "close", "login" \in Elements(ts) PROVE FALSE
  <2>1. PICK i \in DOMAIN ts : ts[i] = "login"
    BY <1>5 DEF Elements
  <2>2. i < 1
    BY <1>1, <1>5, <2>1 DEF Ordered
  <2> QED BY <1>1, <2>2
<1> QED BY <1>1, <1>2, <1>3, <1>4, <1>5 DEF us, h

(* A kind of task is posted at the back.                                   *)
LEMMA PostBack ==
  ASSUME NEW ts \in Seq(Kinds \cup Msgs), Ordered(ts), NEW k \in Kinds, k \notin Elements(ts),
         k = "login" => "close" \notin Elements(ts)
  PROVE  /\ ts \o <<k>> \in Seq(Kinds \cup Msgs)
         /\ Elements(ts \o <<k>>) = Elements(ts) \cup {k}
         /\ Ordered(ts \o <<k>>)
         /\ Append(ts, k) = ts \o <<k>>
<1> DEFINE us == <<k>>
<1>1. us \in Seq(Kinds \cup Msgs) /\ Elements(us) = {k} /\ Ordered(us)
  BY ListOne
<1>2. Append(ts, k) = ts \o us
  OBVIOUS
<1> HIDE DEF us
<1>3. /\ ts \o us \in Seq(Kinds \cup Msgs)
      /\ Elements(ts \o us) = Elements(ts) \cup Elements(us)
      /\ Ordered(ts \o us)
  BY <1>1, ListMore
<1> QED BY <1>1, <1>2, <1>3 DEF us

(* The release of a message goes in front.                                 *)
LEMMA PostFront ==
  ASSUME ListsFit, NEW m \in Msgs, m \notin Elements(tasks)
  PROVE  /\ <<m>> \o tasks \in Seq(Kinds \cup Msgs)
         /\ Elements(<<m>> \o tasks) = Elements(tasks) \cup {m}
         /\ Ordered(<<m>> \o tasks)
<1> DEFINE us == <<m>>
<1>1. us \in Seq(Kinds \cup Msgs) /\ Elements(us) = {m} /\ Ordered(us)
  BY ListOne
<1> HIDE DEF us
<1>2. m \notin Kinds /\ "close" \in Kinds
  BY ConnectionAssumption DEF Kinds
<1>3. /\ us \o tasks \in Seq(Kinds \cup Msgs)
      /\ Elements(us \o tasks) = Elements(us) \cup Elements(tasks)
      /\ Ordered(us \o tasks)
  BY <1>1, <1>2, ListMore DEF ListsFit
<1> QED BY <1>1, <1>3 DEF us

LEMMA PostNothing ==
  ASSUME NEW ts \in Seq(Kinds \cup Msgs)
  PROVE  ts \o <<>> = ts
OBVIOUS

(* What close() and closingConnection() post.                              *)
LEMMA PostClose ==
  ASSUME NEW ts \in Seq(Kinds \cup Msgs), Ordered(ts),
         m_closeState = "NONE" => "close" \notin Elements(ts)
  PROVE  /\ ts \o CloseTask \in Seq(Kinds \cup Msgs)
         /\ Elements(ts \o CloseTask) = Elements(ts) \cup (IF m_closeState = "NONE" THEN {"close"} ELSE {})
         /\ Ordered(ts \o CloseTask)
<1>1. CASE m_closeState = "NONE"
  <2>1. CloseTask = <<"close">> /\ "close" \in Kinds
    BY <1>1 DEF CloseTask, Kinds
  <2> QED BY <1>1, <2>1, PostBack
<1>2. CASE m_closeState # "NONE"
  <2>1. CloseTask = <<>>
    BY <1>2 DEF CloseTask
  <2> QED BY <1>2, <2>1, PostNothing
<1> QED BY <1>1, <1>2

LEMMA PostRelease ==
  ASSUME NEW ts \in Seq(Kinds \cup Msgs), Ordered(ts),
         NEW reads, NEW writes, NEW failed,
         Releases(reads, writes, failed) => "releaseConnection" \notin Elements(ts)
  PROVE  /\ ts \o ReleaseTask(reads, writes, failed) \in Seq(Kinds \cup Msgs)
         /\ Elements(ts \o ReleaseTask(reads, writes, failed)) =
              Elements(ts) \cup (IF Releases(reads, writes, failed) THEN {"releaseConnection"} ELSE {})
         /\ Ordered(ts \o ReleaseTask(reads, writes, failed))
<1>1. CASE Releases(reads, writes, failed)
  <2>1. ReleaseTask(reads, writes, failed) = <<"releaseConnection">> /\ "releaseConnection" \in Kinds
    BY <1>1 DEF ReleaseTask, Kinds
  <2> QED BY <1>1, <2>1, PostBack
<1>2. CASE ~Releases(reads, writes, failed)
  <2>1. ReleaseTask(reads, writes, failed) = <<>>
    BY <1>2 DEF ReleaseTask
  <2> QED BY <1>2, <2>1, PostNothing
<1> QED BY <1>1, <1>2
-----------------------------------------------------------------------------
(* Parts of the invariant that a step leaves alone.                        *)

LEMMA ElementTypes ==
  ASSUME ListsFit
  PROVE  Elements(tasks) \subseteq Kinds \cup Msgs
BY DEF ListsFit, Elements

LEMMA ListsStay ==
  ASSUME ListsFit, UNCHANGED <<tasks, m_outputQueue, scheduled>>
  PROVE  ListsFit' /\ Elements(tasks') = Elements(tasks) /\ Jobs' = Jobs
BY DEF ListsFit, Jobs

LEMMA ListsPosted ==
  ASSUME ListsFit, UNCHANGED <<m_outputQueue, scheduled>>,
         tasks' \in Seq(Kinds \cup Msgs), Ordered(tasks'), scheduled \cap Elements(tasks') = {}
  PROVE  ListsFit'
BY DEF ListsFit

LEMMA MessagesStay ==
  ASSUME MessagesFit, Elements(tasks') \cap Msgs = Elements(tasks) \cap Msgs,
         UNCHANGED <<refVars, m_autoSend, writing, dropping, m_outputQueue>>,
         dispatcher' = "send" => m_autoSend # NoMsg
  PROVE  MessagesFit'
<1>1. UNCHANGED <<m_refCount, protocolRefs, m_outputMessages>>
  BY DEF refVars
<1>2. \A m \in Msgs : Places(m)' = Places(m)
  <2>1. \A m \in Msgs : m \in Elements(tasks') <=> m \in Elements(tasks)
    OBVIOUS
  <2> QED BY <1>1, <2>1 DEF Places
<1> QED BY <1>1, <1>2 DEF MessagesFit

LEMMA KindsAreNoMessages ==
  /\ \A k \in {"login", "close", "releaseProtocol", "releaseConnection", "game"} : k \notin Msgs
  /\ NoMsg \notin Msgs
BY ConnectionAssumption DEF Kinds
-----------------------------------------------------------------------------
(* Steps that change neither the lists nor the messages.                   *)

LEMMA ReadHeaderKeeps == IInv /\ ReadHeader => IInv'
<1> SUFFICES ASSUME IInv, ReadHeader PROVE IInv'
  OBVIOUS
<1> USE DEF IInv
<1>1. /\ reading = "header" /\ m_closeState # "CLOSING" /\ reading' = "packet"
      /\ UNCHANGED <<m_closeState, m_pendingRead, m_pendingWrite, m_writeError,
                     m_socketClosed, m_outputQueue, m_protocol, connection,
                     protocol, m_connection, client, refVars, m_refCount, protocolRefs,
                     m_outputMessages, m_autoSend, tasks, scheduled, dispatcher,
                     ioLocks, writing, dropping>>
  BY DEF ReadHeader, connVars, protVars, refVars
<1>2. ListsFit' /\ Elements(tasks') = Elements(tasks) /\ Jobs' = Jobs
  BY <1>1, ListsStay
<1>3. MessagesFit'
  BY <1>1, <1>2, MessagesStay DEF MessagesFit
<1>4. TypeOK'
  BY <1>1, <1>2 DEF TypeOK
<1>5. ClosingFits' /\ ProtocolFits' /\ WrittenBeforeClosed'
  BY <1>1, <1>2 DEF ClosingFits, ProtocolFits, WrittenBeforeClosed
<1> QED BY <1>2, <1>3, <1>4, <1>5

LEMMA NextPacketKeeps == IInv /\ NextPacket => IInv'
<1> SUFFICES ASSUME IInv, NextPacket PROVE IInv'
  OBVIOUS
<1> USE DEF IInv
<1>1. /\ reading = "packet" /\ m_closeState # "CLOSING" /\ reading' = "header"
      /\ UNCHANGED <<m_closeState, m_pendingRead, m_pendingWrite, m_writeError,
                     m_socketClosed, m_outputQueue, m_protocol, connection,
                     protocol, m_connection, client, refVars, m_refCount, protocolRefs,
                     m_outputMessages, m_autoSend, tasks, scheduled, dispatcher,
                     ioLocks, writing, dropping>>
  BY DEF NextPacket, Packet, refVars
<1>2. ListsFit' /\ Elements(tasks') = Elements(tasks) /\ Jobs' = Jobs
  BY <1>1, ListsStay
<1>3. MessagesFit'
  BY <1>1, <1>2, MessagesStay DEF MessagesFit
<1>4. TypeOK'
  BY <1>1, <1>2 DEF TypeOK
<1>5. ClosingFits' /\ ProtocolFits' /\ WrittenBeforeClosed'
  BY <1>1, <1>2 DEF ClosingFits, ProtocolFits, WrittenBeforeClosed
<1> QED BY <1>2, <1>3, <1>4, <1>5

(* The dispatcher goes on in its frame.                                    *)
LEMMA FrameKeeps ==
  IInv /\ (LoginAccepted \/ CallClose \/ EndTask \/ MessageDue \/ SendNothing) => IInv'
<1> SUFFICES ASSUME IInv, LoginAccepted \/ CallClose \/ EndTask \/ MessageDue \/ SendNothing
             PROVE  IInv'
  OBVIOUS
<1> USE DEF IInv
<1>1. /\ UNCHANGED <<m_closeState, m_pendingRead, m_pendingWrite, m_writeError,
                     m_socketClosed, m_outputQueue, m_protocol, connection,
                     protocol, m_connection, refVars, m_refCount, protocolRefs,
                     m_outputMessages, m_autoSend, tasks, scheduled,
                     ioLocks, reading, writing, dropping>>
      /\ dispatcher # "closeTask"
      /\ dispatcher' \in {"idle", "frame", "close", "sendAll", "send"}
      /\ dispatcher' = "close" => m_connection
      /\ dispatcher' = "send" => m_autoSend # NoMsg
      /\ client' = client \/ (client' = TRUE /\ dispatcher = "login")
  BY DEF LoginAccepted, CallClose, EndTask, MessageDue, SendNothing, connVars, protVars,
         refVars, ioVars
<1>2. ListsFit' /\ Elements(tasks') = Elements(tasks) /\ Jobs' = Jobs
  BY <1>1, ListsStay
<1>3. MessagesFit'
  BY <1>1, <1>2, MessagesStay
<1>4. TypeOK'
  BY <1>1, <1>2 DEF TypeOK
<1>5. client' => m_connection \/ client
  BY <1>1 DEF ProtocolFits
<1>6. ClosingFits' /\ ProtocolFits' /\ WrittenBeforeClosed'
  BY <1>1, <1>2, <1>5 DEF ClosingFits, ProtocolFits, WrittenBeforeClosed
<1> QED BY <1>2, <1>3, <1>4, <1>6
-----------------------------------------------------------------------------
(* Nothing pends twice, so Count() only says whether something pends.      *)
LEMMA CountOne ==
  ASSUME ListsFit, NEW e
  PROVE  Count(e) = IF e \in Jobs THEN 1 ELSE 0
<1> DEFINE I == {i \in DOMAIN tasks : tasks[i] = e}
<1>1. CASE e \in Elements(tasks)
  <2>1. PICK i \in DOMAIN tasks : tasks[i] = e
    BY <1>1 DEF Elements
  <2>2. I = {i}
    BY <2>1 DEF ListsFit, Ordered
  <2>3. Cardinality(I) = 1
    BY <2>2, FS_Singleton
  <2>4. e \notin scheduled
    BY <1>1 DEF ListsFit
  <2> QED BY <1>1, <2>3, <2>4 DEF Count, Jobs
<1>2. CASE e \notin Elements(tasks)
  <2>1. I = {}
    BY <1>2 DEF Elements
  <2>2. Cardinality(I) = 0
    BY <2>1, FS_EmptySet
  <2> QED BY <1>2, <2>2 DEF Count, Jobs
<1> QED BY <1>1, <1>2

LEMMA Taken ==
  ASSUME IInv, NEW k, Take(k)
  PROVE  /\ tasks' \in Seq(Kinds \cup Msgs) /\ Ordered(tasks')
         /\ k \in Elements(tasks) /\ k \notin scheduled
         /\ Elements(tasks') = Elements(tasks) \ {k}
         /\ k = "close" => "login" \notin Elements(tasks)
         /\ dispatcher = "idle"
<1>1. tasks \in Seq(Kinds \cup Msgs) /\ Ordered(tasks) /\ scheduled \cap Elements(tasks) = {}
  BY DEF IInv, ListsFit
<1>2. tasks # <<>> /\ Head(tasks) = k /\ tasks' = Tail(tasks) /\ dispatcher = "idle"
  BY DEF Take
<1>3. /\ Tail(tasks) \in Seq(Kinds \cup Msgs) /\ Ordered(Tail(tasks))
      /\ Head(tasks) \in Elements(tasks)
      /\ Elements(Tail(tasks)) = Elements(tasks) \ {Head(tasks)}
      /\ Head(tasks) = "close" => "login" \notin Elements(tasks)
  BY <1>1, <1>2, ListTail
<1> QED BY <1>1, <1>2, <1>3

LEMMA PostGameKeeps == IInv /\ PostGame => IInv'
<1> SUFFICES ASSUME IInv, PostGame PROVE IInv'
  OBVIOUS
<1> USE DEF IInv
<1>1. /\ Count("game") = 0 /\ tasks' = Append(tasks, "game")
      /\ UNCHANGED <<m_closeState, m_pendingRead, m_pendingWrite, m_writeError,
                     m_socketClosed, m_outputQueue, m_protocol, connection,
                     protocol, m_connection, client, refVars, m_refCount, protocolRefs,
                     m_outputMessages, m_autoSend, scheduled, dispatcher,
                     ioLocks, reading, writing, dropping>>
  BY DEF PostGame, connVars, protVars, refVars, ioVars
<1>2. "game" \notin Jobs
  BY <1>1, CountOne
<1>3. /\ tasks' \in Seq(Kinds \cup Msgs) /\ Ordered(tasks')
      /\ Elements(tasks') = Elements(tasks) \cup {"game"}
  <2>1. "game" \in Kinds /\ "game" \notin Elements(tasks)
    BY <1>2 DEF Jobs, Kinds
  <2>2. tasks \in Seq(Kinds \cup Msgs) /\ Ordered(tasks)
    BY DEF ListsFit
  <2> QED BY <1>1, <2>1, <2>2, PostBack
<1>4. Jobs' = Jobs \cup {"game"}
  BY <1>1, <1>3 DEF Jobs
<1>5. ListsFit'
  <2>1. scheduled \cap Elements(tasks') = {}
    BY <1>2, <1>3 DEF ListsFit, Jobs
  <2> QED BY <1>1, <1>3, <2>1, ListsPosted
<1>6. MessagesFit'
  BY <1>1, <1>3, MessagesStay, KindsAreNoMessages DEF MessagesFit
<1>7. TypeOK'
  BY <1>1, <1>3 DEF TypeOK, Kinds
<1>8. ClosingFits' /\ ProtocolFits' /\ WrittenBeforeClosed'
  BY <1>1, <1>4 DEF ClosingFits, ProtocolFits, WrittenBeforeClosed
<1> QED BY <1>5, <1>6, <1>7, <1>8

LEMMA EventDueKeeps ==
  ASSUME IInv, NEW k \in Kinds, EventDue(k)
  PROVE  IInv'
<1> USE DEF IInv
<1>1. /\ k \in scheduled /\ scheduled' = scheduled \ {k} /\ tasks' = Append(tasks, k)
      /\ UNCHANGED <<m_closeState, m_pendingRead, m_pendingWrite, m_writeError,
                     m_socketClosed, m_outputQueue, m_protocol, connection,
                     protocol, m_connection, client, refVars, m_refCount, protocolRefs,
                     m_outputMessages, m_autoSend, dispatcher,
                     ioLocks, reading, writing, dropping>>
  BY DEF EventDue, connVars, protVars, refVars, ioVars
<1>2. k \in {"releaseProtocol", "releaseConnection"} /\ k \notin Elements(tasks)
  BY <1>1 DEF ListsFit
<1>3. /\ tasks' \in Seq(Kinds \cup Msgs) /\ Ordered(tasks')
      /\ Elements(tasks') = Elements(tasks) \cup {k}
  <2>1. tasks \in Seq(Kinds \cup Msgs) /\ Ordered(tasks)
    BY DEF ListsFit
  <2> QED BY <1>1, <1>2, <2>1, PostBack
<1>4. Jobs' = Jobs
  BY <1>1, <1>3 DEF Jobs
<1>5. ListsFit'
  BY <1>1, <1>2, <1>3 DEF ListsFit
<1>6. MessagesFit'
  BY <1>1, <1>2, <1>3, MessagesStay, KindsAreNoMessages DEF MessagesFit
<1>7. TypeOK'
  BY <1>1, <1>3 DEF TypeOK
<1>8. ClosingFits' /\ ProtocolFits' /\ WrittenBeforeClosed'
  BY <1>1, <1>4 DEF ClosingFits, ProtocolFits, WrittenBeforeClosed
<1> QED BY <1>5, <1>6, <1>7, <1>8

(* The dispatcher takes a task that it will then carry out.                *)
LEMMA TakeKeeps ==
  IInv /\ (TakeLogin \/ TakeClose \/ TakeGame) => IInv'
<1> SUFFICES ASSUME IInv, TakeLogin \/ TakeClose \/ TakeGame PROVE IInv'
  OBVIOUS
<1> USE DEF IInv
<1>1. PICK k \in {"login", "close", "game"} :
        /\ Take(k)
        /\ k = "login" => dispatcher' = "login"
        /\ k = "close" => dispatcher' = "closeTask"
        /\ k = "game" => dispatcher' \in {"frame", "sendAll"}
  BY DEF TakeLogin, TakeClose, TakeGame
<1>2. UNCHANGED <<m_closeState, m_pendingRead, m_pendingWrite, m_writeError,
                  m_socketClosed, m_outputQueue, m_protocol, connection,
                  protocol, m_connection, client, refVars, m_refCount, protocolRefs,
                  m_outputMessages, m_autoSend, scheduled,
                  ioLocks, reading, writing, dropping>>
  BY DEF TakeLogin, TakeClose, TakeGame, connVars, protVars, refVars, ioVars
<1>3. /\ tasks' \in Seq(Kinds \cup Msgs) /\ Ordered(tasks')
      /\ k \in Elements(tasks) /\ k \notin scheduled
      /\ Elements(tasks') = Elements(tasks) \ {k}
      /\ k = "close" => "login" \notin Elements(tasks)
      /\ dispatcher = "idle"
  BY <1>1, Taken
<1>4. Jobs' = Jobs \ {k} /\ k \in Jobs
  BY <1>2, <1>3 DEF Jobs
<1>5. ListsFit'
  BY <1>2, <1>3 DEF ListsFit
<1>6. MessagesFit'
  BY <1>1, <1>2, <1>3, MessagesStay, KindsAreNoMessages
<1>7. TypeOK'
  BY <1>1, <1>2, <1>3 DEF TypeOK
<1>8. ClosingFits'
  BY <1>1, <1>2, <1>3, <1>4 DEF ClosingFits
<1>9. ProtocolFits'
  <2>1. k = "close" => "login" \notin Jobs
    BY <1>3 DEF Jobs, ListsFit
  <2> QED BY <1>1, <1>2, <1>3, <1>4, <2>1 DEF ProtocolFits
<1>10. WrittenBeforeClosed'
  BY <1>2 DEF WrittenBeforeClosed
<1> QED BY <1>5, <1>6, <1>7, <1>8, <1>9, <1>10

(* The pool has every message when a counter is zero.                      *)
LEMMA PoolIsFull ==
  ASSUME IInv, m_refCount = 0 \/ protocolRefs = 0
  PROVE  m_outputMessages = Msgs
<1>1. IsFiniteSet(Msgs \ m_outputMessages)
  BY ConnectionAssumption, FS_Subset
<1>2. Cardinality(Msgs \ m_outputMessages) = 0
  BY DEF IInv, MessagesFit
<1>3. Msgs \ m_outputMessages = {}
  BY <1>1, <1>2, FS_EmptySet
<1> QED BY <1>3 DEF IInv, TypeOK

LEMMA ReleaseProtocolKeeps == IInv /\ ReleaseProtocol => IInv'
<1> SUFFICES ASSUME IInv, ReleaseProtocol PROVE IInv'
  OBVIOUS
<1> USE DEF IInv
<1>1. /\ Take("releaseProtocol") /\ client' = FALSE /\ dispatcher' = "sendAll"
      /\ \/ /\ protocolRefs > 0
            /\ scheduled' = scheduled \cup {"releaseProtocol"} /\ protocol' = protocol
         \/ /\ ~(protocolRefs > 0)
            /\ scheduled' = scheduled /\ protocol' = "deleted"
      /\ UNCHANGED <<m_closeState, m_pendingRead, m_pendingWrite, m_writeError,
                     m_socketClosed, m_outputQueue, m_protocol, connection,
                     m_connection, refVars, m_refCount, protocolRefs,
                     m_outputMessages, m_autoSend, ioLocks, reading, writing, dropping>>
  BY DEF ReleaseProtocol, connVars, refVars, ioVars
<1>2. /\ tasks' \in Seq(Kinds \cup Msgs) /\ Ordered(tasks')
      /\ "releaseProtocol" \in Elements(tasks) /\ "releaseProtocol" \notin scheduled
      /\ Elements(tasks') = Elements(tasks) \ {"releaseProtocol"}
      /\ dispatcher = "idle"
  BY <1>1, Taken
<1>3. protocol' = "deleted" => "releaseProtocol" \notin Jobs'
  BY <1>1, <1>2 DEF Jobs, ClosingFits
<1>4. /\ Jobs' \subseteq Jobs /\ "releaseProtocol" \in Jobs
      /\ \A k \in {"close", "login", "releaseConnection"} : k \in Jobs' <=> k \in Jobs
  BY <1>1, <1>2 DEF Jobs
<1>5. protocol' = "deleted" => m_outputMessages = Msgs
  <2>1. CASE protocolRefs > 0
    BY <1>1, <2>1 DEF ClosingFits
  <2>2. CASE ~(protocolRefs > 0)
    <3>1. protocolRefs = 0
      BY <2>2 DEF TypeOK
    <3> QED BY <3>1, PoolIsFull
  <2> QED BY <2>1, <2>2
<1>6. ListsFit'
  BY <1>1, <1>2 DEF ListsFit
<1>7. MessagesFit'
  BY <1>1, <1>2, MessagesStay, KindsAreNoMessages
<1>8. TypeOK'
  BY <1>1, <1>2, <1>6 DEF TypeOK, ListsFit, Kinds
<1>9. ClosingFits'
  BY <1>1, <1>2, <1>3, <1>4, <1>5 DEF ClosingFits
<1>10. ProtocolFits'
  <2>1. m_closeState = "CLOSING" /\ ~m_connection /\ ~m_protocol
    BY <1>4 DEF ClosingFits, ProtocolFits
  <2> QED BY <1>1, <1>2, <1>4, <2>1 DEF ProtocolFits
<1>11. WrittenBeforeClosed'
  BY <1>1 DEF WrittenBeforeClosed
<1> QED BY <1>6, <1>7, <1>8, <1>9, <1>10, <1>11

LEMMA ReleaseConnectionKeeps == IInv /\ ReleaseConnection => IInv'
<1> SUFFICES ASSUME IInv, ReleaseConnection PROVE IInv'
  OBVIOUS
<1> USE DEF IInv
<1>1. /\ Take("releaseConnection") /\ dispatcher' = "sendAll"
      /\ \/ /\ m_refCount > 0
            /\ scheduled' = scheduled \cup {"releaseConnection"} /\ connection' = connection
         \/ /\ ~(m_refCount > 0)
            /\ scheduled' = scheduled /\ connection' = "deleted"
      /\ UNCHANGED <<m_closeState, m_pendingRead, m_pendingWrite, m_writeError,
                     m_socketClosed, m_outputQueue, m_protocol, protocol, client,
                     m_connection, refVars, m_refCount, protocolRefs,
                     m_outputMessages, m_autoSend, ioLocks, reading, writing, dropping>>
  BY DEF ReleaseConnection, connVars, protVars, refVars, ioVars
<1>2. /\ tasks' \in Seq(Kinds \cup Msgs) /\ Ordered(tasks')
      /\ "releaseConnection" \in Elements(tasks) /\ "releaseConnection" \notin scheduled
      /\ Elements(tasks') = Elements(tasks) \ {"releaseConnection"}
      /\ dispatcher = "idle"
  BY <1>1, Taken
<1>3. connection' = "deleted" => "releaseConnection" \notin Jobs'
  BY <1>1, <1>2 DEF Jobs, ClosingFits
<1>4. /\ Jobs' \subseteq Jobs /\ "releaseConnection" \in Jobs
      /\ \A k \in {"close", "login", "releaseProtocol"} : k \in Jobs' <=> k \in Jobs
  BY <1>1, <1>2 DEF Jobs
<1>5. connection' = "deleted" => m_outputMessages = Msgs
  <2>1. CASE m_refCount > 0
    BY <1>1, <2>1 DEF ClosingFits
  <2>2. CASE ~(m_refCount > 0)
    <3>1. m_refCount = 0
      BY <2>2 DEF TypeOK
    <3> QED BY <3>1, PoolIsFull
  <2> QED BY <2>1, <2>2
<1>6. ListsFit'
  BY <1>1, <1>2 DEF ListsFit
<1>7. MessagesFit'
  BY <1>1, <1>2, MessagesStay, KindsAreNoMessages
<1>8. TypeOK'
  BY <1>1, <1>2, <1>6 DEF TypeOK, ListsFit, Kinds
<1>9. ClosingFits'
  BY <1>1, <1>2, <1>3, <1>4, <1>5 DEF ClosingFits
<1>10. ProtocolFits'
  BY <1>1, <1>2, <1>4 DEF ProtocolFits
<1>11. WrittenBeforeClosed'
  BY <1>1 DEF WrittenBeforeClosed
<1> QED BY <1>6, <1>7, <1>8, <1>9, <1>10, <1>11
-----------------------------------------------------------------------------
(* Messages come back to the pool.                                         *)

LEMMA FreeMessageKeeps ==
  ASSUME IInv, NEW m \in Msgs, FreeMessage(m)
  PROVE  IInv'
<1> USE DEF IInv
<1>1. /\ Take(m) /\ dispatcher' = "sendAll"
      /\ m_refCount' = m_refCount - 1 /\ protocolRefs' = protocolRefs - 1
      /\ m_outputMessages' = m_outputMessages \cup {m}
      /\ UNCHANGED <<m_closeState, m_pendingRead, m_pendingWrite, m_writeError,
                     m_socketClosed, m_outputQueue, m_protocol, connection, protocol, client,
                     m_connection, m_autoSend, scheduled, ioLocks, reading, writing, dropping>>
  BY DEF FreeMessage, connVars, protVars, ioVars
<1>2. /\ tasks' \in Seq(Kinds \cup Msgs) /\ Ordered(tasks')
      /\ m \in Elements(tasks) /\ m \notin scheduled
      /\ Elements(tasks') = Elements(tasks) \ {m}
      /\ dispatcher = "idle"
  BY <1>1, Taken
<1>3. m \notin Kinds
  BY ConnectionAssumption
<1>4. \A k \in Kinds : k \in Jobs' <=> k \in Jobs
  BY <1>1, <1>2, <1>3 DEF Jobs
<1>5. Places(m) = 1 /\ m \notin m_outputMessages
  <2>1. Places(m) = 1
    BY DEF MessagesFit
  <2> QED BY <1>2, <2>1 DEF Places
<1>6. MessagesFit' /\ m_refCount' \in Nat /\ protocolRefs' \in Nat
  <2>1. ASSUME NEW n \in Msgs PROVE Places(n)' = 1
    <3>1. Places(n) = 1
      BY DEF MessagesFit
    <3>2. CASE n = m
      <4>1. /\ n \notin Elements(tasks') /\ n \in m_outputMessages'
            /\ n \in Elements(tasks) /\ n \notin m_outputMessages
        BY <1>1, <1>2, <1>5, <3>2
      <4> QED BY <1>1, <3>1, <4>1 DEF Places
    <3>3. CASE n # m
      <4>1. /\ n \in Elements(tasks') <=> n \in Elements(tasks)
            /\ n \in m_outputMessages' <=> n \in m_outputMessages
        BY <1>1, <1>2, <3>3
      <4> QED BY <1>1, <3>1, <4>1 DEF Places
    <3> QED BY <3>2, <3>3
  <2> DEFINE used == Msgs \ m_outputMessages
  <2>2. IsFiniteSet(used) /\ m \in used /\ Msgs \ m_outputMessages' = used \ {m}
    <3>1. used \subseteq Msgs
      OBVIOUS
    <3> QED BY <1>1, <1>5, <3>1, ConnectionAssumption, FS_Subset
  <2>3. Cardinality(used \ {m}) = Cardinality(used) - 1
    BY <2>2, FS_RemoveElement
  <2>4. IsFiniteSet(used \ {m})
    BY <2>2, FS_RemoveElement
  <2>5. Cardinality(used \ {m}) \in Nat
    BY <2>4, FS_CardinalityType
  <2>6. m_refCount = Cardinality(used) /\ protocolRefs = Cardinality(used)
    BY DEF MessagesFit
  <2> QED BY <1>1, <2>1, <2>2, <2>3, <2>5, <2>6 DEF MessagesFit
<1>7. ListsFit'
  BY <1>1, <1>2 DEF ListsFit
<1>8. TypeOK'
  BY <1>1, <1>2, <1>6 DEF TypeOK
<1>9. ClosingFits'
  <2>1. m_outputMessages # Msgs
    BY <1>5
  <2> QED BY <1>1, <1>2, <1>4, <2>1 DEF ClosingFits, Kinds
<1>10. ProtocolFits'
  <2>1. m_outputMessages # Msgs
    BY <1>5
  <2> QED BY <1>1, <1>2, <1>4, <2>1 DEF ProtocolFits, Kinds
<1>11. WrittenBeforeClosed'
  BY <1>1 DEF WrittenBeforeClosed
<1> QED BY <1>6, <1>7, <1>8, <1>9, <1>10, <1>11

LEMMA DropMessageKeeps == IInv /\ DropMessage => IInv'
<1> SUFFICES ASSUME IInv, DropMessage PROVE IInv'
  OBVIOUS
<1> USE DEF IInv
<1> DEFINE m == dropping
<1>1. /\ m # NoMsg /\ tasks' = <<m>> \o tasks /\ dropping' = NoMsg
      /\ UNCHANGED <<m_closeState, m_pendingRead, m_pendingWrite, m_writeError,
                     m_socketClosed, m_outputQueue, m_protocol, connection, protocol, client,
                     m_connection, m_refCount, protocolRefs, m_outputMessages, m_autoSend,
                     scheduled, dispatcher, ioLocks, reading, writing>>
  BY DEF DropMessage, connVars, protVars, refVars
<1>2. m \in Msgs /\ m \notin Kinds
  BY <1>1, ConnectionAssumption DEF TypeOK
<1>3. m \notin Elements(tasks)
  <2>1. Places(m) = 1
    BY <1>2 DEF MessagesFit
  <2> QED BY <2>1 DEF Places
<1>4. /\ tasks' \in Seq(Kinds \cup Msgs) /\ Ordered(tasks')
      /\ Elements(tasks') = Elements(tasks) \cup {m}
  BY <1>1, <1>2, <1>3, PostFront
<1>5. \A k \in Kinds : k \in Jobs' <=> k \in Jobs
  BY <1>1, <1>2, <1>4 DEF Jobs
<1>6. ListsFit'
  <2>1. m \notin scheduled
    BY <1>2 DEF TypeOK
  <2> QED BY <1>1, <1>4, <2>1, ListsPosted DEF ListsFit
<1>7. MessagesFit'
  <2>1. ASSUME NEW n \in Msgs PROVE Places(n)' = 1
    <3>1. Places(n) = 1 /\ n # NoMsg
      BY ConnectionAssumption DEF MessagesFit
    <3>2. CASE n = m
      <4>1. n \in Elements(tasks') /\ n \notin Elements(tasks) /\ dropping = n /\ dropping' # n
        BY <1>1, <1>3, <1>4, <3>1, <3>2
      <4> QED BY <1>1, <3>1, <4>1 DEF Places
    <3>3. CASE n # m
      <4>1. (n \in Elements(tasks') <=> n \in Elements(tasks)) /\ dropping # n /\ dropping' # n
        BY <1>1, <1>4, <3>1, <3>3
      <4> QED BY <1>1, <3>1, <4>1 DEF Places
    <3> QED BY <3>2, <3>3
  <2> QED BY <1>1, <2>1 DEF MessagesFit
<1>8. TypeOK'
  BY <1>1, <1>2, <1>4 DEF TypeOK
<1>9. ClosingFits' /\ ProtocolFits'
  BY <1>1, <1>5 DEF ClosingFits, ProtocolFits, Kinds
<1>10. WrittenBeforeClosed'
  BY <1>1 DEF WrittenBeforeClosed
<1> QED BY <1>6, <1>7, <1>8, <1>9, <1>10
-----------------------------------------------------------------------------
(* close(), whoever calls it, and the reads.                               *)

LEMMA CloseKeeps == IInv /\ (Close \/ ReadError) => IInv'
<1> SUFFICES ASSUME IInv, Close \/ ReadError PROVE IInv'
  OBVIOUS
<1> USE DEF IInv
<1>1. /\ m_closeState' = CloseRequested /\ tasks' = tasks \o CloseTask
      /\ \/ /\ dispatcher = "close" /\ dispatcher' = "frame"
            /\ m_pendingRead' = m_pendingRead /\ reading' = reading
         \/ /\ dispatcher' = dispatcher /\ reading # "none" /\ reading' = "none"
            /\ m_pendingRead' = m_pendingRead - 1
      /\ UNCHANGED <<m_pendingWrite, m_writeError, m_socketClosed, m_outputQueue,
                     m_protocol, connection, protocol, client, m_connection, refVars, m_refCount,
                     protocolRefs, m_outputMessages, m_autoSend, scheduled, ioLocks,
                     writing, dropping>>
  BY DEF Close, ReadError, connVars, protVars, refVars, ioVars
<1>2. m_closeState = "NONE" => "close" \notin Elements(tasks)
  BY DEF ClosingFits, Jobs
<1>3. /\ tasks' \in Seq(Kinds \cup Msgs) /\ Ordered(tasks')
      /\ Elements(tasks') = Elements(tasks) \cup (IF m_closeState = "NONE" THEN {"close"} ELSE {})
  <2>1. tasks \in Seq(Kinds \cup Msgs) /\ Ordered(tasks)
    BY DEF ListsFit
  <2> QED BY <1>1, <1>2, <2>1, PostClose
<1>4. Jobs' = Jobs \cup (IF m_closeState = "NONE" THEN {"close"} ELSE {})
  BY <1>1, <1>3 DEF Jobs
<1>5. ListsFit'
  <2>1. scheduled \cap Elements(tasks') = {}
    BY <1>3 DEF ListsFit
  <2> QED BY <1>1, <1>3, <2>1, ListsPosted
<1>6. MessagesFit'
  BY <1>1, <1>3, MessagesStay, KindsAreNoMessages DEF MessagesFit
<1>7. m_closeState' = IF m_closeState = "NONE" THEN "REQUESTED" ELSE m_closeState
  BY <1>1 DEF CloseRequested
<1>8. TypeOK'
  BY <1>1, <1>3, <1>7 DEF TypeOK, Kinds
<1>9. ClosingFits'
  BY <1>1, <1>4, <1>7 DEF ClosingFits, TypeOK
<1>10. ProtocolFits'
  BY <1>1, <1>4, <1>7 DEF ProtocolFits
<1>11. WrittenBeforeClosed'
  BY <1>1 DEF WrittenBeforeClosed
<1> QED BY <1>5, <1>6, <1>8, <1>9, <1>10, <1>11

LEMMA ReadWhileClosingKeeps == IInv /\ ReadWhileClosing => IInv'
<1> SUFFICES ASSUME IInv, ReadWhileClosing PROVE IInv'
  OBVIOUS
<1> USE DEF IInv
<1>1. /\ reading # "none" /\ m_closeState = "CLOSING"
      /\ reading' = "none" /\ m_pendingRead' = m_pendingRead - 1
      /\ m_socketClosed' = (m_socketClosed \/ ClosesSocket(m_pendingWrite, m_writeError))
      /\ tasks' = tasks \o ReleaseTask(m_pendingRead - 1, m_pendingWrite, m_writeError)
      /\ UNCHANGED <<m_closeState, m_pendingWrite, m_writeError, m_outputQueue,
                     m_protocol, connection, protocol, client, m_connection, refVars, m_refCount,
                     protocolRefs, m_outputMessages, m_autoSend, scheduled, dispatcher, ioLocks,
                     writing, dropping>>
  BY DEF ReadWhileClosing, protVars, refVars
<1>2. "releaseConnection" \notin Jobs /\ connection # "deleted"
  BY <1>1 DEF ClosingFits
<1> DEFINE rel == Releases(m_pendingRead - 1, m_pendingWrite, m_writeError)
           more == IF rel THEN {"releaseConnection"} ELSE {}
<1>3. /\ tasks' \in Seq(Kinds \cup Msgs) /\ Ordered(tasks')
      /\ Elements(tasks') = Elements(tasks) \cup more
  <2>1. tasks \in Seq(Kinds \cup Msgs) /\ Ordered(tasks)
    BY DEF ListsFit
  <2>2. "releaseConnection" \notin Elements(tasks)
    BY <1>2 DEF Jobs
  <2> QED BY <1>1, <2>1, <2>2, PostRelease
<1>4. rel => m_socketClosed' /\ writing = NoMsg
  <2>1. rel => ClosesSocket(m_pendingWrite, m_writeError)
    BY DEF Releases
  <2>2. ClosesSocket(m_pendingWrite, m_writeError) => m_socketClosed'
    BY <1>1
  <2>3. ClosesSocket(m_pendingWrite, m_writeError) => writing = NoMsg
    BY DEF ClosesSocket, TypeOK, ClosingFits
  <2> QED BY <2>1, <2>2, <2>3
<1>5. m_socketClosed' \in BOOLEAN
  BY <1>1 DEF TypeOK, ClosesSocket
<1> HIDE DEF rel
<1>6. Jobs' = Jobs \cup more
  BY <1>1, <1>3 DEF Jobs
<1>7. ListsFit'
  <2>1. scheduled \cap Elements(tasks') = {}
    BY <1>2, <1>3 DEF ListsFit, Jobs
  <2> QED BY <1>1, <1>3, <2>1, ListsPosted
<1>8. MessagesFit'
  BY <1>1, <1>3, MessagesStay, KindsAreNoMessages DEF MessagesFit
<1>9. TypeOK'
  BY <1>1, <1>3, <1>5 DEF TypeOK, Kinds
<1>10. ClosingFits'
  BY <1>1, <1>2, <1>4, <1>6 DEF ClosingFits
<1>11. ProtocolFits'
  BY <1>1, <1>6 DEF ProtocolFits
<1>12. WrittenBeforeClosed'
  BY <1>1 DEF WrittenBeforeClosed, ClosesSocket, TypeOK
<1> QED BY <1>7, <1>8, <1>9, <1>10, <1>11, <1>12

LEMMA CloseConnectionTaskKeeps == IInv /\ CloseConnectionTask => IInv'
<1> SUFFICES ASSUME IInv, CloseConnectionTask PROVE IInv'
  OBVIOUS
<1> USE DEF IInv
<1> DEFINE rel == Releases(m_pendingRead, m_pendingWrite, m_writeError)
           more == IF rel THEN {"releaseConnection"} ELSE {}
           prot == IF m_protocol THEN <<"releaseProtocol">> ELSE <<>>
           freed == IF m_protocol THEN {"releaseProtocol"} ELSE {}
           mid == tasks \o prot
<1>1. /\ dispatcher = "closeTask" /\ dispatcher' = "sendAll"
      /\ m_closeState = "REQUESTED" /\ m_closeState' = "CLOSING"
      /\ m_protocol' = FALSE /\ m_connection' = FALSE
      /\ m_socketClosed' = (m_socketClosed \/ ClosesSocket(m_pendingWrite, m_writeError))
      /\ tasks' = mid \o ReleaseTask(m_pendingRead, m_pendingWrite, m_writeError)
      /\ UNCHANGED <<m_pendingRead, m_pendingWrite, m_writeError, m_outputQueue, connection,
                     protocol, client, refVars, m_refCount, protocolRefs, m_outputMessages,
                     m_autoSend, scheduled, ioLocks, reading, writing, dropping>>
  BY DEF CloseConnectionTask, refVars, ioVars
<1>2. /\ "releaseConnection" \notin Jobs /\ connection # "deleted"
      /\ "releaseProtocol" \notin Jobs /\ protocol # "deleted"
      /\ "close" \notin Jobs /\ "login" \notin Jobs
  BY <1>1 DEF ClosingFits, ProtocolFits
<1>3. mid \in Seq(Kinds \cup Msgs) /\ Ordered(mid) /\ Elements(mid) = Elements(tasks) \cup freed
  <2>1. tasks \in Seq(Kinds \cup Msgs) /\ Ordered(tasks)
    BY DEF ListsFit
  <2>2. CASE m_protocol
    <3>1. "releaseProtocol" \notin Elements(tasks) /\ "releaseProtocol" \in Kinds
      BY <1>2 DEF Jobs, Kinds
    <3> QED BY <2>1, <2>2, <3>1, PostBack
  <2>3. CASE ~m_protocol
    BY <2>1, <2>3, PostNothing
  <2> QED BY <2>2, <2>3
<1> HIDE DEF mid
<1>4. /\ tasks' \in Seq(Kinds \cup Msgs) /\ Ordered(tasks')
      /\ Elements(tasks') = Elements(tasks) \cup freed \cup more
  <2>1. "releaseConnection" \notin Elements(mid)
    BY <1>2, <1>3 DEF Jobs
  <2> QED BY <1>1, <1>3, <2>1, PostRelease
<1>5. rel => m_socketClosed' /\ writing = NoMsg /\ reading = "none"
  <2>1. rel => ClosesSocket(m_pendingWrite, m_writeError) /\ m_pendingRead = 0
    BY DEF Releases
  <2>2. ClosesSocket(m_pendingWrite, m_writeError) => m_socketClosed'
    BY <1>1
  <2>3. ClosesSocket(m_pendingWrite, m_writeError) => writing = NoMsg
    BY DEF ClosesSocket, TypeOK, ClosingFits
  <2>4. m_pendingRead = 0 => reading = "none"
    BY DEF TypeOK
  <2> QED BY <2>1, <2>2, <2>3, <2>4
<1>6. m_socketClosed' \in BOOLEAN
  BY <1>1 DEF TypeOK, ClosesSocket
<1> HIDE DEF rel
<1>7. Jobs' = Jobs \cup freed \cup more
  BY <1>1, <1>4 DEF Jobs
<1>8. ListsFit'
  <2>1. scheduled \cap Elements(tasks') = {}
    BY <1>2, <1>4 DEF ListsFit, Jobs
  <2> QED BY <1>1, <1>4, <2>1, ListsPosted
<1>9. MessagesFit'
  BY <1>1, <1>4, MessagesStay, KindsAreNoMessages
<1>10. TypeOK'
  BY <1>1, <1>4, <1>6 DEF TypeOK, Kinds
<1>11. ClosingFits'
  BY <1>1, <1>2, <1>5, <1>7 DEF ClosingFits
<1>12. ProtocolFits'
  BY <1>1, <1>2, <1>7 DEF ProtocolFits
<1>13. WrittenBeforeClosed'
  BY <1>1 DEF WrittenBeforeClosed, ClosesSocket, TypeOK
<1> QED BY <1>8, <1>9, <1>10, <1>11, <1>12, <1>13
-----------------------------------------------------------------------------
(* Messages are taken from the pool, and sent.                             *)

(* What may be listed next to a message that is sent.                      *)
Closes == IF m_closeState = "NONE" THEN {"close"} ELSE {}

LEMMA AllocateEffect ==
  ASSUME IInv, NEW m, Allocate(m)
  PROVE  /\ m \in Msgs /\ m \in m_outputMessages
         /\ m_outputMessages' = m_outputMessages \ {m}
         /\ m_refCount' = Cardinality(Msgs \ m_outputMessages') /\ m_refCount' \in Nat
         /\ protocolRefs' = Cardinality(Msgs \ m_outputMessages') /\ protocolRefs' \in Nat
<1> DEFINE used == Msgs \ m_outputMessages
<1>1. /\ m \in m_outputMessages /\ m \in Msgs
      /\ m_outputMessages' = m_outputMessages \ {m}
      /\ m_refCount' = m_refCount + 1 /\ protocolRefs' = protocolRefs + 1
  BY DEF Allocate, IInv, TypeOK
<1>2. IsFiniteSet(used) /\ m \notin used /\ Msgs \ m_outputMessages' = used \cup {m}
  <2>1. used \subseteq Msgs
    OBVIOUS
  <2> QED BY <1>1, <2>1, ConnectionAssumption, FS_Subset
<1>3. Cardinality(used \cup {m}) = Cardinality(used) + 1
  BY <1>2, FS_AddElement
<1>4. m_refCount = Cardinality(used) /\ protocolRefs = Cardinality(used)
      /\ m_refCount \in Nat /\ protocolRefs \in Nat
  BY DEF IInv, MessagesFit, TypeOK
<1> QED BY <1>1, <1>2, <1>3, <1>4

LEMMA QueueOrdered ==
  ASSUME ListsFit
  PROVE  m_outputQueue \in Seq(Msgs) /\ Ordered(m_outputQueue)
<1>1. \A i \in DOMAIN m_outputQueue : m_outputQueue[i] # "close"
  BY KindsAreNoMessages DEF ListsFit
<1> QED BY <1>1 DEF ListsFit, Ordered

LEMMA SendEffect ==
  ASSUME IInv, NEW m \in Msgs, m \notin Elements(tasks), m \notin Elements(m_outputQueue),
         NEW then, NEW posted, Send(m, then),
         (then = <<>> /\ posted = {}) \/ (then = CloseTask /\ posted = Closes)
  PROVE  /\ tasks' \in Seq(Kinds \cup Msgs) /\ Ordered(tasks')
         /\ Elements(tasks') = Elements(tasks) \cup posted \cup (IF Refuses THEN {m} ELSE {})
         /\ m_outputQueue' \in Seq(Msgs) /\ Ordered(m_outputQueue')
         /\ Elements(m_outputQueue') = Elements(m_outputQueue)
              \cup (IF ~Refuses /\ writing # NoMsg THEN {m} ELSE {})
         /\ writing' = IF ~Refuses /\ writing = NoMsg THEN m ELSE writing
         /\ m_pendingWrite' = IF writing' = NoMsg THEN 0 ELSE 1
         /\ writing = NoMsg \/ Refuses => m_outputQueue' = m_outputQueue
<1> USE DEF IInv
<1> DEFINE mid == IF Refuses THEN <<m>> \o tasks ELSE tasks
<1>1. /\ mid \in Seq(Kinds \cup Msgs) /\ Ordered(mid)
      /\ Elements(mid) = Elements(tasks) \cup (IF Refuses THEN {m} ELSE {})
  <2>1. tasks \in Seq(Kinds \cup Msgs) /\ Ordered(tasks)
    BY DEF ListsFit
  <2>2. CASE Refuses
    BY <2>2, PostFront
  <2>3. CASE ~Refuses
    BY <2>1, <2>3
  <2> QED BY <2>2, <2>3
<1>2. tasks' = mid \o then
  BY DEF Send
<1> HIDE DEF mid
<1>3. /\ tasks' \in Seq(Kinds \cup Msgs) /\ Ordered(tasks')
      /\ Elements(tasks') = Elements(mid) \cup posted
  <2>1. CASE then = <<>> /\ posted = {}
    BY <1>1, <1>2, <2>1, PostNothing
  <2>2. CASE then = CloseTask /\ posted = Closes
    <3>1. m_closeState = "NONE" => "close" \notin Elements(mid)
      BY <1>1, KindsAreNoMessages DEF ClosingFits, Jobs
    <3> QED BY <1>1, <1>2, <2>2, <3>1, PostClose DEF Closes
  <2> QED BY <2>1, <2>2
<1>4. m_pendingWrite = IF writing = NoMsg THEN 0 ELSE 1
  BY DEF TypeOK
<1>5. m_outputQueue \in Seq(Msgs) /\ Ordered(m_outputQueue) /\ m # NoMsg
  BY QueueOrdered, KindsAreNoMessages
<1>6. CASE Refuses
  BY <1>1, <1>3, <1>4, <1>5, <1>6 DEF Send
<1>7. CASE ~Refuses /\ writing = NoMsg
  <2>1. m_pendingWrite' = 1 /\ writing' = m /\ UNCHANGED m_outputQueue
    BY <1>4, <1>7 DEF Send
  <2> QED BY <1>1, <1>3, <1>5, <1>7, <2>1
<1>8. CASE ~Refuses /\ writing # NoMsg
  <2>1. m_outputQueue' = Append(m_outputQueue, m) /\ UNCHANGED <<m_pendingWrite, writing>>
    BY <1>4, <1>8 DEF Send
  <2> DEFINE us == <<m>>
  <2>2. us \in Seq(Msgs) /\ Elements(us) = {m} /\ Ordered(us)
    BY ListOne
  <2>3. m_outputQueue' = m_outputQueue \o us
    BY <1>5, <2>1
  <2> HIDE DEF us
  <2>4. "login" # m
    BY KindsAreNoMessages
  <2>5. /\ m_outputQueue' \in Seq(Msgs)
        /\ Elements(m_outputQueue') = Elements(m_outputQueue) \cup Elements(us)
        /\ Ordered(m_outputQueue')
    BY <1>5, <2>2, <2>3, <2>4, ListMore
  <2> QED BY <1>1, <1>3, <1>4, <1>8, <2>1, <2>2, <2>5
<1> QED BY <1>6, <1>7, <1>8

(* A message goes from the pool, or from the autosend place, where Send()  *)
(* puts it.                                                                *)
LEMMA SendKeeps ==
  ASSUME IInv, NEW m \in Msgs, NEW then, NEW posted, Send(m, then),
         (then = <<>> /\ posted = {}) \/ (then = CloseTask /\ posted = Closes),
         \/ Allocate(m) /\ UNCHANGED m_autoSend
         \/ m = m_autoSend /\ m_autoSend' = NoMsg /\ UNCHANGED refVars,
         dispatcher' # "send",
         UNCHANGED <<m_writeError, m_socketClosed, scheduled, dropping>>
  PROVE  /\ ListsFit' /\ MessagesFit' /\ WrittenBeforeClosed'
         /\ Elements(tasks') \subseteq Kinds \cup Msgs
         /\ \A k \in Kinds : k \in Jobs' <=> k \in Jobs \cup posted
         /\ writing' \in Msgs \cup {NoMsg}
         /\ m_pendingWrite' = IF writing' = NoMsg THEN 0 ELSE 1
         /\ Refuses => writing' = writing
         /\ m_refCount' \in Nat /\ protocolRefs' \in Nat
         /\ m_outputMessages' \subseteq Msgs /\ m_autoSend' \in Msgs \cup {NoMsg}
<1> USE DEF IInv
<1>1. Places(m) = 1 /\ m # NoMsg
  BY KindsAreNoMessages DEF MessagesFit
<1>2. m \notin Elements(tasks) /\ m \notin Elements(m_outputQueue)
  BY <1>1 DEF Places, Allocate
<1>3. /\ tasks' \in Seq(Kinds \cup Msgs) /\ Ordered(tasks')
      /\ Elements(tasks') = Elements(tasks) \cup posted \cup (IF Refuses THEN {m} ELSE {})
      /\ m_outputQueue' \in Seq(Msgs) /\ Ordered(m_outputQueue')
      /\ Elements(m_outputQueue') = Elements(m_outputQueue)
           \cup (IF ~Refuses /\ writing # NoMsg THEN {m} ELSE {})
      /\ writing' = IF ~Refuses /\ writing = NoMsg THEN m ELSE writing
      /\ m_pendingWrite' = IF writing' = NoMsg THEN 0 ELSE 1
      /\ writing = NoMsg \/ Refuses => m_outputQueue' = m_outputQueue
  BY <1>2, SendEffect
<1>4. /\ m_refCount' = Cardinality(Msgs \ m_outputMessages') /\ m_refCount' \in Nat
      /\ protocolRefs' = Cardinality(Msgs \ m_outputMessages') /\ protocolRefs' \in Nat
      /\ m_outputMessages' = m_outputMessages \ {m}
  <2>1. CASE Allocate(m)
    BY <2>1, AllocateEffect
  <2>2. CASE m = m_autoSend /\ UNCHANGED refVars
    <3>1. m \notin m_outputMessages
      BY <1>1, <2>2 DEF Places
    <3> QED BY <2>2, <3>1 DEF refVars, MessagesFit, TypeOK
  <2> QED BY <2>1, <2>2
<1>5. posted \subseteq {"close"}
  BY DEF Closes
<1>6. \A n \in Msgs : n \notin posted
  BY <1>5, KindsAreNoMessages
<1>7. m_autoSend' = IF m = m_autoSend THEN NoMsg ELSE m_autoSend
  BY <1>1 DEF Places, Allocate
<1>8. ASSUME NEW n \in Msgs PROVE Places(n)' = 1
  <2>1. Places(n) = 1 /\ n # NoMsg
    BY KindsAreNoMessages DEF MessagesFit
  <2>2. CASE n = m
    <3>1. /\ n \notin m_outputMessages' /\ m_autoSend' # n /\ dropping' # n
      BY <1>1, <1>2, <1>4, <1>7, <2>1, <2>2 DEF Places, Allocate
    <3>2. /\ n \in Elements(tasks') <=> Refuses
          /\ n \in Elements(m_outputQueue') <=> ~Refuses /\ writing # NoMsg
          /\ writing' = n <=> ~Refuses /\ writing = NoMsg
      <4>1. writing # n
        BY <1>1, <2>2 DEF Places, Allocate
      <4>2. n \notin posted
        BY <1>6
      <4> QED BY <1>2, <1>3, <2>2, <4>1, <4>2
    <3> QED BY <3>1, <3>2 DEF Places
  <2>3. CASE n # m
    <3>1. /\ n \in m_outputMessages' <=> n \in m_outputMessages
          /\ m_autoSend' = n <=> m_autoSend = n
          /\ dropping' = dropping
          /\ n \in Elements(m_outputQueue') <=> n \in Elements(m_outputQueue)
          /\ writing' = n <=> writing = n
      BY <1>3, <1>4, <1>7, <2>1, <2>3
    <3>2. n \in Elements(tasks') <=> n \in Elements(tasks)
      <4>1. n \notin posted
        BY <1>6
      <4> QED BY <1>3, <2>3, <4>1
    <3> QED BY <2>1, <3>1, <3>2 DEF Places
  <2> QED BY <2>2, <2>3
<1>9. MessagesFit'
  BY <1>4, <1>8 DEF MessagesFit
<1>10. m \notin Kinds
  BY ConnectionAssumption
<1>11. ListsFit'
  <2>1. scheduled \cap Elements(tasks') = {}
    BY <1>3, <1>5, <1>10 DEF ListsFit, Kinds
  <2> QED BY <1>3, <2>1 DEF ListsFit, Ordered
<1>12. \A k \in Kinds : k \in Jobs' <=> k \in Jobs \cup posted
  BY <1>3, <1>10 DEF Jobs
<1>13. WrittenBeforeClosed'
  <2> SUFFICES ASSUME ~m_writeError
               PROVE  /\ m_socketClosed => writing' = NoMsg /\ m_outputQueue' = <<>>
                      /\ m_outputQueue' # <<>> => writing' # NoMsg
    BY DEF WrittenBeforeClosed
  <2>1. m_socketClosed => Refuses
    BY DEF ClosingFits, Refuses
  <2>2. /\ m_socketClosed => writing = NoMsg /\ m_outputQueue = <<>>
        /\ m_outputQueue # <<>> => writing # NoMsg
    BY DEF WrittenBeforeClosed
  <2>3. CASE Refuses
    BY <1>3, <2>2, <2>3
  <2>4. CASE ~Refuses
    BY <1>1, <1>3, <2>1, <2>4
  <2> QED BY <2>3, <2>4
<1>14. Elements(tasks') \subseteq Kinds \cup Msgs
  BY <1>11 DEF ListsFit, Elements
<1>15. /\ writing' \in Msgs \cup {NoMsg} /\ m_autoSend' \in Msgs \cup {NoMsg}
       /\ m_outputMessages' \subseteq Msgs
  BY <1>3, <1>4, <1>7 DEF TypeOK
<1> QED BY <1>3, <1>4, <1>9, <1>11, <1>12, <1>13, <1>14, <1>15

LEMMA LoginRefusedKeeps == IInv /\ LoginRefused => IInv'
<1> SUFFICES ASSUME IInv, LoginRefused PROVE IInv'
  OBVIOUS
<1> USE DEF IInv
<1>1. /\ dispatcher = "login" /\ dispatcher' = "close"
      /\ UNCHANGED <<m_closeState, m_pendingRead, m_writeError, m_socketClosed, m_protocol,
                     connection, protocol, client, m_connection, m_autoSend, scheduled, ioLocks,
                     reading, dropping>>
  BY DEF LoginRefused, protVars
<1>2. PICK m \in Msgs : Allocate(m) /\ Send(m, <<>>)
  BY DEF LoginRefused
<1>3. /\ ListsFit' /\ MessagesFit' /\ WrittenBeforeClosed'
      /\ Elements(tasks') \subseteq Kinds \cup Msgs
      /\ \A k \in Kinds : k \in Jobs' <=> k \in Jobs \cup {}
      /\ writing' \in Msgs \cup {NoMsg}
      /\ m_pendingWrite' = IF writing' = NoMsg THEN 0 ELSE 1
      /\ Refuses => writing' = writing
      /\ m_refCount' \in Nat /\ protocolRefs' \in Nat
      /\ m_outputMessages' \subseteq Msgs /\ m_autoSend' \in Msgs \cup {NoMsg}
  BY <1>1, <1>2, SendKeeps
<1>4. m_connection /\ protocol = "alive" /\ connection # "deleted" /\ m_closeState # "CLOSING"
  BY <1>1 DEF ProtocolFits, ClosingFits
<1>5. TypeOK'
  BY <1>1, <1>3 DEF TypeOK, ListsFit
<1>6. ClosingFits'
  BY <1>1, <1>3, <1>4 DEF ClosingFits, Refuses, Kinds
<1>7. ProtocolFits'
  BY <1>1, <1>3, <1>4 DEF ProtocolFits, Kinds
<1> QED BY <1>3, <1>5, <1>6, <1>7

LEMMA SendAllKeeps == IInv /\ SendAll => IInv'
<1> SUFFICES ASSUME IInv, SendAll PROVE IInv'
  OBVIOUS
<1> USE DEF IInv
<1>1. /\ dispatcher = "send" /\ dispatcher' = "idle"
      /\ Send(m_autoSend, <<>>) /\ m_autoSend' = NoMsg
      /\ UNCHANGED <<m_closeState, m_pendingRead, m_writeError, m_socketClosed, m_protocol,
                     connection, protocol, client, m_connection, refVars, m_outputMessages,
                     scheduled, ioLocks, reading, dropping>>
  BY DEF SendAll, protVars, refVars
<1>2. m_autoSend \in Msgs
  BY <1>1 DEF MessagesFit, TypeOK
<1>3. /\ ListsFit' /\ MessagesFit' /\ WrittenBeforeClosed'
      /\ Elements(tasks') \subseteq Kinds \cup Msgs
      /\ \A k \in Kinds : k \in Jobs' <=> k \in Jobs \cup {}
      /\ writing' \in Msgs \cup {NoMsg}
      /\ m_pendingWrite' = IF writing' = NoMsg THEN 0 ELSE 1
      /\ Refuses => writing' = writing
      /\ m_refCount' \in Nat /\ protocolRefs' \in Nat
      /\ m_outputMessages' \subseteq Msgs /\ m_autoSend' \in Msgs \cup {NoMsg}
  BY <1>1, <1>2, SendKeeps
<1>4. TypeOK'
  BY <1>1, <1>3 DEF TypeOK, ListsFit
<1>5. ClosingFits'
  BY <1>1, <1>3 DEF ClosingFits, Refuses, Kinds
<1>6. ProtocolFits'
  BY <1>1, <1>3 DEF ProtocolFits, Kinds
<1> QED BY <1>3, <1>4, <1>5, <1>6

LEMMA WriteKeeps ==
  ASSUME IInv, NEW m \in Msgs, Write(m)
  PROVE  IInv'
<1> USE DEF IInv
<1>1. /\ dispatcher = "frame" /\ client /\ m_connection
      /\ m_autoSend = NoMsg /\ m_autoSend' = m
      /\ Allocate(m)
      /\ UNCHANGED <<m_closeState, m_pendingRead, m_pendingWrite, m_writeError, m_socketClosed,
                     m_outputQueue, m_protocol, connection, protocol, client, m_connection,
                     tasks, scheduled, dispatcher, ioLocks, reading, writing, dropping>>
  BY DEF Write, connVars, protVars, ioVars
<1>2. /\ m \in m_outputMessages
      /\ m_outputMessages' = m_outputMessages \ {m}
      /\ m_refCount' = Cardinality(Msgs \ m_outputMessages') /\ m_refCount' \in Nat
      /\ protocolRefs' = Cardinality(Msgs \ m_outputMessages') /\ protocolRefs' \in Nat
  BY <1>1, AllocateEffect
<1>3. ListsFit' /\ Elements(tasks') = Elements(tasks) /\ Jobs' = Jobs
  BY <1>1, ListsStay
<1>4. MessagesFit'
  <2>1. ASSUME NEW n \in Msgs PROVE Places(n)' = 1
    <3>1. Places(n) = 1 /\ n # NoMsg
      BY KindsAreNoMessages DEF MessagesFit
    <3> QED BY <1>1, <1>2, <1>3, <3>1 DEF Places
  <2> QED BY <1>1, <1>2, <2>1 DEF MessagesFit
<1>5. TypeOK'
  BY <1>1, <1>2, <1>3 DEF TypeOK
<1>6. protocol = "alive" /\ m_closeState # "CLOSING"
  BY <1>1 DEF ProtocolFits
<1>7. ClosingFits'
  BY <1>1, <1>3, <1>6 DEF ClosingFits
<1>8. ProtocolFits'
  BY <1>1, <1>3, <1>6 DEF ProtocolFits
<1>9. WrittenBeforeClosed'
  BY <1>1 DEF WrittenBeforeClosed
<1> QED BY <1>3, <1>4, <1>5, <1>7, <1>8, <1>9
-----------------------------------------------------------------------------
(* The first packet makes the protocol.                                    *)

(* Before it, nothing can have gone wrong.                                 *)
LEMMA BeforeFirstPacket ==
  ASSUME IInv, Packet, NewProtocol
  PROVE  /\ protocol = "none" /\ m_outputMessages = Msgs /\ ~client
         /\ m_closeState = "NONE" /\ "close" \notin Jobs
         /\ "login" \notin Jobs /\ dispatcher \notin {"login", "close", "closeTask"}
         /\ connection # "deleted" /\ "releaseConnection" \notin Jobs
         /\ "releaseProtocol" \notin Jobs
<1> USE DEF IInv
<1>1. ~m_protocol /\ m_closeState # "CLOSING" /\ reading # "none"
  BY DEF Packet, NewProtocol
<1>2. protocol = "none" /\ ~m_connection
  BY <1>1 DEF ProtocolFits
<1>3. m_closeState = "NONE" /\ m_outputMessages = Msgs /\ ~client
  BY <1>1, <1>2 DEF ProtocolFits
<1> QED BY <1>1, <1>2, <1>3 DEF ProtocolFits, ClosingFits

LEMMA FirstPacketAcceptedKeeps == IInv /\ FirstPacketAccepted => IInv'
<1> SUFFICES ASSUME IInv, FirstPacketAccepted PROVE IInv'
  OBVIOUS
<1> USE DEF IInv
<1>1. /\ Packet /\ NewProtocol
      /\ reading = "packet" /\ reading' = "header"
      /\ m_protocol' = TRUE /\ protocol' = "alive" /\ m_connection' = TRUE
      /\ tasks' = Append(tasks, "login")
      /\ UNCHANGED <<m_closeState, m_pendingRead, m_pendingWrite, m_writeError, m_socketClosed,
                     m_outputQueue, connection, client, refVars, m_refCount, protocolRefs,
                     m_outputMessages, m_autoSend, scheduled, dispatcher, ioLocks, writing, dropping>>
  BY DEF FirstPacketAccepted, Packet, NewProtocol, refVars
<1>2. /\ protocol = "none" /\ m_outputMessages = Msgs /\ ~client
      /\ m_closeState = "NONE" /\ "close" \notin Jobs
      /\ "login" \notin Jobs /\ dispatcher \notin {"login", "close", "closeTask"}
      /\ connection # "deleted" /\ "releaseConnection" \notin Jobs
      /\ "releaseProtocol" \notin Jobs
  BY <1>1, BeforeFirstPacket
<1>3. /\ tasks' \in Seq(Kinds \cup Msgs) /\ Ordered(tasks')
      /\ Elements(tasks') = Elements(tasks) \cup {"login"}
  <2>1. tasks \in Seq(Kinds \cup Msgs) /\ Ordered(tasks)
    BY DEF ListsFit
  <2>2. "login" \in Kinds /\ "login" \notin Elements(tasks) /\ "close" \notin Elements(tasks)
    BY <1>2 DEF Kinds, Jobs
  <2> QED BY <1>1, <2>1, <2>2, PostBack
<1>4. Jobs' = Jobs \cup {"login"}
  BY <1>1, <1>3 DEF Jobs
<1>5. ListsFit'
  <2>1. scheduled \cap Elements(tasks') = {}
    BY <1>2, <1>3 DEF ListsFit, Jobs
  <2> QED BY <1>1, <1>3, <2>1, ListsPosted
<1>6. MessagesFit'
  BY <1>1, <1>3, MessagesStay, KindsAreNoMessages DEF MessagesFit
<1>7. TypeOK'
  BY <1>1, <1>3 DEF TypeOK, Kinds
<1>8. ClosingFits' /\ ProtocolFits'
  BY <1>1, <1>2, <1>4 DEF ClosingFits, ProtocolFits
<1>9. WrittenBeforeClosed'
  BY <1>1 DEF WrittenBeforeClosed
<1> QED BY <1>5, <1>6, <1>7, <1>8, <1>9

LEMMA FirstPacketRefusedKeeps == IInv /\ FirstPacketRefused => IInv'
<1> SUFFICES ASSUME IInv, FirstPacketRefused PROVE IInv'
  OBVIOUS
<1> USE DEF IInv
<1>1. /\ Packet /\ NewProtocol
      /\ reading = "packet" /\ reading' = "header"
      /\ m_protocol' = TRUE /\ protocol' = "alive" /\ m_connection' = TRUE
      /\ m_closeState' = CloseRequested
      /\ UNCHANGED <<m_pendingRead, m_writeError, m_socketClosed,
                     connection, client, m_autoSend, scheduled, dispatcher, ioLocks, dropping>>
  BY DEF FirstPacketRefused, Packet, NewProtocol
<1>2. /\ protocol = "none" /\ m_outputMessages = Msgs /\ ~client
      /\ m_closeState = "NONE" /\ "close" \notin Jobs
      /\ "login" \notin Jobs /\ dispatcher \notin {"login", "close", "closeTask"}
      /\ connection # "deleted" /\ "releaseConnection" \notin Jobs
      /\ "releaseProtocol" \notin Jobs
  BY <1>1, BeforeFirstPacket
<1>3. Closes = {"close"} /\ m_closeState' = "REQUESTED"
  BY <1>1, <1>2 DEF Closes, CloseRequested
<1> DEFINE Sent ==
      /\ ListsFit' /\ MessagesFit' /\ WrittenBeforeClosed'
      /\ Elements(tasks') \subseteq Kinds \cup Msgs
      /\ \A k \in Kinds : k \in Jobs' <=> k \in Jobs \cup {"close"}
      /\ writing' \in Msgs \cup {NoMsg}
      /\ m_pendingWrite' = IF writing' = NoMsg THEN 0 ELSE 1
      /\ Refuses => writing' = writing
      /\ m_refCount' \in Nat /\ protocolRefs' \in Nat
      /\ m_outputMessages' \subseteq Msgs /\ m_autoSend' \in Msgs \cup {NoMsg}
<1>4. Sent
  <2>1. ASSUME dispatcher \notin {"sendAll", "send"}, NEW m \in Msgs, Allocate(m), Send(m, CloseTask)
        PROVE  Sent
    <3>1. dispatcher' # "send"
      BY <1>1, <2>1
    <3> QED BY <1>1, <1>3, <2>1, <3>1, SendKeeps
  <2>2. ASSUME tasks' = tasks \o CloseTask,
               UNCHANGED <<refVars, m_pendingWrite, writing, m_outputQueue>>
        PROVE  Sent
    <3>1. UNCHANGED <<m_refCount, protocolRefs, m_outputMessages>>
      BY <2>2 DEF refVars
    <3>2. /\ tasks' \in Seq(Kinds \cup Msgs) /\ Ordered(tasks')
          /\ Elements(tasks') = Elements(tasks) \cup {"close"}
      <4>1. tasks \in Seq(Kinds \cup Msgs) /\ Ordered(tasks) /\ "close" \notin Elements(tasks)
        BY <1>2 DEF ListsFit, Jobs
      <4> QED BY <1>2, <2>2, <4>1, PostClose
    <3>3. ListsFit'
      <4>1. scheduled \cap Elements(tasks') = {}
        BY <1>2, <3>2 DEF ListsFit, Jobs
      <4> QED BY <1>1, <2>2, <3>2, <4>1, ListsPosted
    <3>4. MessagesFit'
      BY <1>1, <2>2, <3>2, MessagesStay, KindsAreNoMessages DEF MessagesFit
    <3>5. WrittenBeforeClosed'
      BY <1>1, <2>2 DEF WrittenBeforeClosed
    <3>6. \A k \in Kinds : k \in Jobs' <=> k \in Jobs \cup {"close"}
      BY <1>1, <3>2 DEF Jobs
    <3>7. Elements(tasks') \subseteq Kinds \cup Msgs
      BY <3>3 DEF ListsFit, Elements
    <3> QED BY <1>1, <2>2, <3>1, <3>3, <3>4, <3>5, <3>6, <3>7 DEF TypeOK
  <2> QED BY <2>1, <2>2 DEF FirstPacketRefused
<1>5. TypeOK'
  BY <1>1, <1>3, <1>4 DEF TypeOK, ListsFit
<1>6. ClosingFits'
  BY <1>1, <1>2, <1>3, <1>4 DEF ClosingFits, Refuses, Kinds
<1>7. ProtocolFits'
  BY <1>1, <1>2, <1>3, <1>4 DEF ProtocolFits, Kinds
<1> QED BY <1>4, <1>5, <1>6, <1>7
-----------------------------------------------------------------------------
(* A write has completed.                                                  *)

LEMMA AfterWriteEffect ==
  ASSUME IInv, writing # NoMsg, NEW then, NEW posted,
         AfterWrite(m_pendingWrite', m_writeError', then),
         (then = <<>> /\ posted = {}) \/ (then = CloseTask /\ posted = Closes),
         NEW more, more = IF m_closeState = "CLOSING" /\ Releases(m_pendingRead, m_pendingWrite', m_writeError')
                            THEN {"releaseConnection"} ELSE {}
  PROVE  /\ tasks' \in Seq(Kinds \cup Msgs) /\ Ordered(tasks')
         /\ Elements(tasks') = Elements(tasks) \cup more \cup posted
         /\ "releaseConnection" \notin Jobs /\ connection # "deleted" /\ ~m_writeError
         /\ m_socketClosed' \in BOOLEAN
         /\ m_closeState = "CLOSING" /\ ClosesSocket(m_pendingWrite', m_writeError') => m_socketClosed'
         /\ m_socketClosed' => m_socketClosed \/ (m_closeState = "CLOSING" /\ ClosesSocket(m_pendingWrite', m_writeError'))
         /\ ioLocks' \in Nat
<1> USE DEF IInv
<1>1. "releaseConnection" \notin Jobs /\ connection # "deleted" /\ ~m_writeError
  BY DEF ClosingFits
<1>2. tasks \in Seq(Kinds \cup Msgs) /\ Ordered(tasks) /\ "releaseConnection" \notin Elements(tasks)
  BY <1>1 DEF ListsFit, Jobs
<1>3. CASE m_closeState = "CLOSING"
  <2>1. /\ m_socketClosed' = (m_socketClosed \/ ClosesSocket(m_pendingWrite', m_writeError'))
        /\ tasks' = tasks \o ReleaseTask(m_pendingRead, m_pendingWrite', m_writeError')
        /\ ioLocks' = IF Releases(m_pendingRead, m_pendingWrite', m_writeError') THEN ioLocks ELSE ioLocks + 2
    BY <1>3 DEF AfterWrite
  <2>2. posted = {}
    BY <1>3 DEF Closes
  <2>3. /\ tasks' \in Seq(Kinds \cup Msgs) /\ Ordered(tasks')
        /\ Elements(tasks') = Elements(tasks) \cup more
    BY <1>2, <1>3, <2>1, PostRelease
  <2>4. m_socketClosed' \in BOOLEAN
    BY <2>1 DEF ClosesSocket
  <2>5. ioLocks' \in Nat
    BY <2>1 DEF TypeOK
  <2>6. /\ ClosesSocket(m_pendingWrite', m_writeError') => m_socketClosed'
        /\ m_socketClosed' => m_socketClosed \/ ClosesSocket(m_pendingWrite', m_writeError')
    BY <2>1
  <2> QED BY <1>1, <1>3, <2>2, <2>3, <2>4, <2>5, <2>6
<1>4. CASE m_closeState # "CLOSING"
  <2>1. tasks' = tasks \o then /\ UNCHANGED <<m_socketClosed, ioLocks>> /\ more = {}
    BY <1>4 DEF AfterWrite
  <2>2. /\ tasks' \in Seq(Kinds \cup Msgs) /\ Ordered(tasks')
        /\ Elements(tasks') = Elements(tasks) \cup posted
    <3>1. CASE then = <<>> /\ posted = {}
      BY <1>2, <2>1, <3>1, PostNothing
    <3>2. CASE then = CloseTask /\ posted = Closes
      <4>1. m_closeState = "NONE" => "close" \notin Elements(tasks)
        BY DEF ClosingFits, Jobs
      <4> QED BY <1>2, <2>1, <3>2, <4>1, PostClose DEF Closes
    <3> QED BY <3>1, <3>2
  <2>3. m_socketClosed' \in BOOLEAN /\ ioLocks' \in Nat
    BY <2>1 DEF TypeOK
  <2> QED BY <1>1, <1>4, <2>1, <2>2, <2>3
<1> QED BY <1>3, <1>4

LEMMA WriteDoneKeeps == IInv /\ WriteDone => IInv'
<1> SUFFICES ASSUME IInv, WriteDone PROVE IInv'
  OBVIOUS
<1> USE DEF IInv
<1> DEFINE rel == m_closeState = "CLOSING" /\ Releases(m_pendingRead, m_pendingWrite', m_writeError')
           more == IF rel THEN {"releaseConnection"} ELSE {}
<1>1. /\ dropping = NoMsg /\ writing # NoMsg /\ dropping' = writing
      /\ \/ /\ m_outputQueue # <<>>
            /\ writing' = Head(m_outputQueue) /\ m_outputQueue' = Tail(m_outputQueue)
            /\ m_pendingWrite' = m_pendingWrite
         \/ /\ m_outputQueue = <<>>
            /\ writing' = NoMsg /\ m_outputQueue' = m_outputQueue
            /\ m_pendingWrite' = m_pendingWrite - 1
      /\ AfterWrite(m_pendingWrite', m_writeError', <<>>)
      /\ UNCHANGED <<m_closeState, m_pendingRead, m_writeError, m_protocol,
                     connection, protocol, client, m_connection, m_refCount, protocolRefs,
                     m_outputMessages, m_autoSend, scheduled, dispatcher, reading>>
  BY DEF WriteDone, IoReady, protVars, refVars
<1>2. /\ tasks' \in Seq(Kinds \cup Msgs) /\ Ordered(tasks')
      /\ Elements(tasks') = Elements(tasks) \cup more
      /\ "releaseConnection" \notin Jobs /\ connection # "deleted" /\ ~m_writeError
      /\ m_socketClosed' \in BOOLEAN
      /\ m_closeState = "CLOSING" /\ ClosesSocket(m_pendingWrite', m_writeError') => m_socketClosed'
      /\ m_socketClosed' =>
           m_socketClosed \/ (m_closeState = "CLOSING" /\ ClosesSocket(m_pendingWrite', m_writeError'))
      /\ ioLocks' \in Nat
  <2>1. /\ tasks' \in Seq(Kinds \cup Msgs) /\ Ordered(tasks')
        /\ Elements(tasks') = Elements(tasks) \cup more \cup {}
        /\ "releaseConnection" \notin Jobs /\ connection # "deleted" /\ ~m_writeError
        /\ m_socketClosed' \in BOOLEAN
        /\ m_closeState = "CLOSING" /\ ClosesSocket(m_pendingWrite', m_writeError') => m_socketClosed'
        /\ m_socketClosed' =>
             m_socketClosed \/ (m_closeState = "CLOSING" /\ ClosesSocket(m_pendingWrite', m_writeError'))
        /\ ioLocks' \in Nat
    BY <1>1, AfterWriteEffect
  <2> QED BY <2>1
<1>3. /\ m_outputQueue' \in Seq(Msgs) /\ Ordered(m_outputQueue')
      /\ writing' # NoMsg => /\ writing' \in Elements(m_outputQueue)
                             /\ Elements(m_outputQueue') = Elements(m_outputQueue) \ {writing'}
      /\ writing' = NoMsg => m_outputQueue' = m_outputQueue /\ m_outputQueue = <<>>
      /\ writing' \in Msgs \cup {NoMsg}
      /\ m_pendingWrite' = IF writing' = NoMsg THEN 0 ELSE 1
  <2>1. m_outputQueue \in Seq(Msgs) /\ Ordered(m_outputQueue)
    BY QueueOrdered
  <2>2. m_pendingWrite = 1
    BY <1>1 DEF TypeOK
  <2>3. CASE m_outputQueue = <<>>
    BY <1>1, <2>1, <2>2, <2>3
  <2>4. CASE m_outputQueue # <<>>
    <3>1. Head(m_outputQueue) \in Msgs
      BY <2>1, <2>4
    <3>2. /\ Tail(m_outputQueue) \in Seq(Msgs) /\ Ordered(Tail(m_outputQueue))
          /\ Head(m_outputQueue) \in Elements(m_outputQueue)
          /\ Elements(Tail(m_outputQueue)) = Elements(m_outputQueue) \ {Head(m_outputQueue)}
      BY <2>1, <2>4, ListTail
    <3> QED BY <1>1, <2>2, <2>4, <3>1, <3>2, KindsAreNoMessages
  <2> QED BY <2>3, <2>4
<1>4. ClosesSocket(m_pendingWrite', m_writeError') <=> writing' = NoMsg
  <2>1. ~m_writeError'
    BY <1>1, <1>2
  <2>2. m_pendingWrite' = 0 <=> writing' = NoMsg
    BY <1>3
  <2> QED BY <2>1, <2>2 DEF ClosesSocket
<1>5. rel => writing' = NoMsg /\ reading = "none" /\ m_closeState = "CLOSING" /\ m_socketClosed'
  <2>1. rel => ClosesSocket(m_pendingWrite', m_writeError') /\ m_pendingRead = 0
               /\ m_closeState = "CLOSING"
    BY DEF Releases
  <2>2. m_pendingRead = 0 => reading = "none"
    BY DEF TypeOK
  <2> QED BY <1>2, <1>4, <2>1, <2>2
<1> HIDE DEF rel
<1>6. Jobs' = Jobs \cup more
  BY <1>1, <1>2 DEF Jobs
<1>7. ListsFit'
  <2>1. scheduled \cap Elements(tasks') = {}
    BY <1>2 DEF ListsFit, Jobs
  <2> QED BY <1>1, <1>2, <1>3, <2>1 DEF ListsFit, Ordered
<1>8. MessagesFit'
  <2>1. ASSUME NEW n \in Msgs PROVE Places(n)' = 1
    <3>1. Places(n) = 1 /\ n # NoMsg
      BY KindsAreNoMessages DEF MessagesFit
    <3>2. n \in Elements(tasks') <=> n \in Elements(tasks)
      BY <1>2, KindsAreNoMessages
    <3>3. CASE writing' = NoMsg
      <4>1. n \in Elements(m_outputQueue') <=> n \in Elements(m_outputQueue)
        BY <1>3, <3>3
      <4> QED BY <1>1, <3>1, <3>2, <3>3, <4>1 DEF Places
    <3>4. CASE writing' # NoMsg
      <4>1. n \in Elements(m_outputQueue') <=> n \in Elements(m_outputQueue) /\ n # writing'
        BY <1>3, <3>4
      <4>2. writing' = n => n \in Elements(m_outputQueue)
        BY <1>3, <3>4
      <4> QED BY <1>1, <3>1, <3>2, <4>1, <4>2 DEF Places
    <3> QED BY <3>3, <3>4
  <2>2. dispatcher' = "send" => m_autoSend' # NoMsg
    BY <1>1 DEF MessagesFit
  <2> QED BY <1>1, <2>1, <2>2 DEF MessagesFit
<1>9. TypeOK'
  <2>1. Elements(tasks') \subseteq Kinds \cup Msgs
    BY <1>7 DEF ListsFit, Elements
  <2>2. dropping' \in Msgs \cup {NoMsg}
    BY <1>1 DEF TypeOK
  <2> QED BY <1>1, <1>2, <1>3, <2>1, <2>2 DEF TypeOK
<1>10. ClosingFits'
  <2>1. m_socketClosed' => m_closeState = "CLOSING"
    BY <1>2 DEF ClosingFits
  <2> QED BY <1>1, <1>2, <1>5, <1>6, <2>1 DEF ClosingFits
<1>11. ProtocolFits'
  BY <1>1, <1>6 DEF ProtocolFits
<1>12. WrittenBeforeClosed'
  <2>1. ~m_socketClosed
    BY <1>1, <1>2 DEF WrittenBeforeClosed
  <2> QED BY <1>2, <1>3, <1>4, <2>1 DEF WrittenBeforeClosed
<1> QED BY <1>7, <1>8, <1>9, <1>10, <1>11, <1>12

LEMMA WriteFailedKeeps == IInv /\ WriteFailed => IInv'
<1> SUFFICES ASSUME IInv, WriteFailed PROVE IInv'
  OBVIOUS
<1> USE DEF IInv
<1> DEFINE rel == m_closeState = "CLOSING" /\ Releases(m_pendingRead, m_pendingWrite', m_writeError')
           more == IF rel THEN {"releaseConnection"} ELSE {}
<1>1. /\ dropping = NoMsg /\ writing # NoMsg /\ dropping' = writing
      /\ writing' = NoMsg /\ m_pendingWrite' = m_pendingWrite - 1
      /\ m_writeError' = TRUE /\ m_closeState' = CloseRequested
      /\ AfterWrite(m_pendingWrite', m_writeError', CloseTask)
      /\ UNCHANGED <<m_pendingRead, m_outputQueue, m_protocol,
                     connection, protocol, client, m_connection, m_refCount, protocolRefs,
                     m_outputMessages, m_autoSend, scheduled, dispatcher, reading>>
  BY DEF WriteFailed, IoReady, protVars, refVars
<1>2. /\ tasks' \in Seq(Kinds \cup Msgs) /\ Ordered(tasks')
      /\ Elements(tasks') = Elements(tasks) \cup more \cup Closes
      /\ "releaseConnection" \notin Jobs /\ connection # "deleted" /\ ~m_writeError
      /\ m_socketClosed' \in BOOLEAN
      /\ m_closeState = "CLOSING" /\ ClosesSocket(m_pendingWrite', m_writeError') => m_socketClosed'
      /\ m_socketClosed' =>
           m_socketClosed \/ (m_closeState = "CLOSING" /\ ClosesSocket(m_pendingWrite', m_writeError'))
      /\ ioLocks' \in Nat
  BY <1>1, AfterWriteEffect
<1>3. m_pendingWrite' = 0
  BY <1>1 DEF TypeOK
<1>4. rel => reading = "none" /\ m_closeState = "CLOSING" /\ m_socketClosed'
  <2>1. rel => ClosesSocket(m_pendingWrite', m_writeError') /\ m_pendingRead = 0
               /\ m_closeState = "CLOSING"
    BY DEF Releases
  <2>2. m_pendingRead = 0 => reading = "none"
    BY DEF TypeOK
  <2> QED BY <1>2, <2>1, <2>2
<1> HIDE DEF rel
<1>5. Jobs' = Jobs \cup more \cup Closes
  BY <1>1, <1>2 DEF Jobs
<1>6. m_closeState' = IF m_closeState = "NONE" THEN "REQUESTED" ELSE m_closeState
  BY <1>1 DEF CloseRequested
<1>7. m_closeState = "NONE" => "close" \notin Jobs
  BY DEF ClosingFits
<1>8. ListsFit'
  <2>1. scheduled \cap Elements(tasks') = {}
    BY <1>2, <1>7 DEF ListsFit, Jobs, Closes
  <2> QED BY <1>1, <1>2, <2>1 DEF ListsFit
<1>9. MessagesFit'
  <2>1. ASSUME NEW n \in Msgs PROVE Places(n)' = 1
    <3>1. Places(n) = 1 /\ n # NoMsg
      BY KindsAreNoMessages DEF MessagesFit
    <3>2. n \in Elements(tasks') <=> n \in Elements(tasks)
      BY <1>2, KindsAreNoMessages DEF Closes
    <3> QED BY <1>1, <3>1, <3>2 DEF Places
  <2>2. dispatcher' = "send" => m_autoSend' # NoMsg
    BY <1>1 DEF MessagesFit
  <2> QED BY <1>1, <2>1, <2>2 DEF MessagesFit
<1>10. TypeOK'
  <2>1. Elements(tasks') \subseteq Kinds \cup Msgs
    BY <1>8 DEF ListsFit, Elements
  <2>2. dropping' \in Msgs \cup {NoMsg}
    BY <1>1 DEF TypeOK
  <2> QED BY <1>1, <1>2, <1>3, <1>6, <2>1, <2>2 DEF TypeOK
<1>11. ClosingFits'
  <2>1. m_socketClosed' => m_closeState = "CLOSING"
    BY <1>2 DEF ClosingFits
  <2> QED BY <1>1, <1>2, <1>4, <1>5, <1>6, <2>1 DEF ClosingFits, Closes, TypeOK
<1>12. ProtocolFits'
  <2>1. m_outputMessages # Msgs
    <3>1. writing \in Msgs
      BY <1>1 DEF TypeOK
    <3>2. Places(writing) = 1
      BY <3>1 DEF MessagesFit
    <3>3. writing \notin m_outputMessages
      BY <3>2 DEF Places
    <3> QED BY <3>1, <3>3
  <2> QED BY <1>1, <1>5, <1>6, <2>1 DEF ProtocolFits, Closes
<1>13. WrittenBeforeClosed'
  BY <1>1 DEF WrittenBeforeClosed
<1> QED BY <1>8, <1>9, <1>10, <1>11, <1>12, <1>13
-----------------------------------------------------------------------------
LEMMA InitInv == Init => IInv
<1> SUFFICES ASSUME Init PROVE IInv
  OBVIOUS
<1> USE DEF Init
<1>1. /\ tasks \in Seq(Kinds \cup Msgs) /\ Elements(tasks) = {} /\ Ordered(tasks)
      /\ Elements(m_outputQueue) = {} /\ m_outputQueue \in Seq(Msgs)
  BY ListNone
<1>2. Jobs = {}
  BY <1>1 DEF Jobs
<1>3. TypeOK
  BY <1>1 DEF TypeOK
<1>4. ListsFit
  BY <1>1 DEF ListsFit, Ordered
<1>5. MessagesFit
  <2>1. ASSUME NEW m \in Msgs PROVE Places(m) = 1
    <3>1. m # NoMsg
      BY KindsAreNoMessages
    <3> QED BY <1>1, <3>1 DEF Places
  <2>2. Cardinality(Msgs \ m_outputMessages) = 0
    <3>1. Msgs \ m_outputMessages = {}
      OBVIOUS
    <3> QED BY <3>1, FS_EmptySet
  <2> QED BY <2>1, <2>2 DEF MessagesFit
<1>6. ClosingFits /\ ProtocolFits /\ WrittenBeforeClosed
  BY <1>2 DEF ClosingFits, ProtocolFits, WrittenBeforeClosed
<1> QED BY <1>3, <1>4, <1>5, <1>6 DEF IInv

LEMMA NextKeeps == IInv /\ [Next]_vars => IInv'
<1> SUFFICES ASSUME IInv, [Next]_vars PROVE IInv'
  OBVIOUS
<1>1. CASE UNCHANGED vars
  <2>1. UNCHANGED <<m_closeState, m_pendingRead, m_pendingWrite, m_writeError, m_socketClosed,
                    m_outputQueue, m_protocol, connection, protocol, m_connection, client,
                    refVars, m_refCount, protocolRefs, m_outputMessages, m_autoSend, tasks,
                    scheduled, dispatcher, ioLocks, reading, writing, dropping>>
    BY <1>1 DEF vars, connVars, protVars, refVars, ioVars
  <2>2. ListsFit' /\ Elements(tasks') = Elements(tasks) /\ Jobs' = Jobs
    BY <2>1, ListsStay DEF IInv
  <2>3. MessagesFit'
    BY <2>1, <2>2, MessagesStay DEF IInv, MessagesFit
  <2>4. TypeOK' /\ ClosingFits' /\ ProtocolFits' /\ WrittenBeforeClosed'
    BY <2>1, <2>2 DEF IInv, TypeOK, ClosingFits, ProtocolFits, WrittenBeforeClosed
  <2> QED BY <2>2, <2>3, <2>4 DEF IInv
<1>2. CASE Io
  <2>1. CASE ReadWhileClosing
    BY <2>1, ReadWhileClosingKeeps
  <2>2. CASE ReadHeader
    BY <2>2, ReadHeaderKeeps
  <2>3. CASE ReadError
    BY <2>3, CloseKeeps
  <2>4. CASE FirstPacketAccepted
    BY <2>4, FirstPacketAcceptedKeeps
  <2>5. CASE FirstPacketRefused
    BY <2>5, FirstPacketRefusedKeeps
  <2>6. CASE NextPacket
    BY <2>6, NextPacketKeeps
  <2>7. CASE WriteDone
    BY <2>7, WriteDoneKeeps
  <2>8. CASE WriteFailed
    BY <2>8, WriteFailedKeeps
  <2>9. CASE DropMessage
    BY <2>9, DropMessageKeeps
  <2> QED BY <1>2, <2>1, <2>2, <2>3, <2>4, <2>5, <2>6, <2>7, <2>8, <2>9 DEF Io, Read
<1>3. CASE \E k \in Kinds : EventDue(k)
  BY <1>3, EventDueKeeps
<1>4. CASE PostGame
  BY <1>4, PostGameKeeps
<1>5. CASE TakeTask
  <2>1. CASE TakeLogin \/ TakeGame \/ TakeClose
    BY <2>1, TakeKeeps
  <2>2. CASE ReleaseProtocol
    BY <2>2, ReleaseProtocolKeeps
  <2>3. CASE ReleaseConnection
    BY <2>3, ReleaseConnectionKeeps
  <2>4. CASE \E m \in Msgs : FreeMessage(m)
    BY <2>4, FreeMessageKeeps
  <2> QED BY <1>5, <2>1, <2>2, <2>3, <2>4 DEF TakeTask
<1>6. CASE RunTask
  <2>1. CASE LoginAccepted \/ CallClose
    BY <2>1, FrameKeeps
  <2>2. CASE LoginRefused
    BY <2>2, LoginRefusedKeeps
  <2>3. CASE Close
    BY <2>3, CloseKeeps
  <2>4. CASE CloseConnectionTask
    BY <2>4, CloseConnectionTaskKeeps
  <2>5. CASE \E m \in Msgs : Write(m)
    BY <2>5, WriteKeeps
  <2> QED BY <1>6, <2>1, <2>2, <2>3, <2>4, <2>5 DEF RunTask
<1>7. CASE EndTask \/ MessageDue \/ SendNothing
  BY <1>7, FrameKeeps
<1>8. CASE SendAll
  BY <1>8, SendAllKeeps
<1> QED BY <1>1, <1>2, <1>3, <1>4, <1>5, <1>6, <1>7, <1>8 DEF Next

(***************************************************************************)
(* Lists, messages, closing and protocol stay consistent, whatever the two *)
(* threads do.                                                             *)
(***************************************************************************)
THEOREM IInvHolds == Spec => []IInv
<1> QED BY InitInv, NextKeeps, PTL DEF Spec
-----------------------------------------------------------------------------
(***************************************************************************)
(* Every variable keeps its type, and the counters of pending operations   *)
(* count the read and the write that are outstanding.                      *)
(***************************************************************************)
THEOREM TypeInvariant == Spec => []TypeOK
<1>1. IInv => TypeOK
  BY DEF IInv
<1> QED BY <1>1, IInvHolds, PTL

(***************************************************************************)
(* Each message out of the pool is in one place and counted once by        *)
(* connection and protocol.                                                *)
(***************************************************************************)
THEOREM RefsCountMessagesHolds == Spec => []RefsCountMessages
<1>1. ASSUME IInv PROVE RefsCountMessages
  <2> USE <1>1 DEF IInv
  <2> DEFINE places == ({m_autoSend} \cup {writing} \cup {dropping} \cup Elements(m_outputQueue)
                         \cup Elements(tasks)) \ ({NoMsg} \cup Kinds)
             slots(m) == {i \in DOMAIN m_outputQueue : m_outputQueue[i] = m}
             count(m) == (IF m_autoSend = m THEN 1 ELSE 0) + (IF writing = m THEN 1 ELSE 0)
                          + (IF dropping = m THEN 1 ELSE 0) + Count(m)
                          + Cardinality(slots(m))
  <2>1. places \subseteq Msgs
    <3>1. Elements(m_outputQueue) \subseteq Msgs
      BY DEF ListsFit, Elements
    <3>2. Elements(tasks) \subseteq Kinds \cup Msgs
      BY ElementTypes
    <3> QED BY <3>1, <3>2 DEF TypeOK
  <2>2. ASSUME NEW m \in Msgs PROVE m \in places <=> m \notin m_outputMessages
    <3>1. Places(m) = 1 /\ m # NoMsg /\ m \notin Kinds
      BY KindsAreNoMessages, ConnectionAssumption DEF MessagesFit
    <3> QED BY <3>1 DEF Places
  <2>3. places = Msgs \ m_outputMessages
    BY <2>1, <2>2
  <2>4. ASSUME NEW m \in places PROVE count(m) = 1
    <3>1. m \in Msgs /\ m \notin m_outputMessages /\ Places(m) = 1
      BY <2>3 DEF MessagesFit
    <3>2. Count(m) = IF m \in Elements(tasks) THEN 1 ELSE 0
      <4>1. m \notin scheduled
        BY <3>1, ConnectionAssumption DEF TypeOK
      <4> QED BY <4>1, CountOne DEF Jobs
    <3>3. Cardinality(slots(m)) = IF m \in Elements(m_outputQueue) THEN 1 ELSE 0
      <4>1. CASE m \in Elements(m_outputQueue)
        <5>1. PICK i \in DOMAIN m_outputQueue : m_outputQueue[i] = m
          BY <4>1 DEF Elements
        <5>2. slots(m) = {i}
          BY <5>1 DEF ListsFit
        <5> QED BY <4>1, <5>2, FS_Singleton
      <4>2. CASE m \notin Elements(m_outputQueue)
        <5>1. slots(m) = {}
          BY <4>2 DEF Elements
        <5> QED BY <4>2, <5>1, FS_EmptySet
      <4> QED BY <4>1, <4>2
    <3> HIDE DEF slots
    <3> QED BY <3>1, <3>2, <3>3 DEF Places
  <2>5. m_refCount = Cardinality(places) /\ protocolRefs = Cardinality(places)
    BY <2>3 DEF MessagesFit
  <2> QED BY <2>3, <2>4, <2>5 DEF RefsCountMessages
<1> QED BY <1>1, IInvHolds, PTL

(***************************************************************************)
(* Nothing that will still run refers to a deleted connection.             *)
(***************************************************************************)
THEOREM DeletedConnectionIsQuietHolds == Spec => []DeletedConnectionIsQuiet
<1>1. ASSUME IInv PROVE DeletedConnectionIsQuiet
  <2> SUFFICES ASSUME connection = "deleted" PROVE DeletedConnectionIsQuiet!2
    BY DEF DeletedConnectionIsQuiet
  <2> USE <1>1 DEF IInv
  <2>1. /\ m_closeState = "CLOSING" /\ m_socketClosed /\ reading = "none" /\ writing = NoMsg
        /\ m_outputMessages = Msgs
        /\ "close" \notin Jobs /\ "releaseConnection" \notin Jobs /\ dispatcher # "closeTask"
    BY DEF ClosingFits
  <2>2. ~m_connection /\ dispatcher \notin {"login", "close"}
    BY <2>1 DEF ProtocolFits
  <2>3. m_outputQueue = <<>>
    <3>1. SUFFICES ASSUME m_outputQueue # <<>> PROVE FALSE
      OBVIOUS
    <3>2. 1 \in DOMAIN m_outputQueue /\ m_outputQueue[1] \in Msgs
      BY <3>1 DEF ListsFit
    <3>3. m_outputQueue[1] \in Elements(m_outputQueue)
      BY <3>2 DEF Elements
    <3>4. Places(m_outputQueue[1]) = 1
      BY <3>2 DEF MessagesFit
    <3> QED BY <2>1, <3>2, <3>3, <3>4 DEF Places
  <2>4. Count("close") = 0 /\ Count("releaseConnection") = 0
    BY <2>1, CountOne
  <2> QED BY <2>1, <2>2, <2>3, <2>4
<1> QED BY <1>1, IInvHolds, PTL

(***************************************************************************)
(* A pending login finds its protocol and connection; a deleted protocol   *)
(* has no client and no message.                                           *)
(***************************************************************************)
THEOREM ProtocolOutlivesItsTasksHolds == Spec => []ProtocolOutlivesItsTasks
<1>1. ASSUME IInv PROVE ProtocolOutlivesItsTasks
  <2> USE <1>1 DEF IInv
  <2>1. protocol = "deleted" => m_outputMessages = Msgs /\ ~client /\ Count("releaseProtocol") = 0
    BY CountOne DEF ClosingFits
  <2>2. Count("login") > 0 => "login" \in Jobs
    BY CountOne
  <2>3. "login" \in Jobs \/ dispatcher \in {"login", "close"} =>
          protocol = "alive" /\ m_connection /\ connection = "alive"
    BY DEF ProtocolFits, ClosingFits, TypeOK
  <2> QED BY <2>1, <2>2, <2>3 DEF ProtocolOutlivesItsTasks
<1> QED BY <1>1, IInvHolds, PTL

(***************************************************************************)
(* One closing task, one pending release of each object, and the socket    *)
(* closed only after what was accepted has been written.                   *)
(***************************************************************************)
THEOREM ClosesInOrderHolds == Spec => []ClosesInOrder
<1>1. ASSUME IInv PROVE ClosesInOrder
  <2> USE <1>1 DEF IInv
  <2>1. \A k \in Kinds : Count(k) <= 1
    BY CountOne
  <2>2. Count("close") = 1 <=> "close" \in Jobs
    BY CountOne
  <2> QED BY <2>1, <2>2 DEF ClosesInOrder, ClosesOnce, ClosingFits
<1> QED BY <1>1, IInvHolds, PTL
=============================================================================
