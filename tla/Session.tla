------------------------------ MODULE Session ------------------------------
(***************************************************************************)
(* The sessions of one character: which Player object stands for it in the *)
(* game, which ProtocolGame is that player's client, and what keeps both   *)
(* objects alive (src/src/protocolgame.cpp, with the parts of game.cpp and *)
(* player.cpp that place, check, remove and free a player).                *)
(*                                                                         *)
(* Every step but those of the clients is a task of the dispatcher, so it  *)
(* is atomic, and tasks run in the order they were posted (FifoOrder of    *)
(* Dispatcher).  The connection is reduced to its close state; that the    *)
(* closing handshake ends is shown in Connection.  Clones are not allowed  *)
(* (allowClones = 0) and the character is not an account manager's.        *)
(***************************************************************************)
EXTENDS Naturals, Sequences, FiniteSets

CONSTANTS
  Protocols,  \* the ProtocolGame objects of one execution, one for each connection
  Players,    \* the Player objects created for the character
  NoProtocol, \* Player::client = NULL
  NoPlayer,   \* ProtocolGame::player = NULL
  ReplaceKick \* REPLACE_KICK_ON_LOGIN

ASSUME SessionAssumption ==
  /\ NoProtocol \notin Protocols
  /\ NoPlayer \notin Players
  /\ ReplaceKick \in BOOLEAN

(* Bound: a protocol logs in once, so it creates one Player at most.       *)
ASSUME EnoughPlayers ==
  /\ IsFiniteSet(Protocols) /\ IsFiniteSet(Players)
  /\ Cardinality(Players) >= Cardinality(Protocols)

VARIABLES
  conn,             \* Connection::m_closeState of each protocol's connection
  protocol,         \* "none", "alive" or "deleted"
  player,           \* ProtocolGame::player
  m_acceptPackets,  \* ProtocolGame::m_acceptPackets
  connecting,       \* the player a pending connect() of the protocol is for
  status,           \* each player: "none", "in" the game, "out" of it, "deleted"
  client,           \* Player::client
  isConnecting,     \* Player::isConnecting
  refCount,         \* Thing::refCount of each player
  checkVector,      \* the players in a vector of checkCreatures
  releaseThings,    \* how often each player is in Game::releaseThings
  tasks,            \* the dispatcher's list: <<kind, protocol>>
  scheduled         \* the scheduler's events: <<kind, protocol>>

protocolVars == <<protocol, player, m_acceptPackets, connecting>>
playerVars == <<status, client, isConnecting, refCount, checkVector, releaseThings>>
vars == <<conn, protocolVars, playerVars, tasks, scheduled>>

Kinds == {"login", "connect", "logout", "close", "release"}
InGame == {x \in Players : status[x] = "in"}

Init ==
  /\ conn = [p \in Protocols |-> "none"]
  /\ protocol = [p \in Protocols |-> "none"]
  /\ player = [p \in Protocols |-> NoPlayer]
  /\ m_acceptPackets = [p \in Protocols |-> FALSE]
  /\ connecting = [p \in Protocols |-> NoPlayer]
  /\ status = [x \in Players |-> "none"]
  /\ client = [x \in Players |-> NoProtocol]
  /\ isConnecting = [x \in Players |-> FALSE]
  /\ refCount = [x \in Players |-> 0]
  /\ checkVector = {}
  /\ releaseThings = [x \in Players |-> 0]
  /\ tasks = <<>>
  /\ scheduled = {}
-----------------------------------------------------------------------------
(* The clients, served by the io thread.                                   *)

(* Connection::close(), when the rest of the list is ts.                   *)
Close(p, ts) ==
  /\ conn' = [conn EXCEPT ![p] = IF @ = "open" THEN "requested" ELSE @]
  /\ tasks' = IF conn[p] = "open" THEN Append(ts, <<"close", p>>) ELSE ts

(* parseFirstPacket() accepts a client and posts login().                  *)
Arrive(p) ==
  /\ protocol[p] = "none"
  /\ p = CHOOSE q \in Protocols : protocol[q] = "none"
  /\ conn' = [conn EXCEPT ![p] = "open"]
  /\ protocol' = [protocol EXCEPT ![p] = "alive"]
  /\ tasks' = Append(tasks, <<"login", p>>)
  /\ UNCHANGED <<player, m_acceptPackets, connecting, playerVars, scheduled>>

(* The client hangs up.                                                    *)
HangUp(p) ==
  /\ conn[p] = "open"
  /\ Close(p, tasks)
  /\ UNCHANGED <<protocolVars, playerVars, scheduled>>

(* parsePacket() of a logout: packets are read until the connection is     *)
(* CLOSING.  Bound: one of them is in the list at a time.                  *)
ParseLogout(p) ==
  /\ conn[p] \in {"open", "requested"}
  /\ player[p] # NoPlayer
  /\ m_acceptPackets[p]
  /\ \A i \in DOMAIN tasks : tasks[i] # <<"logout", p>>
  /\ tasks' = Append(tasks, <<"logout", p>>)
  /\ UNCHANGED <<conn, protocolVars, playerVars, scheduled>>
-----------------------------------------------------------------------------
(* The dispatcher.                                                         *)

Take(kind, p) == tasks # <<>> /\ Head(tasks) = <<kind, p>>

(* The scheduler hands an event over.                                      *)
EventDue(kind, p) ==
  /\ <<kind, p>> \in scheduled
  /\ scheduled' = scheduled \ {<<kind, p>>}
  /\ tasks' = Append(tasks, <<kind, p>>)
  /\ UNCHANGED <<conn, protocolVars, playerVars>>

(* Mutant: overlooks a player who has lost the client.                     *)
FindWithClient == {x \in Players : status[x] = "in" /\ client[x] # NoProtocol}

(* getPlayersByName().                                                     *)
Find == InGame

(* login() of a character that is not in the game makes a Player with one  *)
(* reference.  It is refused (by a ban, the waiting list, ...), or placed  *)
(* in the game, which adds the references of the map and of the check      *)
(* vector, and then perhaps kicked by the login script.                    *)
LoginNew(p) ==
  LET x == CHOOSE y \in Players : status[y] = "none"
      Make(where, refs) ==
        /\ player' = [player EXCEPT ![p] = x]
        /\ client' = [client EXCEPT ![x] = p]
        /\ status' = [status EXCEPT ![x] = where]
        /\ refCount' = [refCount EXCEPT ![x] = refs]
      Place == /\ checkVector' = checkVector \cup {x}
               /\ m_acceptPackets' = [m_acceptPackets EXCEPT ![p] = TRUE]
  IN
  /\ Take("login", p)
  /\ Find = {}
  /\ \/ /\ Make("out", 1)
        /\ Close(p, Tail(tasks))
        /\ UNCHANGED <<checkVector, m_acceptPackets, releaseThings>>
     \/ /\ Make("in", 3)
        /\ Place
        /\ tasks' = Tail(tasks)
        /\ UNCHANGED <<conn, releaseThings>>
     \/ /\ Make("out", 3)
        /\ Place
        /\ releaseThings' = [releaseThings EXCEPT ![x] = 1]
        /\ Close(p, Tail(tasks))
  /\ UNCHANGED <<protocol, connecting, isConnecting, scheduled>>

(* login() of a player who has a client: that client is disconnected, and  *)
(* connect() is tried 1000 ms later.                                       *)
LoginReplace(p) ==
  /\ Take("login", p)
  /\ \E x \in Find :
       /\ client[x] # NoProtocol
       /\ IF ReplaceKick
            THEN /\ Close(client[x], Tail(tasks))
                 /\ isConnecting' = [isConnecting EXCEPT ![x] = TRUE]
                 /\ connecting' = [connecting EXCEPT ![p] = x]
                 /\ scheduled' = scheduled \cup {<<"connect", p>>}
            ELSE /\ Close(p, Tail(tasks))
                 /\ UNCHANGED <<isConnecting, connecting, scheduled>>
  /\ UNCHANGED <<protocol, player, m_acceptPackets, status, client, refCount,
                 checkVector, releaseThings>>

(* Mutant: takes the player over from another client.                      *)
CanConnectAnyway(x) == status[x] = "in"

(* connect()'s condition and its effect.                                   *)
CanConnect(x) == status[x] = "in" /\ client[x] = NoProtocol

Connect(p, x) ==
  IF CanConnect(x)
    THEN /\ player' = [player EXCEPT ![p] = x]
         /\ refCount' = [refCount EXCEPT ![x] = @ + 1]
         /\ isConnecting' = [isConnecting EXCEPT ![x] = FALSE]
         /\ client' = [client EXCEPT ![x] = p]
         /\ m_acceptPackets' = [m_acceptPackets EXCEPT ![p] = TRUE]
         /\ tasks' = Tail(tasks)
         /\ UNCHANGED conn
    ELSE /\ Close(p, Tail(tasks))
         /\ UNCHANGED <<player, refCount, isConnecting, client, m_acceptPackets>>

(* login() of a player without a client connects at once.                  *)
LoginTakeOver(p) ==
  /\ Take("login", p)
  /\ \E x \in Find : client[x] = NoProtocol /\ Connect(p, x)
  /\ UNCHANGED <<protocol, connecting, status, checkVector, releaseThings, scheduled>>

ConnectTask(p) ==
  /\ Take("connect", p)
  /\ Connect(p, connecting[p])
  /\ connecting' = [connecting EXCEPT ![p] = NoPlayer]
  /\ UNCHANGED <<protocol, status, checkVector, releaseThings, scheduled>>

(* Mutant: removes the player without freeing it.                          *)
RemoveOnly(X) ==
  /\ status' = [x \in Players |-> IF x \in X THEN "out" ELSE status[x]]
  /\ UNCHANGED releaseThings

(* Game::removeCreature() of the players in X.                             *)
Remove(X) ==
  /\ status' = [x \in Players |-> IF x \in X THEN "out" ELSE status[x]]
  /\ releaseThings' = [x \in Players |-> releaseThings[x] + IF x \in X THEN 1 ELSE 0]

(* ProtocolGame::logout(): closes the connection and removes the player.   *)
LogoutBy(p, ts) == Close(p, ts) /\ Remove({player[p]} \cap InGame)

(* A client's request; where the player is, a fight or a script may        *)
(* forbid it.                                                              *)
Logout(p) ==
  /\ Take("logout", p)
  /\ \/ player[p] # NoPlayer /\ LogoutBy(p, Tail(tasks))
     \/ /\ player[p] \in InGame \cup {NoPlayer}
        /\ tasks' = Tail(tasks)
        /\ UNCHANGED <<conn, status, releaseThings>>
  /\ UNCHANGED <<protocolVars, client, isConnecting, refCount, checkVector, scheduled>>

(* kickPlayer(), at any time, unless the logout script refuses it.         *)
Kick(x) ==
  /\ x \in InGame
  /\ IF client[x] # NoProtocol THEN LogoutBy(client[x], tasks)
       ELSE Remove({x}) /\ UNCHANGED <<conn, tasks>>
  /\ UNCHANGED <<protocolVars, client, isConnecting, refCount, checkVector, scheduled>>

(* Connection::closeConnectionTask(): detaches the protocol.               *)
CloseTask(p) ==
  /\ Take("close", p)
  /\ conn' = [conn EXCEPT ![p] = "closing"]
  /\ tasks' = Append(Tail(tasks), <<"release", p>>)
  /\ UNCHANGED <<protocolVars, playerVars, scheduled>>

(* Mutant: does not look for a connect() that is still to come.            *)
UnreferencedAlways(p) == TRUE

(* Protocol::m_refCount without the messages': a pending connect() counts. *)
Unreferenced(p) == connecting[p] = NoPlayer

ForgetClient(p) ==
  client' = [x \in Players |-> IF x = player[p] /\ client[x] = p THEN NoProtocol ELSE client[x]]

(* releaseProtocol() deletes the protocol, and its reference to the player *)
(* goes into releaseThings.                                                *)
ReleaseAndDelete(p) ==
  /\ Take("release", p)
  /\ Unreferenced(p)
  /\ ForgetClient(p)
  /\ protocol' = [protocol EXCEPT ![p] = "deleted"]
  /\ player' = [player EXCEPT ![p] = NoPlayer]
  /\ releaseThings' = [x \in Players |-> releaseThings[x] + IF x = player[p] THEN 1 ELSE 0]
  /\ tasks' = Tail(tasks)
  /\ UNCHANGED <<conn, m_acceptPackets, connecting, status, isConnecting, refCount,
                 checkVector, scheduled>>

(* It tries again later while connect() or a message refers to it.         *)
ReleaseLater(p) ==
  /\ Take("release", p)
  /\ ForgetClient(p)
  /\ scheduled' = scheduled \cup {<<"release", p>>}
  /\ tasks' = Tail(tasks)
  /\ UNCHANGED <<conn, protocolVars, status, isConnecting, refCount, checkVector, releaseThings>>

(* Mutant: a removed player leaves the vector with no reference dropped.   *)
FreedNone(turn) == {}

(* Game::checkCreatures() frees the removed players it meets.              *)
Freed(turn) == {x \in turn : status[x] # "in"}

(* checkCreatures() for the vector that holds the players in `turn`: it    *)
(* thinks for those in the game, which removes the players in `gone`, and  *)
(* ends with cleanup().                                                    *)
CheckCreatures(turn, gone) ==
  LET drop(x) == releaseThings[x] + (IF x \in gone THEN 1 ELSE 0)
                   + (IF x \in Freed(turn) THEN 1 ELSE 0)
  IN
  /\ refCount' = [x \in Players |-> refCount[x] - drop(x)]
  /\ checkVector' = checkVector \ {x \in turn : status[x] # "in"}
  /\ releaseThings' = [x \in Players |-> 0]
  /\ status' = [x \in Players |->
       IF status[x] = "none" THEN "none"
       ELSE IF refCount[x] <= drop(x) THEN "deleted"
       ELSE IF x \in gone THEN "out" ELSE status[x]]
  /\ UNCHANGED <<protocolVars, client, isConnecting, scheduled>>

Think(turn) ==
  /\ CheckCreatures(turn, {})
  /\ UNCHANGED <<conn, tasks>>

(* The player dies; the client stays, to be told so.                       *)
Die(turn, x) ==
  /\ x \in turn \cap InGame
  /\ CheckCreatures(turn, {x})
  /\ UNCHANGED <<conn, tasks>>

(* Mutant: looks only at players whose client is still there.              *)
PongTimeoutOfClient(turn, x) ==
  /\ x \in turn \cap InGame
  /\ client[x] # NoProtocol
  /\ ~isConnecting[x]
  /\ CheckCreatures(turn, {x})
  /\ Close(client[x], tasks)

(* No answer to a ping for 60 seconds: logged out when canLogout().        *)
PongTimeout(turn, x) ==
  /\ x \in turn \cap InGame
  /\ ~isConnecting[x]
  /\ CheckCreatures(turn, {x})
  /\ IF client[x] # NoProtocol THEN Close(client[x], tasks) ELSE UNCHANGED <<conn, tasks>>
-----------------------------------------------------------------------------
Task(p) == LoginNew(p) \/ LoginReplace(p) \/ LoginTakeOver(p) \/ ConnectTask(p) \/ Logout(p)
             \/ CloseTask(p) \/ ReleaseAndDelete(p) \/ ReleaseLater(p)

Check == \E turn \in SUBSET checkVector :
           Think(turn) \/ \E x \in Players : Die(turn, x) \/ PongTimeout(turn, x)

Next ==
  \/ \E p \in Protocols : Arrive(p) \/ HangUp(p) \/ ParseLogout(p) \/ Task(p)
  \/ \E kind \in Kinds, p \in Protocols : EventDue(kind, p)
  \/ \E x \in Players : Kick(x)
  \/ Check

Spec == Init /\ [][Next]_vars

(***************************************************************************)
(* Tasks run, events come due, each vector of checkCreatures has its turn, *)
(* the references of messages are dropped in the end (Connection), and a   *)
(* player without a client is at last in a state that canLogout() allows,  *)
(* as far as that depends on the fight and on where the player stands.     *)
(***************************************************************************)
FairSpec ==
  /\ Spec
  /\ WF_vars(\E p \in Protocols : Task(p))
  /\ \A kind \in {"connect", "release"}, p \in Protocols : WF_vars(EventDue(kind, p))
  /\ \A p \in Protocols : SF_vars(ReleaseAndDelete(p))
  /\ \A x \in Players :
       /\ WF_vars(\E turn \in SUBSET checkVector : (x \in checkVector => x \in turn) /\ Think(turn))
       /\ SF_vars(\E turn \in SUBSET checkVector : client[x] = NoProtocol /\ PongTimeout(turn, x))
-----------------------------------------------------------------------------
TypeOK ==
  /\ conn \in [Protocols -> {"none", "open", "requested", "closing"}]
  /\ protocol \in [Protocols -> {"none", "alive", "deleted"}]
  /\ player \in [Protocols -> Players \cup {NoPlayer}]
  /\ m_acceptPackets \in [Protocols -> BOOLEAN]
  /\ connecting \in [Protocols -> Players \cup {NoPlayer}]
  /\ status \in [Players -> {"none", "in", "out", "deleted"}]
  /\ client \in [Players -> Protocols \cup {NoProtocol}]
  /\ isConnecting \in [Players -> BOOLEAN]
  /\ refCount \in [Players -> Nat]
  /\ checkVector \subseteq Players
  /\ releaseThings \in [Players -> Nat]
  /\ tasks \in Seq(Kinds \X Protocols)
  /\ scheduled \subseteq Kinds \X Protocols

(***************************************************************************)
(* A Player counts exactly the holders that will each drop it once: the    *)
(* map, the check vector, the protocols that point to it, and the entries  *)
(* of releaseThings.  So cleanup() deletes a player when nobody points to  *)
(* it any more, and not before.                                            *)
(***************************************************************************)
RefsCountHolders == TypeOK /\
  \A x \in Players : status[x] \notin {"none", "deleted"} =>
    refCount[x] = (IF status[x] = "in" THEN 1 ELSE 0)
                  + (IF x \in checkVector THEN 1 ELSE 0)
                  + Cardinality({p \in Protocols : player[p] = x})
                  + releaseThings[x]

(***************************************************************************)
(* Tasks and events are bound to raw pointers.  Whatever the dispatcher or *)
(* the scheduler still holds for a protocol, the protocol is there; what a *)
(* protocol and a player point to is there too.                            *)
(***************************************************************************)
NothingDangles ==
  /\ \A i \in DOMAIN tasks : protocol[tasks[i][2]] = "alive"
  /\ \A e \in scheduled : protocol[e[2]] = "alive"
  /\ \A p \in Protocols : player[p] # NoPlayer =>
       protocol[p] = "alive" /\ status[player[p]] \in {"in", "out"}
  /\ \A x \in Players : status[x] \in {"in", "out"} /\ client[x] # NoProtocol =>
       player[client[x]] = x

(***************************************************************************)
(* The character is in the game once, however logins, disconnections,      *)
(* deaths and time-outs interleave; twice would duplicate what it owns.    *)
(***************************************************************************)
InGameOnce == Cardinality(InGame) <= 1

(***************************************************************************)
(* It has one controller: of the protocols that point to a player, only    *)
(* its client has a connection that is not being closed.                   *)
(***************************************************************************)
OneController == InGameOnce /\
  \A p \in Protocols :
    player[p] # NoPlayer /\ conn[p] = "open" => client[player[p]] = p

(***************************************************************************)
(* A player changes hands only through having no client, and only when the *)
(* connection of the last one is closing.                                  *)
(***************************************************************************)
ClientLetsGoFirst ==
  [][\A x \in Players :
       client[x] # NoProtocol /\ client'[x] # client[x] =>
         client'[x] = NoProtocol /\ conn[client[x]] = "closing"]_vars

(***************************************************************************)
(* A player without a client is logged out or found by a new client, or is *)
(* left marked isConnecting, which canLogout() takes for a replacement on  *)
(* its way even when connect() has failed.                                 *)
(***************************************************************************)
LostPlayerLeaves ==
  \A x \in Players :
    status[x] = "in" /\ client[x] = NoProtocol ~>
      status[x] # "in" \/ client[x] # NoProtocol \/ isConnecting[x]

(***************************************************************************)
(* A client whose login was accepted controls the player or is told off;   *)
(* a closed one is forgotten; a player out of the game is freed unless an  *)
(* open connection still shows it (the window of a dead player).           *)
(***************************************************************************)
SessionEnds ==
  /\ \A p \in Protocols :
       /\ protocol[p] = "alive" ~> m_acceptPackets[p] \/ conn[p] # "open"
       /\ conn[p] = "requested" ~> protocol[p] = "deleted"
  /\ \A x \in Players :
       status[x] = "out" ~>
         status[x] = "deleted" \/ \E p \in Protocols : player[p] = x /\ conn[p] = "open"

(***************************************************************************)
(* "A task has already been scheduled just bail out (should not be         *)
(* overriden)" (src/src/protocolgame.cpp:265): no second replacement of a  *)
(* player is scheduled while one is pending.                               *)
(***************************************************************************)
OneReplacement ==
  \A p, q \in Protocols :
    connecting[p] # NoPlayer /\ connecting[p] = connecting[q] => p = q
=============================================================================
