------------------------------- MODULE Window -------------------------------
(***************************************************************************)
(* The containers players look into (Player::containerVec of player.cpp,   *)
(* with the moves of game.cpp and the notifications of tile.cpp,           *)
(* container.cpp and depot.cpp).  A window is a number the client chose    *)
(* and a pointer that counts nothing: each step that takes a container out *)
(* of somebody's reach has to tell whoever looks into it, or into another  *)
(* inside it.                                                              *)
(*                                                                         *)
(* Places lie in a row; room, capacity, doors and scripts are choices.     *)
(***************************************************************************)
EXTENDS Integers, FiniteSets

CONSTANTS
  Players,
  Bags,      \* containers that can be carried
  Depots,    \* a function: of each player its depot
  Places,    \* a set of integers
  Lockers,   \* the places with a depot locker
  ViewRange, \* Map::maxViewportX
  Windows,   \* the numbers a client may use, 0 to 15
  None

DepotSet == {Depots[p] : p \in Players}
Containers == Bags \cup DepotSet

WindowAssumption ==
  /\ Places \subseteq Int /\ Lockers \subseteq Places
  /\ ViewRange \in Nat /\ ViewRange >= 1
  /\ IsFiniteSet(Containers) /\ Bags \cap DepotSet = {}
  /\ \A p, q \in Players : Depots[p] = Depots[q] => p = q
  /\ Players \cap Containers = {} /\ Places \cap (Players \cup Containers) = {}
  /\ None \notin Players \cup Containers \cup Places

VARIABLES
  pos,    \* the place of each player, None when it is not in the game
  where,  \* Thing::parent: a player, a container, a place or None
  window  \* Player::containerVec

vars == <<pos, where, window>>

State == [where |-> where, window |-> window]
Become(s) == where' = s.where /\ window' = s.window

Init ==
  /\ pos = [p \in Players |-> None]
  /\ where = [c \in Containers |-> None]
  /\ window = [p \in Players |-> [w \in Windows |-> None]]
-----------------------------------------------------------------------------
(* The container itself and all that it lies in.                           *)
Around(wh, c) ==
  LET depth == Cardinality(Containers)
      up[n \in 0..depth] ==
        IF n = 0 THEN {c}
        ELSE LET near == up[n - 1] IN near \cup ({wh[d] : d \in near} \cap Containers)
  IN up[depth]

Outermost(wh, c) == CHOOSE d \in Around(wh, c) : wh[d] \notin Containers
Base(wh, c) == wh[Outermost(wh, c)]

InRange(a, b) == a \in Places /\ b \in Places /\ a - b \in -1..1
Sees(p, place) == pos[p] \in Places /\ pos[p] - place \in -ViewRange..ViewRange

PositionOf(wh, c) == IF Base(wh, c) \in Players THEN pos[Base(wh, c)] ELSE Base(wh, c)
IsRemoved(wh, c) == Base(wh, c) = None

(* Player::autoCloseContainers                                             *)
AutoClosed(s, p, c) ==
  [w \in Windows |->
     LET open == s.window[p][w] IN
     IF open # None /\ (c \in Around(s.where, open) \/ IsRemoved(s.where, open))
       THEN None ELSE open]

(* Mutant: whoever carries the container now does not matter.              *)
LosesNear(wh, p, c) ==
  \/ IsRemoved(wh, c)
  \/ ~InRange(pos[p], PositionOf(wh, c))

(* Player::postRemoveNotification closes what is too far away, carried by  *)
(* another player or in the depot of another.                              *)
Loses(wh, p, c) ==
  \/ IsRemoved(wh, c)
  \/ ~InRange(pos[p], PositionOf(wh, c))
  \/ Base(wh, c) \in Players \ {p}
  \/ Outermost(wh, c) \in DepotSet \ {Depots[p]}

(* A player is told what happens to its own things, and whoever sees the   *)
(* place is told about things on the floor.                                *)
Told(s, from) ==
  LET base == IF from \in Containers THEN Base(s.where, from) ELSE from IN
  IF base \in Players THEN {base}
  ELSE {p \in Players : base # None /\ Sees(p, base)}

(* The container comes to a new place, or to none, and then the old one is *)
(* notified.                                                               *)
Moved(s, c, to) ==
  LET from == s.where[c]
      there == [s EXCEPT !.where[c] = to]
  IN [there EXCEPT
        !.window = [p \in Players |->
           IF p \in Told(there, from) /\ Loses(there.where, p, c)
             THEN AutoClosed(there, p, c) ELSE @[p]]]

(* Where a bag can go: a depot is in the world once it has been used, or   *)
(* when something is mailed to it.                                         *)
Holders(c) ==
  {p \in Players : pos[p] # None} \cup Places
    \cup {d \in Containers : c \notin Around(where, d)}
-----------------------------------------------------------------------------
(* By players, mailboxes, houses, trades and scripts.                      *)
MoveItem(c, to) ==
  /\ where[c] # None
  /\ to \in Holders(c) /\ to # where[c]
  /\ to \in Bags => where[to] # None
  /\ Become(Moved(State, c, to))
  /\ UNCHANGED pos

(* What is in the slot of a player changes places with what comes.         *)
Exchange(c, d) ==
  /\ where[c] # None /\ c # d
  /\ where[d] \in Players /\ where[d] # where[c]
  /\ d \notin Around(where, c) /\ c \notin Around(where, d)
  /\ Become(Moved(Moved(State, d, where[c]), c, where[d]))
  /\ UNCHANGED pos

(* internalRemoveItem; a decay that needs another object does the same.    *)
RemoveItem(c) ==
  /\ where[c] # None
  /\ Become(Moved(State, c, None))
  /\ UNCHANGED pos

(* The object is deleted with what it holds, and another bag made.         *)
CreateItem(c, place) ==
  /\ IsRemoved(where, c)
  /\ where' = [where EXCEPT ![c] = place]
  /\ UNCHANGED <<pos, window>>

(* Every step of a player, also if it is pushed or teleported: what it     *)
(* leaves behind is closed.                                                *)
Moves(p, place) ==
  /\ pos[p] \notin {None, place}
  /\ pos' = [pos EXCEPT ![p] = place]
  /\ window' =
       LET Left(c) == c # None /\ Base(where, c) # p /\ ~InRange(place, PositionOf(where, c)) IN
       [window EXCEPT ![p] = [w \in Windows |-> IF Left(@[w]) THEN None ELSE @[w]]]
  /\ UNCHANGED where

Appear(p, place) ==
  /\ pos[p] = None
  /\ pos' = [pos EXCEPT ![p] = place]
  /\ UNCHANGED <<where, window>>

(* The player is deleted with its windows, its things and its depot.       *)
Disappear(p) ==
  /\ pos[p] # None
  /\ pos' = [pos EXCEPT ![p] = None]
  /\ window' = [window EXCEPT ![p] = [w \in Windows |-> None]]
  /\ where' = [c \in Containers |->
                 IF Base(where, c) = p \/ Outermost(where, c) = Depots[p] THEN None ELSE where[c]]
-----------------------------------------------------------------------------
CanUse(p, c) ==
  \/ where[c] = p
  \/ where[c] \in Places /\ InRange(pos[p], where[c])
  \/ \E w \in Windows : where[c] # None /\ window[p][w] = where[c]

(* Using a container that is open closes its first window.                 *)
Toggled(p, c, w) ==
  LET open == {v \in Windows : window[p][v] = c} IN
  IF open = {} THEN [window EXCEPT ![p][w] = c]
  ELSE [window EXCEPT ![p][CHOOSE v \in open : \A u \in open : v <= u] = None]

OpenContainer(p, c, w) ==
  /\ pos[p] # None
  /\ CanUse(p, c)
  /\ window' = Toggled(p, c, w)
  /\ UNCHANGED <<pos, where>>

(* The locker stands for the depot of whoever uses it.                     *)
OpenDepot(p, place, w) ==
  /\ InRange(pos[p], place)
  /\ where' = [where EXCEPT ![Depots[p]] = place]
  /\ window' = Toggled(p, Depots[p], w)
  /\ UNCHANGED pos

CloseContainer(p, w) ==
  /\ window[p][w] # None
  /\ window' = [window EXCEPT ![p][w] = None]
  /\ UNCHANGED <<pos, where>>

MoveUpContainer(p, w) ==
  /\ window[p][w] # None
  /\ where[window[p][w]] \in Containers
  /\ window' = [window EXCEPT ![p][w] = where[@]]
  /\ UNCHANGED <<pos, where>>

PlayerStep(p) ==
  \/ \E place \in Places : Moves(p, place) \/ Appear(p, place)
  \/ Disappear(p)
  \/ \E w \in Windows :
       \/ \E c \in Bags : OpenContainer(p, c, w)
       \/ \E place \in Lockers : OpenDepot(p, place, w)
       \/ CloseContainer(p, w) \/ MoveUpContainer(p, w)

BagStep(c) ==
  \/ \E to \in Players \cup Places \cup Containers : MoveItem(c, to)
  \/ \E d \in Bags : Exchange(c, d)
  \/ RemoveItem(c)
  \/ \E place \in Places : CreateItem(c, place)

Next ==
  \/ \E p \in Players : PlayerStep(p)
  \/ \E c \in Bags : BagStep(c)

Spec == Init /\ [][Next]_vars
-----------------------------------------------------------------------------
TypeOK ==
  /\ pos \in [Players -> Places \cup {None}]
  /\ where \in [Containers -> Players \cup Places \cup Containers \cup {None}]
  /\ window \in [Players -> [Windows -> Containers \cup {None}]]

(***************************************************************************)
(* Whatever a player looks into exists and is in its reach: it carries it, *)
(* or it lies within a step on the floor or in the player's own depot.     *)
(***************************************************************************)
WindowsInReach ==
  \A p \in Players, w \in Windows :
    LET c == window[p][w] IN
    c # None =>
      /\ ~IsRemoved(where, c)
      /\ Base(where, c) = p \/ InRange(pos[p], Base(where, c))
      /\ Outermost(where, c) \in DepotSet => Outermost(where, c) = Depots[p]
=============================================================================
