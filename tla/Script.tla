------------------------------- MODULE Script -------------------------------
(***************************************************************************)
(* Scripts, and the things they hold (src/src/luascript.cpp, luascript.h,  *)
(* item.cpp, game.cpp, iologindata.cpp): the stack of environments, the    *)
(* items a script creates before it places them, the map of unique ids,    *)
(* and the events a script adds with addEvent.                             *)
(*                                                                         *)
(* A script may call what causes another event, whose script runs in the   *)
(* next environment.  Things are freed in two steps: freeThing() lists     *)
(* them and cleanup(), a part of later tasks, drops their only reference.  *)
(*                                                                         *)
(* Left out: uids other than unique ids (a script names a thing by the     *)
(* thing itself), creatures, results of the database, items in containers, *)
(* and interfaces other than one.                                          *)
(***************************************************************************)
EXTENDS Integers, Sequences

CONSTANTS
  Items,
  UniqueIds,
  Events,    \* what addEvent numbers
  MaxEnv,    \* environments, 21
  None

ScriptAssumption == MaxEnv \in Nat \ {0} /\ None \notin Items \cup UniqueIds \cup Events

VARIABLES
  envs,        \* environments in use: the local map and the event being executed
  tempItems,   \* m_tempItems
  state,       \* "unborn", "virtual" (its parent is the virtual cylinder), "placed", "removed", "deleted"
  freed,       \* how often an item is in releaseThings
  uniqueId,
  globalMap,   \* m_globalMap: unique ids of items
  timerEvents, \* m_timerEvents
  scheduled,   \* events that the scheduler will still hand over
  robbed,      \* history: items that were freed when a script could still name them
  stale,       \* history: items deleted without onRemoved()
  loose,       \* history: unique ids given while another item had them or the map
               \* named one, or whose item was removed before it was placed
  stopped,     \* history: events that were stopped or forgotten
  down         \* an erased event or a deleted item was used

itemVars == <<tempItems, state, freed, uniqueId, globalMap, robbed, stale, loose>>
eventVars == <<timerEvents, scheduled, stopped>>
vars == <<envs, itemVars, eventVars, down>>

Init ==
  /\ envs = <<>> /\ tempItems = [k \in 1..MaxEnv |-> {}]
  /\ state = [i \in Items |-> "unborn"] /\ freed = [i \in Items |-> 0]
  /\ uniqueId = [i \in Items |-> None] /\ globalMap = [u \in UniqueIds |-> None]
  /\ timerEvents = {} /\ scheduled = {} /\ stopped = {}
  /\ robbed = {} /\ stale = {} /\ loose = {}
  /\ down = FALSE
-----------------------------------------------------------------------------
Running == envs # <<>> /\ ~down
Top == Len(envs)

(* getItemByUID: what the local map or the global one names, if it has a   *)
(* parent.                                                                 *)
Named == envs[Top].knows \cup ({globalMap[u] : u \in UniqueIds} \ {None})
Known(i) == Running /\ i \in Named /\ state[i] \in {"virtual", "placed"}

Knows(i) == envs' = [envs EXCEPT ![Top].knows = @ \cup {i}]

(* reserveEnv: an event of the game, or one caused by a running script.    *)
Execute ==
  /\ ~down /\ Top < MaxEnv
  /\ envs' = Append(envs, [knows |-> {}, event |-> None])
  /\ UNCHANGED <<itemVars, eventVars, down>>

(* reset: frees the items that were not placed, those of every script.     *)
Temps == UNION {tempItems[k] : k \in 1..MaxEnv}

(* Mutant: does not look at where the item is.                             *)
Created == Temps

Unplaced == {i \in Temps : state[i] = "virtual"}

Reset ==
  LET outer == UNION {envs[k].knows : k \in 1..(Top - 1)}
      unique == {globalMap[u] : u \in UniqueIds}
  IN
  /\ freed' = [i \in Items |-> freed[i] + (IF i \in Unplaced THEN 1 ELSE 0)]
  /\ robbed' = robbed \cup (Unplaced \cap (outer \cup unique))
  /\ tempItems' = [k \in 1..MaxEnv |-> {}]

(* releaseEnv, and the end of executeTimer, which erases the event it has  *)
(* found before the script ran.                                            *)
Finish ==
  LET e == envs[Top].event IN
  /\ Running
  /\ down' = ((e # None /\ e \notin timerEvents) \/ \E i \in Temps : state[i] = "deleted")
  /\ envs' = SubSeq(envs, 1, Top - 1)
  /\ Reset
  /\ timerEvents' = timerEvents \ {e}
  /\ UNCHANGED <<state, uniqueId, globalMap, stale, loose, scheduled, stopped>>
-----------------------------------------------------------------------------
(* luaDoCreateItemEx.                                                      *)
CreateItemEx(i) ==
  /\ Running /\ state[i] = "unborn"
  /\ state' = [state EXCEPT ![i] = "virtual"]
  /\ tempItems' = [tempItems EXCEPT ![Top] = @ \cup {i}]
  /\ Knows(i)
  /\ UNCHANGED <<freed, uniqueId, globalMap, robbed, stale, loose, eventVars, down>>

(* removeTempItem erases the item from a copy of the list.                *)
RemoveTempItem(i) == tempItems' = tempItems

(* internalAddItem: an item that is refused, or joins a stack, stays where *)
(* it is.                                                                  *)
InternalAddItem(i) ==
  /\ state' = [state EXCEPT ![i] = "placed"]
  /\ RemoveTempItem(i)

(* luaDoPlayerAddItemEx, luaDoTileAddItemEx, luaDoAddContainerItemEx.      *)
AddItemEx(i) ==
  /\ Known(i) /\ state[i] = "virtual"
  /\ InternalAddItem(i)
  /\ UNCHANGED <<envs, freed, uniqueId, globalMap, robbed, stale, loose, eventVars, down>>

(* luaDoPlayerSendMailByName to somebody who is offline: the player that   *)
(* was loaded is saved and deleted with its depots.                        *)
MailOffline(i) ==
  /\ Known(i) /\ state[i] = "virtual"
  /\ state' = [state EXCEPT ![i] = "deleted"]
  /\ stale' = stale \cup {i}
  /\ UNCHANGED <<envs, tempItems, freed, uniqueId, globalMap, robbed, loose, eventVars, down>>

(* Anything a script learns of by looking at the world.                    *)
Find(i) ==
  /\ Running /\ state[i] = "placed" /\ Knows(i)
  /\ UNCHANGED <<itemVars, eventVars, down>>

(* removeUniqueThing.                                                      *)
RemoveUnique(i) ==
  globalMap' = [u \in UniqueIds |-> IF u = uniqueId[i] THEN None ELSE globalMap[u]]

(* internalRemoveItem, by a script or by the game.                         *)
RemoveItem(i) ==
  /\ ~down
  /\ \/ state[i] = "placed"
     \/ Known(i)
  /\ IF state[i] = "placed"
       THEN state' = [state EXCEPT ![i] = "removed"] /\ freed' = [freed EXCEPT ![i] = @ + 1]
       ELSE UNCHANGED <<state, freed>>
  /\ loose' = IF state[i] = "virtual" THEN loose \cup ({uniqueId[i]} \ {None}) ELSE loose
  /\ RemoveUnique(i)
  /\ UNCHANGED <<envs, tempItems, uniqueId, robbed, stale, eventVars, down>>

(* setUniqueId and addUniqueThing.                                         *)
SetUniqueId(i, u) ==
  /\ Known(i) /\ uniqueId[i] = None
  /\ uniqueId' = [uniqueId EXCEPT ![i] = u]
  /\ globalMap' = [globalMap EXCEPT ![u] = IF @ = None THEN i ELSE @]
  /\ loose' =
       IF globalMap[u] # None
          \/ \E j \in Items : uniqueId[j] = u /\ state[j] \in {"virtual", "placed"}
         THEN loose \cup {u} ELSE loose
  /\ UNCHANGED <<envs, tempItems, state, freed, robbed, stale, eventVars, down>>

(* cleanup: a part of tasks that run no script at the time.                *)
Cleanup ==
  LET gone == {i \in Items : freed[i] > 0} IN
  /\ envs = <<>> /\ ~down /\ gone # {}
  /\ state' = [i \in Items |-> IF i \in gone THEN "deleted" ELSE state[i]]
  /\ freed' = [i \in Items |-> 0]
  /\ stale' = stale \cup {i \in gone : state[i] = "virtual"}
  /\ UNCHANGED <<envs, tempItems, uniqueId, globalMap, robbed, loose, eventVars, down>>
-----------------------------------------------------------------------------
Used == timerEvents \cup scheduled \cup stopped

(* luaAddEvent.                                                            *)
AddEvent(e) ==
  /\ Running /\ e \notin Used
  /\ timerEvents' = timerEvents \cup {e}
  /\ scheduled' = scheduled \cup {e}
  /\ UNCHANGED <<envs, itemVars, stopped, down>>

(* luaStopEvent.                                                           *)
StopEvent(e) ==
  /\ Running /\ e \in timerEvents
  /\ timerEvents' = timerEvents \ {e}
  /\ stopped' = stopped \cup {e}
  /\ UNCHANGED <<envs, itemVars, scheduled, down>>

(* executeTimer, up to the script.                                         *)
ExecuteTimer(e) ==
  /\ envs = <<>> /\ ~down /\ e \in scheduled
  /\ scheduled' = scheduled \ {e}
  /\ envs' = IF e \in timerEvents THEN <<[knows |-> {}, event |-> e]>> ELSE envs
  /\ UNCHANGED <<itemVars, timerEvents, stopped, down>>

(* closeState and initState: a reload, which is a task of its own.         *)
Reload ==
  /\ envs = <<>> /\ ~down /\ timerEvents # {}
  /\ timerEvents' = {}
  /\ stopped' = stopped \cup timerEvents
  /\ UNCHANGED <<envs, itemVars, scheduled, down>>

Next ==
  \/ Execute \/ Finish \/ Cleanup \/ Reload
  \/ \E i \in Items :
       CreateItemEx(i) \/ AddItemEx(i) \/ MailOffline(i) \/ Find(i) \/ RemoveItem(i)
  \/ \E i \in Items, u \in UniqueIds : SetUniqueId(i, u)
  \/ \E e \in Events : AddEvent(e) \/ StopEvent(e) \/ ExecuteTimer(e)

Spec == Init /\ [][Next]_vars
-----------------------------------------------------------------------------
TypeOK ==
  /\ Len(envs) <= MaxEnv
  /\ \A k \in 1..Len(envs) : envs[k].knows \subseteq Items /\ envs[k].event \in Events \cup {None}
  /\ tempItems \in [1..MaxEnv -> SUBSET Items]
  /\ state \in [Items -> {"unborn", "virtual", "placed", "removed", "deleted"}]
  /\ freed \in [Items -> Nat]
  /\ uniqueId \in [Items -> UniqueIds \cup {None}]
  /\ globalMap \in [UniqueIds -> Items \cup {None}]
  /\ timerEvents \cup scheduled \cup stopped \subseteq Events

(* An item is freed once, when it has left the world or never came into it, *)
(* and none that a script created is forgotten (luascript.cpp:reset),      *)
(* except those that the end of an inner script takes from the outer one,  *)
(* or that are still found by their unique id.                             *)
ItemsAreFreed ==
  \A i \in Items \ robbed :
    /\ freed[i] <= 1
    /\ freed[i] > 0 => state[i] \in {"virtual", "removed"}
    /\ state[i] = "removed" => freed[i] = 1
    /\ state[i] = "virtual" =>
         freed[i] = 1 \/ \E k \in 1..Top : i \in tempItems[k]

(* What a script can name has not been deleted (getThingByUID), except an  *)
(* item that it has sent to somebody who is offline, and a unique item     *)
(* that was deleted without onRemoved().                                   *)
NamedItemsExist ==
  /\ \A k \in 1..Top : \A i \in envs[k].knows \ stale : state[i] # "deleted"
  /\ \A u \in UniqueIds :
       LET i == globalMap[u] IN i # None /\ i \notin stale \cup robbed => state[i] # "deleted"

(* A unique id finds its item (addUniqueThing, removeUniqueThing), unless  *)
(* another had it or the item was removed before it was placed.            *)
UniqueItemsFound ==
  \A i \in Items :
    state[i] = "placed" /\ uniqueId[i] \in UniqueIds \ loose => globalMap[uniqueId[i]] = i

(* An event is executed if and only if it has not been stopped or          *)
(* forgotten, once, and is listed until it is over (executeTimer), unless  *)
(* its script stops it.                                                    *)
EventsRunOnce ==
  \A e \in Events :
    e \in timerEvents <=>
      (e \in scheduled \/ (envs # <<>> /\ envs[1].event = e)) /\ e \notin stopped
=============================================================================
