-------------------------------- MODULE Bed --------------------------------
(***************************************************************************)
(* The beds of a house (src/src/beds.cpp, with its callers in player.cpp,  *)
(* house.cpp and iomapserialize.cpp).  A player who goes to bed is kicked  *)
(* 50 ms later and sleeps while it is away; the bed wakes it at its login. *)
(* A bed may have a second half, which shows the same sleeper.             *)
(*                                                                         *)
(* The beds are stored with the map and can be older than the players'     *)
(* state after a crash.                                                    *)
(***************************************************************************)
EXTENDS Naturals, FiniteSets

CONSTANTS
  Players,
  Beds,     \* the halves, each an item
  Partner,  \* of each half the other one, or None
  Level,    \* the AccessHouseLevel_t of each player
  None

BedAssumption ==
  /\ Partner \in [Beds -> Beds \cup {None}]
  /\ \A b \in Beds : Partner[b] # None => Partner[b] # b /\ Partner[Partner[b]] = b
  /\ Level \in [Players -> 0..3]
  /\ None \notin Players \cup Beds

HOUSE_OWNER == 3

VARIABLES
  online,
  kicks,   \* the players whose kick is scheduled
  sleeper, \* BedItem::sleeper
  bedOf,   \* BedSleepersMap
  stored,  \* the sleepers in the database
  twice    \* history: who took another bed before it was kicked

vars == <<online, kicks, sleeper, bedOf, stored, twice>>

Halves(b) == {b, Partner[b]} \ {None}
BedsOf(s, p) == {b \in Beds : s[b] = p}

Init ==
  /\ online = {} /\ kicks = {} /\ twice = {}
  /\ sleeper = [b \in Beds |-> None]
  /\ bedOf = [p \in Players |-> None]
  /\ stored = sleeper
-----------------------------------------------------------------------------
CanUse(p, b) ==
  \/ sleeper[b] = None
  \/ Level[p] = HOUSE_OWNER
  \/ Level[sleeper[b]] <= Level[p]

(* BedItem::sleep of an empty bed, which it may well be for a player who   *)
(* is about to be kicked from another one.                                 *)
Sleep(p, b) ==
  /\ p \in online
  /\ sleeper[b] = None
  /\ bedOf' = [bedOf EXCEPT ![p] = b]
  /\ sleeper' = [c \in Beds |-> IF c \in Halves(b) THEN p ELSE sleeper[c]]
  /\ kicks' = kicks \cup {p}
  /\ twice' = IF BedsOf(sleeper, p) # {} THEN twice \cup {p} ELSE twice
  /\ UNCHANGED <<online, stored>>

(* BedItem::wakeUp.  The map forgets the sleeper, whichever bed it meant.  *)
Woken(b) ==
  /\ bedOf' = [p \in Players |-> IF p = sleeper[b] THEN None ELSE bedOf[p]]
  /\ sleeper' = [c \in Beds |-> IF c \in Halves(b) THEN None ELSE sleeper[c]]
  /\ twice' = {p \in twice : BedsOf(sleeper', p) # {}}

(* Using a bed with somebody in it.                                        *)
Wake(p, b) ==
  /\ p \in online
  /\ sleeper[b] # None
  /\ CanUse(p, b)
  /\ Woken(b)
  /\ UNCHANGED <<online, kicks, stored>>

(* The kick, or a logout or death before it; its id is not used again.     *)
Leave(p) ==
  /\ p \in online
  /\ online' = online \ {p}
  /\ kicks' = kicks \ {p}
  /\ UNCHANGED <<sleeper, bedOf, stored, twice>>

(* Player::onCreatureAppear                                                *)
Login(p) ==
  /\ p \notin online
  /\ online' = online \cup {p}
  /\ IF bedOf[p] # None THEN Woken(bedOf[p]) ELSE UNCHANGED <<sleeper, bedOf, twice>>
  /\ UNCHANGED <<kicks, stored>>

(* House::clean wakes everybody.                                           *)
Clean ==
  /\ bedOf' = [p \in Players |-> IF BedsOf(sleeper, p) # {} THEN None ELSE bedOf[p]]
  /\ sleeper' = [b \in Beds |-> None]
  /\ twice' = {}
  /\ UNCHANGED <<online, kicks, stored>>
-----------------------------------------------------------------------------
Save ==
  /\ stored' = sleeper
  /\ UNCHANGED <<online, kicks, sleeper, bedOf, twice>>

(* The server starts again, after an end of any kind.  Each half that is   *)
(* loaded enters itself into the map; the last one stays.                  *)
Restart ==
  /\ online' = {} /\ kicks' = {}
  /\ sleeper' = stored
  /\ \E last \in [Players -> Beds \cup {None}] :
       /\ \A p \in Players :
            IF BedsOf(stored, p) = {} THEN last[p] = None ELSE last[p] \in BedsOf(stored, p)
       /\ bedOf' = last
  /\ twice' = {p \in Players : \E b, c \in BedsOf(stored, p) : c \notin Halves(b)}
  /\ UNCHANGED stored

Next ==
  \/ \E p \in Players, b \in Beds : Sleep(p, b) \/ Wake(p, b)
  \/ \E p \in Players : Leave(p) \/ Login(p)
  \/ Clean
  \/ Save
  \/ Restart

Spec == Init /\ [][Next]_vars
-----------------------------------------------------------------------------
TypeOK ==
  /\ online \subseteq Players
  /\ kicks \subseteq online
  /\ sleeper \in [Beds -> Players \cup {None}]
  /\ stored \in [Beds -> Players \cup {None}]
  /\ bedOf \in [Players -> Beds \cup {None}]
  /\ twice \subseteq Players

(***************************************************************************)
(* Both halves of a bed show the same sleeper, the map names only beds     *)
(* that the player sleeps in, and a sleeper is found through the map when  *)
(* it logs in and is not in the game but for the moment until its kick:    *)
(* only who took a second bed in that moment may stay in one.              *)
(***************************************************************************)
SleepersAgree ==
  /\ \A b \in Beds : Partner[b] # None => sleeper[b] = sleeper[Partner[b]]
  /\ \A p \in Players : bedOf[p] # None => sleeper[bedOf[p]] = p
  /\ \A p \in Players \ twice : \A b \in BedsOf(sleeper, p) :
       /\ bedOf[p] \in Halves(b)
       /\ p \in online => p \in kicks
=============================================================================
