------------------------------- MODULE Equip -------------------------------
(***************************************************************************)
(* The abilities of worn items and outfits (src/src/movement.cpp,          *)
(* player.cpp, outfit.cpp, game.cpp): a speed bonus, a mana shield and a   *)
(* suppressed condition are given when an item gets into a slot and taken  *)
(* back when it leaves or changes.  Some items change when they are put on *)
(* and change back when they are taken off, which runs the equip events    *)
(* again inside the events that made the change.                           *)
(*                                                                         *)
(* Speed stands for every bonus that is added and subtracted (skills and   *)
(* stats too, in the units of the item; bonuses in percent, which no item  *)
(* of the data has, are left out).  Whether the player fulfils what an     *)
(* item asks for (level, magic level, vocation) is a choice of each step.  *)
(* An item only changes into one of the same ItemTypes_t.                  *)
(***************************************************************************)
EXTENDS Integers, Sequences

CONSTANTS
  None,
  Items,
  Slots,      \* the slots these items may be worn in, in the order of their numbers
  Types,
  EquipTo,    \* transformEquipTo of each type, or None
  DeEquipTo,  \* transformDeEquipTo of each type, or None
  Speed,      \* abilities.speed of each type and outfit
  Shield,     \* the types and outfits with a mana shield
  Suppress,   \* the types and outfits that suppress drunkenness
  Outfits

SlotSet == {Slots[n] : n \in DOMAIN Slots}
Sources == SlotSet \cup {"outfit"}  \* what gives abilities, by the id they are given under

(* A type that changes when it is worn has no abilities of its own.        *)
EquipAssumption ==
  /\ Slots \in Seq(SlotSet) /\ \A m, n \in DOMAIN Slots : Slots[m] = Slots[n] => m = n
  /\ \A name \in {"away", "gone", "outfit", "spell"} : name \notin SlotSet
  /\ None \notin Types \cup Outfits /\ None \notin Shield \cup Suppress
  /\ EquipTo \in [Types -> Types \cup {None}] /\ DeEquipTo \in [Types -> Types \cup {None}]
  /\ Speed \in [Types \cup Outfits -> Int]
  /\ \A t \in Types : EquipTo[t] # None =>
       /\ EquipTo[EquipTo[t]] = None
       /\ Speed[t] = 0 /\ t \notin Shield \cup Suppress

VARIABLES
  type,       \* of each item
  at,         \* a slot, "away" or "gone"
  enabled,    \* inventoryAbilities of each slot
  speed,      \* varSpeed
  shields,    \* ids of the mana shield conditions: slots, "outfit", "spell"
  suppressed, \* conditionSuppressions has CONDITION_DRUNK
  outfit,     \* defaultOutfit
  attributes  \* outfitAttributes

vars == <<type, at, enabled, speed, shields, suppressed, outfit, attributes>>

Worn(s) == [enabled |-> [n \in SlotSet |-> FALSE], speed |-> 0, shields |-> {}, suppressed |-> FALSE, type |-> s.type, at |-> s.at]
Now == [type |-> type, at |-> at, enabled |-> enabled, speed |-> speed, shields |-> shields, suppressed |-> suppressed]
Become(s) ==
  /\ type' = s.type /\ at' = s.at /\ enabled' = s.enabled
  /\ speed' = s.speed /\ shields' = s.shields /\ suppressed' = s.suppressed

Init ==
  /\ type \in [Items -> Types]
  /\ at = [i \in Items |-> "away"]
  /\ enabled = [n \in SlotSet |-> FALSE]
  /\ speed = 0 /\ shields = {} /\ suppressed = FALSE
  /\ outfit \in Outfits /\ attributes = FALSE
-----------------------------------------------------------------------------
(* The abilities of a type or outfit, given and taken; id is the slot or   *)
(* "outfit".                                                               *)
Given(s, id, what) ==
  [s EXCEPT !.speed = @ + Speed[what],
            !.shields = IF what \in Shield THEN @ \cup {id} ELSE @,
            !.suppressed = @ \/ what \in Suppress]

Taken(s, id, what) ==
  [s EXCEPT !.speed = @ - Speed[what],
            !.shields = IF what \in Shield THEN @ \ {id} ELSE @,
            !.suppressed = @ /\ what \notin Suppress]

(* EquipItem of a type that does not change.                               *)
EquipPlain(s, slot, i, able) ==
  IF s.enabled[slot] \/ s.type[i] \notin able THEN s
  ELSE Given([s EXCEPT !.enabled[slot] = TRUE], slot, s.type[i])

(* EquipItem: the change to what is worn equips that.                      *)
EquipItem(s, slot, i, able) ==
  LET to == EquipTo[s.type[i]] IN
  IF s.enabled[slot] \/ s.type[i] \notin able THEN s
  ELSE IF to = None THEN EquipPlain(s, slot, i, able)
  ELSE Given(EquipPlain([s EXCEPT !.type[i] = to], slot, i, able), slot, s.type[i])

(* DeEquipItem.  The item may be in its new place already, and changes     *)
(* there before the abilities it had are taken; if that is a slot too, it  *)
(* is equipped in it.                                                      *)
DeEquipItem(s, slot, i, isRemoval, able) ==
  LET was == s.type[i]
      off == [s EXCEPT !.enabled[slot] = FALSE]
      changes == isRemoval /\ DeEquipTo[was] # None /\ s.at[i] # "gone"
      changed == [off EXCEPT !.type[i] = DeEquipTo[was]]
  IN IF ~s.enabled[slot] THEN s
     ELSE Taken(IF ~changes THEN off
                ELSE IF s.at[i] \in SlotSet THEN EquipItem(changed, s.at[i], i, able)
                ELSE changed,
                slot, was)

(* Mutant: the item has changed when its abilities are taken.              *)
TransformedEarly(s, i, to, able) ==
  IF s.at[i] \notin SlotSet THEN [s EXCEPT !.type[i] = to]
  ELSE EquipItem(DeEquipItem([s EXCEPT !.type[i] = to], s.at[i], i, FALSE, able), s.at[i], i, able)

(* transformItem, also to the same type when only its charges change.      *)
Transformed(s, i, to, able) ==
  IF s.at[i] \notin SlotSet THEN [s EXCEPT !.type[i] = to]
  ELSE EquipItem([DeEquipItem(s, s.at[i], i, FALSE, able) EXCEPT !.type[i] = to], s.at[i], i, able)

(* internalMoveItem and internalRemoveItem: first the notice of leaving.   *)
MovedTo(s, i, to, able) ==
  LET moved == [s EXCEPT !.at[i] = to]
      left == IF s.at[i] \in SlotSet THEN DeEquipItem(moved, s.at[i], i, TRUE, able) ELSE moved
  IN IF to \in SlotSet THEN EquipItem(left, to, i, able) ELSE left
-----------------------------------------------------------------------------
Able == SUBSET Types
In(slot) == {i \in Items : at[i] = slot}

MoveItem(i, to, able) ==
  /\ at[i] # "gone" /\ to # at[i]
  /\ to \in SlotSet => In(to) = {}
  /\ Become(MovedTo(Now, i, to, able))
  /\ UNCHANGED <<outfit, attributes>>

(* What is in the slot goes where the item comes from; the item may turn   *)
(* out to be too heavy only then.                                          *)
Exchange(i, slot, able) ==
  /\ at[i] = "away"
  /\ \E j \in In(slot) :
       LET given == MovedTo(Now, j, "away", able)
       IN Become(given) \/ Become(MovedTo(given, i, slot, able))
  /\ UNCHANGED <<outfit, attributes>>

TransformItem(i, to, able) ==
  /\ at[i] # "gone"
  /\ Become(Transformed(Now, i, to, able))
  /\ UNCHANGED <<outfit, attributes>>

(* Player::changeOutfit; without the addons there are no attributes.       *)
ChangeOutfit(to, addons) ==
  LET bare == IF attributes THEN Taken(Now, "outfit", outfit) ELSE Now
  IN /\ Become(IF addons THEN Given(bare, "outfit", to) ELSE bare)
     /\ outfit' = to
     /\ attributes' = addons

(* The items equip themselves from the first slot to the last.             *)
Dress(s, slot, able) ==
  IF In(slot) = {} THEN s ELSE EquipItem(s, slot, CHOOSE i \in In(slot) : TRUE, able)

Dressed(s, able) ==
  LET upTo[n \in 0 .. Len(Slots)] == IF n = 0 THEN s ELSE Dress(upTo[n - 1], Slots[n], able)
  IN upTo[Len(Slots)]

(* The player leaves and comes back: onCreatureAppear.  A spell lasts.     *)
Relog(addons, able) ==
  LET saved == [Worn(Now) EXCEPT !.shields = shields \cap {"spell"}]
      dressed == Dressed(saved, able)
  IN /\ Become(IF addons THEN Given(dressed, "outfit", outfit) ELSE dressed)
     /\ attributes' = addons
     /\ UNCHANGED outfit

Spell ==
  /\ shields' \in {shields \cup {"spell"}, shields \ {"spell"}}
  /\ UNCHANGED <<type, at, enabled, speed, suppressed, outfit, attributes>>

Next ==
  \/ \E i \in Items, able \in Able :
       \/ \E to \in SlotSet \cup {"away", "gone"} : MoveItem(i, to, able)
       \/ \E slot \in SlotSet : Exchange(i, slot, able)
       \/ \E to \in Types : TransformItem(i, to, able)
  \/ \E o \in Outfits, addons \in BOOLEAN : ChangeOutfit(o, addons)
  \/ \E addons \in BOOLEAN, able \in Able : Relog(addons, able)
  \/ Spell

Spec == Init /\ [][Next]_vars
-----------------------------------------------------------------------------
TypeOK ==
  /\ type \in [Items -> Types]
  /\ at \in [Items -> SlotSet \cup {"away", "gone"}]
  /\ enabled \in [SlotSet -> BOOLEAN]
  /\ speed \in Int
  /\ shields \subseteq SlotSet \cup {"outfit", "spell"}
  /\ suppressed \in BOOLEAN
  /\ outfit \in Outfits /\ attributes \in BOOLEAN

(* What gives abilities to the player, and the speed all of it adds up to. *)
Giver(id) ==
  IF id = "outfit" THEN IF attributes THEN outfit ELSE None
  ELSE IF enabled[id] THEN type[CHOOSE i \in Items : at[i] = id] ELSE None

Bonus(id) == IF Giver(id) = None THEN 0 ELSE Speed[Giver(id)]

BonusUpTo[n \in 0 .. Len(Slots)] ==
  IF n = 0 THEN Bonus("outfit") ELSE BonusUpTo[n - 1] + Bonus(Slots[n])

(***************************************************************************)
(* The bonuses of a player are those of what it wears, whatever changes    *)
(* inside which event: taking an item off takes exactly what putting it on *)
(* gave, though it is another type of item by then.  A suppressed          *)
(* condition is suppressed by something worn (the converse fails: the bit  *)
(* goes with the first of two items that suppress it).                     *)
(***************************************************************************)
BonusesAddUp ==
  /\ \A i, j \in Items : at[i] = at[j] /\ at[i] \in SlotSet => i = j
  /\ \A n \in SlotSet : enabled[n] => \E i \in Items : at[i] = n
  /\ speed = BonusUpTo[Len(Slots)]
  /\ shields \ {"spell"} = {id \in Sources : Giver(id) \in Shield}
  /\ suppressed => \E id \in Sources : Giver(id) \in Suppress
=============================================================================
