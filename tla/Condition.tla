------------------------------ MODULE Condition ------------------------------
(***************************************************************************)
(* The conditions of a player (src/src/condition.cpp, creature.cpp,        *)
(* player.cpp): what is added, merged, executed, dispelled, saved and      *)
(* loaded, and what they change in the player: speed, skills, look, and    *)
(* the marks of a fight.                                                   *)
(*                                                                         *)
(* The unit of time is EVENT_CREATURE_THINK_INTERVAL.  An end time is kept *)
(* as the time left to it, since the model has no clock.  Left out: damage *)
(* over time, regeneration, light, mutes and exhaustion, which change      *)
(* nothing that must be taken back, sub-ids, and item slots: id "item"     *)
(* stands for one.                                                         *)
(***************************************************************************)
EXTENDS Integers, Sequences

CONSTANTS
  Types,     \* types of conditions
  Castable,  \* conditions that spells and items add
  FightTime, \* how long a fight lasts, ConfigManager::PZ_LOCKED
  Looks,     \* default outfits
  None       \* no outfit

SpeedTypes == {"haste", "paralyze"}
ConditionIds == {"default", "combat", "item"}

Fight == [type |-> "fight", id |-> "default", ticks |-> FightTime, delta |-> 0, look |-> None]

ConditionAssumption ==
  /\ Types \subseteq SpeedTypes \cup {"attributes", "outfit", "fight"}
  /\ FightTime \in Nat \ {0} /\ None \notin Looks
  /\ \A c \in Castable :
       /\ c.type \in Types \ {"fight"} /\ c.id \in ConditionIds /\ c.ticks \in Nat \cup {-1}
       /\ c.delta \in Int /\ (c.delta # 0 <=> c.type \in SpeedTypes \cup {"attributes"})
       /\ c.type = "attributes" => c.look = None
       /\ c.type = "outfit" => c.look # None

Past == -1  \* an end time that has passed
Unset == -2 \* endTime is 0

VARIABLES
  conditions,    \* a sequence of conditions, each with the time left
  speed,         \* varSpeed
  skill,         \* varSkills
  defaultOutfit,
  currentOutfit,
  marks,         \* of "locked", "attacked" and "white": pzLocked, attackedSet, the skull
  suppressed,    \* conditionSuppressions
  due,           \* a unit of time has passed since the last execution
  both,          \* history: a speed condition was prolonged after it had run
                 \* out, or added while its opposite was suppressed
  stained        \* history: a speed condition with an outfit got one without

vars == <<conditions, speed, skill, defaultOutfit, currentOutfit, marks, suppressed, due,
          both, stained>>

Player ==
  [conditions |-> conditions, speed |-> speed, skill |-> skill, current |-> currentOutfit,
   marks |-> marks, both |-> both, stained |-> stained]

Become(p) ==
  /\ conditions' = p.conditions /\ speed' = p.speed /\ skill' = p.skill
  /\ currentOutfit' = p.current /\ marks' = p.marks
  /\ both' = p.both /\ stained' = p.stained

Init ==
  /\ conditions = <<>> /\ speed = 0 /\ skill = 0
  /\ defaultOutfit \in Looks /\ currentOutfit = defaultOutfit
  /\ marks = {} /\ suppressed = {} /\ due = FALSE
  /\ both = FALSE /\ stained = FALSE
-----------------------------------------------------------------------------
(* hasCondition: neither suppressed nor over; getEndTime is 0 for one that  *)
(* is permanent.                                                           *)
InForce(c) == c.ticks = -1 \/ c.left = Unset \/ c.left >= 0

Listed(p) == {p.conditions[i] : i \in DOMAIN p.conditions}

HasCondition(p, type) ==
  type \notin suppressed /\ \E c \in Listed(p) : c.type = type /\ InForce(c)

(* setTicks: a condition that is to stop at once keeps its end time.       *)
SetTicks(c, ticks) == [c EXCEPT !.ticks = ticks, !.left = IF ticks > 0 THEN ticks ELSE @]

(* What a condition does to the player, and what its end takes back.       *)
Applied(p, c, sign) ==
  [p EXCEPT
    !.speed = IF c.type \in SpeedTypes THEN @ + sign * c.delta ELSE @,
    !.skill = IF c.type = "attributes" THEN @ + sign * c.delta ELSE @]

Changed(p, c) == IF c.look = None THEN p ELSE [p EXCEPT !.current = c.look]

(* endCondition and onEndCondition.                                        *)
Ended(p, c) ==
  LET q == Applied(p, c, -1) IN
  [q EXCEPT
    !.current = IF c.look = None THEN @ ELSE defaultOutfit,
    !.marks = IF c.type = "fight" THEN {} ELSE @]

(* Every way of removing conditions goes through the list and ends those   *)
(* that are not kept.                                                      *)
Kept(p, stay) ==
  LET kept[n \in 0..Len(p.conditions)] ==
        IF n = 0 THEN [p EXCEPT !.conditions = <<>>]
        ELSE LET c == p.conditions[n] IN
             IF c \in stay THEN [kept[n - 1] EXCEPT !.conditions = Append(@, c)]
             ELSE Ended(kept[n - 1], c)
  IN kept[Len(p.conditions)]

WithoutType(p, type) == Kept(p, {c \in Listed(p) : c.type # type})

(* onAddCondition.                                                         *)
Opposite(type) == IF type = "haste" THEN "paralyze" ELSE "haste"

(* Mutant: whoever is hasted can be paralysed as well.                     *)
KeepsOpposite(p, type) == p

OnAddCondition(p, type) ==
  IF type \in SpeedTypes /\ HasCondition(p, Opposite(type))
    THEN WithoutType(p, Opposite(type))
    ELSE p
-----------------------------------------------------------------------------
Revives(c, next) == c.type \in SpeedTypes /\ ~InForce(c) /\ InForce(next)

(* updateCondition; ConditionSpeed has a rule of its own.                  *)
MayUpdate(c, new) ==
  IF c.type \in SpeedTypes
    THEN c.ticks # -1 \/ new.ticks <= 0
    ELSE /\ c.ticks # -1 \/ new.ticks < 1
         /\ new.ticks < 0 \/ c.left <= new.ticks

(* addCondition of a condition that is there already.                      *)
Updated(p, i, new) ==
  LET c == p.conditions[i]
      next == [SetTicks(c, new.ticks) EXCEPT !.delta = new.delta, !.look = new.look]
      other == Applied(Applied(p, c, -1), new, 1)
  IN IF ~MayUpdate(c, new) THEN p
     ELSE [Changed(other, new) EXCEPT
            !.conditions[i] = next,
            !.both = @ \/ Revives(c, next),
            !.stained = @ \/ (c.look # None /\ new.look = None)]

Overlooked(p, type) ==
  /\ type \in SpeedTypes /\ Opposite(type) \in suppressed
  /\ \E c \in Listed(p) : c.type = Opposite(type) /\ InForce(c)

(* Creature::addCondition.                                                 *)
AddCondition(p, new) ==
  LET same == {i \in DOMAIN p.conditions :
                 p.conditions[i].type = new.type /\ p.conditions[i].id = new.id}
      started == SetTicks([type |-> new.type, id |-> new.id, ticks |-> new.ticks,
                           delta |-> new.delta, look |-> new.look, left |-> Unset], new.ticks)
      listed ==
        [Changed(Applied(p, new, 1), new) EXCEPT
          !.conditions = Append(@, started),
          !.both = @ \/ Overlooked(p, new.type)]
  IN IF same # {} THEN Updated(p, CHOOSE i \in same : TRUE, new)
     ELSE OnAddCondition(listed, new.type)

Cast(new) ==
  /\ Become(AddCondition(Player, new))
  /\ UNCHANGED <<defaultOutfit, suppressed, due>>

(* Time goes on; the player has its turn to think afterwards, maybe late.  *)
TimePasses ==
  /\ conditions' =
       [i \in DOMAIN conditions |-> [conditions[i] EXCEPT !.left = IF @ > Past THEN @ - 1 ELSE @]]
  /\ due' = TRUE
  /\ UNCHANGED <<speed, skill, defaultOutfit, currentOutfit, marks, suppressed, both, stained>>

(* executeConditions.                                                      *)
ExecuteConditions ==
  LET Worn(c) == [c EXCEPT !.ticks = IF @ > 0 THEN @ - 1 ELSE @]
      spent == [Player EXCEPT !.conditions = [i \in DOMAIN @ |-> Worn(@[i])]]
  IN /\ due /\ due' = FALSE
     /\ Become(Kept(spent, {c \in Listed(spent) : c.ticks = -1 \/ c.left >= 0}))
     /\ UNCHANGED <<defaultOutfit, suppressed>>

(* A cure, a spell that ends, and an item that is taken off.               *)
RemoveCondition(type) ==
  /\ Become(WithoutType(Player, type))
  /\ UNCHANGED <<defaultOutfit, suppressed, due>>

RemoveItemCondition(type) ==
  /\ Become(Kept(Player, {c \in Listed(Player) : c.type # type \/ c.id # "item"}))
  /\ UNCHANGED <<defaultOutfit, suppressed, due>>

(* onCombatRemoveCondition: who may not act yet keeps the condition until  *)
(* it may, in whole units; with less than one nothing ends earlier.        *)
Dispel(type) ==
  LET Hit(c) == c.type = type /\ c.id # "item" IN
  /\ \/ Become(Kept(Player, {c \in Listed(Player) : ~Hit(c)}))
     \/ \E delay \in 0..1 :
          LET Put(c) == IF Hit(c) THEN SetTicks(c, delay) ELSE c
          IN Become([Player EXCEPT
                      !.conditions = [i \in DOMAIN @ |-> Put(@[i])],
                      !.both = @ \/ \E c \in Listed(Player) : Revives(c, Put(c))])
  /\ UNCHANGED <<defaultOutfit, suppressed, due>>

(* Items and outfits that suppress conditions.                             *)
SetSuppressions(types) ==
  /\ suppressed' = types
  /\ UNCHANGED <<conditions, speed, skill, defaultOutfit, currentOutfit, marks, due,
                 both, stained>>

(* playerChangeOutfit.                                                     *)
ChangeOutfit(look) ==
  /\ defaultOutfit' = look
  /\ currentOutfit' = IF HasCondition(Player, "outfit") THEN currentOutfit ELSE look
  /\ UNCHANGED <<conditions, speed, skill, marks, suppressed, due, both, stained>>
-----------------------------------------------------------------------------
(* onAttacked and onAttackedCreature: a fight with a monster leaves no mark, *)
(* one with a partner or who fights back is only remembered, any other     *)
(* locks and marks.                                                        *)
AttackPlayer ==
  /\ "fight" \in Types
  /\ \E gained \in {{}, {"attacked"}, {"attacked", "locked"}, {"attacked", "locked", "white"}} :
       LET p == AddCondition(Player, Fight) IN Become([p EXCEPT !.marks = @ \cup gained])
  /\ UNCHANGED <<defaultOutfit, suppressed, due>>

(* onKilledCreature of a player, after a longer fight.                     *)
KillPlayer ==
  /\ HasCondition(Player, "fight")
  /\ Become(AddCondition([Player EXCEPT !.marks = @ \cup {"locked"}],
                         [Fight EXCEPT !.ticks = FightTime + 1]))
  /\ UNCHANGED <<defaultOutfit, suppressed, due>>

(* isPersistent.                                                           *)
Persistent(c) == c.ticks > 0 /\ c.id # "combat"

(* The player leaves and comes back: what was saved is added again.        *)
Relog ==
  LET loaded[n \in 0..Len(conditions)] ==
        IF n = 0
          THEN [conditions |-> <<>>, speed |-> 0, skill |-> 0, current |-> defaultOutfit,
                marks |-> {}, both |-> FALSE, stained |-> FALSE]
        ELSE IF Persistent(conditions[n]) THEN AddCondition(loaded[n - 1], conditions[n])
        ELSE loaded[n - 1]
  IN /\ Become(loaded[Len(conditions)])
     /\ due' = FALSE
     /\ UNCHANGED <<defaultOutfit, suppressed>>

(* Death in an arena: the player is healed and stays in the game.          *)
DieInArena ==
  /\ Become([Kept(Player, {c \in Listed(Player) : ~Persistent(c)}) EXCEPT !.marks = @ \ {"locked"}])
  /\ UNCHANGED <<defaultOutfit, suppressed, due>>

Next ==
  \/ \E c \in Castable : Cast(c)
  \/ TimePasses
  \/ ExecuteConditions
  \/ \E type \in Types \ {"fight"} :
       RemoveCondition(type) \/ RemoveItemCondition(type) \/ Dispel(type)
  \/ \E types \in {{}, Types \cap SpeedTypes} : SetSuppressions(types)
  \/ \E look \in Looks : ChangeOutfit(look)
  \/ AttackPlayer
  \/ KillPlayer
  \/ Relog
  \/ DieInArena

Spec == Init /\ [][Next]_vars
-----------------------------------------------------------------------------
TypeOK ==
  /\ \A c \in Listed(Player) :
       /\ c.type \in Types /\ c.id \in ConditionIds
       /\ c.ticks \in Nat \cup {-1} /\ c.left \in Nat \cup {Past, Unset}
  /\ speed \in Int /\ skill \in Int
  /\ defaultOutfit \in Looks
  /\ marks \subseteq {"locked", "attacked", "white"}
  /\ suppressed \subseteq Types
  /\ due \in BOOLEAN /\ both \in BOOLEAN /\ stained \in BOOLEAN

Sum(types) ==
  LET sum[n \in 0..Len(conditions)] ==
        IF n = 0 THEN 0
        ELSE sum[n - 1] + IF conditions[n].type \in types THEN conditions[n].delta ELSE 0
  IN sum[Len(conditions)]

(* The speed and the skills of a player are changed by exactly what its    *)
(* conditions say, through all merging, ending, saving and loading         *)
(* (condition.cpp:ConditionSpeed, ConditionAttributes).                    *)
DeltasAddUp == speed = Sum(SpeedTypes) /\ skill = Sum({"attributes"})

(* Nobody is hasted and paralysed (creature.cpp:onAddCondition), unless    *)
(* one of the two was suppressed when the other one came, or ran out and   *)
(* was prolonged before it had been removed.                               *)
HasteOrParalysis == ~both => ~\A type \in SpeedTypes : HasCondition(Player, type)

(* Who looks like something else has a condition that says so              *)
(* (condition.cpp:ConditionOutfit::endCondition).                          *)
LookIsExplained ==
  currentOutfit # defaultOutfit /\ ~stained => \E c \in Listed(Player) : c.look # None

(* Whoever is locked out of protection zones or marked is in a fight that  *)
(* will end (player.cpp:onEndCondition).                                   *)
MarksEnd ==
  marks # {} => \E c \in Listed(Player) : c.type = "fight" /\ c.ticks # -1
=============================================================================
