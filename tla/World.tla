------------------------------- MODULE World -------------------------------
(***************************************************************************)
(* What the dispatcher thread carries out besides sessions and trades: the *)
(* parties, the chat, the spawns, the decay of items, the houses, the      *)
(* beds, the windows, coins and equipment of the players, the raids, who   *)
(* hunts whom, the conditions of a player, how it walks, and what scripts  *)
(* hold.  Each is a module of its own.  They share no state and each step  *)
(* belongs to one of them, so a behaviour follows one part only: "part"    *)
(* says which, and that part has the variables x1, x2, ... for its own as  *)
(* the instances below and in Parts say.                                   *)
(***************************************************************************)
EXTENDS Parts

CONSTANTS Kinds, Worth, StackSize, PackSize, BagSize, MaxWorth, MaxFloor
CONSTANTS Hunters, Beasts, Rivals, Fields, SafeFields, Sight, Screen, Tether
CONSTANTS Hastes, Boosts, FightTime, Looks
CONSTANTS WornItems, Slots, WornTypes, EquipTo, DeEquipTo, Speed, Shield, Suppress, Outfits

VARIABLE part

(* What a part with fewer variables leaves alone.                          *)
From13 == x13
From12 == <<x12, From13>>
From11 == <<x11, From12>>
From10 == <<x10, From11>>
From9 == <<x9, From10>>
From8 == <<x8, From9>>
From7 == <<x7, From8>>
From6 == <<x6, From7>>
From5 == <<x5, From6>>
From4 == <<x4, From5>>
From3 == <<x3, From4>>
vars == <<part, x1, x2, From3>>

Blank13 == x13 = None
Blank12 == x12 = None /\ Blank13
Blank11 == x11 = None /\ Blank12
Blank10 == x10 = None /\ Blank11
Blank9 == x9 = None /\ Blank10
Blank8 == x8 = None /\ Blank9
Blank7 == x7 = None /\ Blank8
Blank6 == x6 = None /\ Blank7
Blank5 == x5 = None /\ Blank6
Blank4 == x4 = None /\ Blank5
Blank3 == x3 = None /\ Blank4

Coins == INSTANCE Coins WITH
  has <- x1, booked <- x2
Equip == INSTANCE Equip WITH
  Types <- WornTypes, Items <- WornItems,
  type <- x1, at <- x2, enabled <- x3, speed <- x4, shields <- x5, suppressed <- x6,
  outfit <- x7, attributes <- x8
Duel == INSTANCE Target WITH
  Players <- Hunters, Monsters <- Rivals, Places <- Fields, Safe <- SafeFields,
  ViewRange <- Sight, ClientRange <- Screen, Leash <- Tether,
  placed <- x1, at <- x2, master <- x3, attacked <- x4, follow <- x5, targets <- x6, near <- x7,
  idle <- x8, checked <- x9, dying <- x10
(* Two fields out of sight of each other, and more monsters.               *)
Pack == INSTANCE Target WITH
  Players <- Hunters, Monsters <- Beasts, Places <- {0, 1}, Safe <- {1},
  ViewRange <- 0, ClientRange <- 0, Leash <- 0,
  placed <- x1, at <- x2, master <- x3, attacked <- x4, follow <- x5, targets <- x6, near <- x7,
  idle <- x8, checked <- x9, dying <- x10

(* The conditions that work on the speed, and those that do not.           *)
Swiftness == INSTANCE Condition WITH
  Types <- {"haste", "paralyze"}, Castable <- Hastes, Looks <- {"citizen"},
  conditions <- x1, speed <- x2, skill <- x3, defaultOutfit <- x4, currentOutfit <- x5,
  marks <- x6, suppressed <- x7, due <- x8, both <- x9, stained <- x10
Strength == INSTANCE Condition WITH
  Types <- {"attributes", "outfit", "fight"}, Castable <- Boosts,
  conditions <- x1, speed <- x2, skill <- x3, defaultOutfit <- x4, currentOutfit <- x5,
  marks <- x6, suppressed <- x7, due <- x8, both <- x9, stained <- x10

ASSUME WorldAssumption ==
  /\ Coins!CoinsAssumption /\ Equip!EquipAssumption
  /\ Duel!TargetAssumption /\ Pack!TargetAssumption
  /\ Swiftness!ConditionAssumption /\ Strength!ConditionAssumption

Init ==
  \/ part = "party" /\ Party!Init /\ Blank9
  \/ part = "partyChat" /\ PartyChat!Init /\ Blank13
  \/ part = "privateChat" /\ PrivateChat!Init /\ Blank13
  \/ part = "spawn" /\ Spawn!Init /\ Blank10
  \/ part = "decay" /\ Decay!Init /\ Blank6
  \/ part = "house" /\ House!Init /\ Blank10
  \/ part = "bed" /\ Bed!Init /\ Blank7
  \/ part = "window" /\ Window!Init /\ Blank4
  \/ part = "coins" /\ Coins!Init /\ Blank3
  \/ part = "raid" /\ Raid!Init /\ Blank7
  \/ part = "equip" /\ Equip!Init /\ Blank9
  \/ part = "duel" /\ Duel!Init /\ Blank11
  \/ part = "pack" /\ Pack!Init /\ Blank11
  \/ part = "swiftness" /\ Swiftness!Init /\ Blank11
  \/ part = "strength" /\ Strength!Init /\ Blank11
  \/ part = "script" /\ Script!Init
  \/ part = "walk" /\ Walk!Init /\ Blank9
-----------------------------------------------------------------------------
PartyStep == part = "party" /\ Party!Next /\ UNCHANGED <<part, From9>>
PartyChatStep == part = "partyChat" /\ PartyChat!Next /\ UNCHANGED <<part, From13>>
PrivateChatStep == part = "privateChat" /\ PrivateChat!Next /\ UNCHANGED <<part, From13>>
SpawnStep == part = "spawn" /\ Spawn!Next /\ UNCHANGED <<part, From10>>
DecayStep == part = "decay" /\ Decay!Next /\ UNCHANGED <<part, From6>>
HouseStep == part = "house" /\ House!Next /\ UNCHANGED <<part, From10>>
BedStep == part = "bed" /\ Bed!Next /\ UNCHANGED <<part, From7>>
WindowStep == part = "window" /\ Window!Next /\ UNCHANGED <<part, From4>>
CoinsStep == part = "coins" /\ Coins!Next /\ UNCHANGED <<part, From3>>
RaidStep == part = "raid" /\ Raid!Next /\ UNCHANGED <<part, From7>>
EquipStep == part = "equip" /\ Equip!Next /\ UNCHANGED <<part, From9>>
DuelStep == part = "duel" /\ Duel!Next /\ UNCHANGED <<part, From11>>
PackStep == part = "pack" /\ Pack!Next /\ UNCHANGED <<part, From11>>
SwiftnessStep == part = "swiftness" /\ Swiftness!Next /\ UNCHANGED <<part, From11>>
StrengthStep == part = "strength" /\ Strength!Next /\ UNCHANGED <<part, From11>>
ScriptStep == part = "script" /\ Script!Next /\ UNCHANGED part
WalkStep == part = "walk" /\ Walk!Next /\ UNCHANGED <<part, From9>>

Next ==
  \/ PartyStep
  \/ PartyChatStep
  \/ PrivateChatStep
  \/ SpawnStep
  \/ DecayStep
  \/ HouseStep
  \/ BedStep
  \/ WindowStep
  \/ CoinsStep
  \/ RaidStep
  \/ EquipStep
  \/ DuelStep
  \/ PackStep
  \/ SwiftnessStep
  \/ StrengthStep
  \/ ScriptStep
  \/ WalkStep

Spec == Init /\ [][Next]_vars
-----------------------------------------------------------------------------
(* No order of inviting, joining, passing the lead on, leaving, logging    *)
(* out and disbanding leaves player and party with different views: see    *)
(* the three invariants of Party.                                          *)
PartiesAgree ==
  part = "party" =>
    Party!TypeOK /\ Party!MembersAgree /\ Party!InvitationsAgree /\ Party!PartyHasCompany

(* Nobody listens to a channel it is not entitled to, and no channel       *)
(* outlives its owner or keeps who has left: see Chat for the exceptions.  *)
ChannelsAgree ==
  /\ part = "partyChat" =>
       PartyChat!TypeOK /\ PartyChat!OnlyEntitledListen /\ PartyChat!ChannelsOfThePresent
  /\ part = "privateChat" =>
       PrivateChat!TypeOK /\ PrivateChat!OnlyEntitledListen /\ PrivateChat!ChannelsOfThePresent

(* A spawn that has an empty block is looked after, and what it lists are  *)
(* monsters that exist; raids go one at a time, and none for ever: see     *)
(* Spawn and Raid.                                                         *)
SpawnsGoOn ==
  /\ part = "spawn" =>
       Spawn!TypeOK /\ Spawn!EmptyBlockIsWatched /\ Spawn!ListedMonstersExist
  /\ part = "raid" => Raid!TypeOK /\ Raid!RaidsTakeTurns

(* What decays is listed, what is listed exists, and an item decays when   *)
(* its time is over, to the second: see Decay.                             *)
DecaysOnTime ==
  [][part = "decay" =>
       /\ Decay!OnTime
       /\ Decay!TypeOK' /\ Decay!ListedItemExists' /\ Decay!DecayingIsListed']_vars

(* Nobody has two houses and no house is taken before the announced day;   *)
(* beds, their two halves and the map of sleepers agree: see House and Bed. *)
HomesAreKept ==
  /\ part = "house" => House!TypeOK /\ House!OneHouseEach /\ House!NoticeIsKept
  /\ part = "bed" => Bed!TypeOK /\ Bed!SleepersAgree

(* Nobody looks into a container that is gone, carried by another or out   *)
(* of reach: see Window.                                                   *)
WindowsInReach == part = "window" => Window!TypeOK /\ Window!WindowsInReach

(* The coins are worth what was paid out and not collected: see Coins.     *)
CoinsAddUp == part = "coins" => Coins!TypeOK /\ Coins!CoinsAddUp

(* The bonuses of a player are those of what it wears: see Equip.          *)
BonusesAddUp == part = "equip" => Equip!TypeOK /\ Equip!BonusesAddUp

(* Nobody hunts a creature that is gone, out of reach or safe, summons have *)
(* their master, and no monster sleeps in sight of an opponent or lies     *)
(* about dead: see Target.                                                 *)
TargetsHold ==
  /\ part = "duel" =>
       /\ Duel!TypeOK /\ Duel!TargetsStand /\ Duel!MasterPresent
       /\ Duel!NobodySleepsInSight /\ Duel!ListedAreThere
  /\ part = "pack" =>
       /\ Pack!TypeOK /\ Pack!TargetsStand /\ Pack!MasterPresent
       /\ Pack!NobodySleepsInSight /\ Pack!ListedAreThere

(* Speed, skills, look and fight marks of a player are what its conditions *)
(* say, and nobody is hasted and paralysed: see Condition.                 *)
ConditionsAddUp ==
  /\ part = "swiftness" =>
       /\ Swiftness!TypeOK /\ Swiftness!DeltasAddUp /\ Swiftness!HasteOrParalysis
       /\ Swiftness!LookIsExplained
  /\ part = "strength" =>
       /\ Strength!TypeOK /\ Strength!DeltasAddUp /\ Strength!LookIsExplained
       /\ Strength!MarksEnd

(* What a script created is placed or freed, what it can name exists, a    *)
(* unique id finds its item, and a timed event runs once or not at all:    *)
(* see Script for the exceptions.                                          *)
ScriptsLetGo ==
  part = "script" =>
    /\ Script!TypeOK /\ Script!ItemsAreFreed /\ Script!NamedItemsExist
    /\ Script!UniqueItemsFound /\ Script!EventsRunOnce

(* A player's walking keeps up with what it asked for: the latest request  *)
(* takes the place of earlier ones, steps left are gone, and what waits    *)
(* for the end of a walk has one: see Walk for the exceptions.             *)
WalksKeepUp ==
  part = "walk" =>
    /\ Walk!TypeOK /\ Walk!LatestRequestOnly /\ Walk!WalkGoesOn
    /\ Walk!RequestHasWalk /\ Walk!StepOrWalk
=============================================================================
