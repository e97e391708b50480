------------------------------- MODULE Parts -------------------------------
(***************************************************************************)
(* The parts of World that PartsProofs is about: the parties, the chat,    *)
(* spawns and raids, the decay of items, houses, beds, how a player walks, *)
(* the windows of players, and what scripts hold.  A part has the          *)
(* variables x1, x2, ... for its own as the instances below say.  World    *)
(* has the other parts, and the steps.                                     *)
(***************************************************************************)
EXTENDS Integers, Sequences, FiniteSets

CONSTANTS None
CONSTANTS Players, Parties
CONSTANTS Premium, Ids
CONSTANTS BlockCount, Monsters, Rate
CONSTANTS Freed, Raids, RefType, Events, Things
CONSTANTS K, Types, DecayTime, DecayTo, StopTime, Vanished, Never, Transforms, MaxListings
CONSTANTS Tenants, Houses, Period, WarningsLimit, MaxDay
CONSTANTS Sleepers, Beds, Partner, Level
CONSTANTS UniqueIds, Timers, MaxEnv
CONSTANTS MaxSteps, MaxPosted, MaxWalks
CONSTANTS Lookers, Bags, Depots, Places, Lockers, ViewRange, Windows

VARIABLES x1, x2, x3, x4, x5, x6, x7, x8, x9, x10, x11, x12, x13

Party == INSTANCE Party WITH
  online <- x1, party <- x2, invitations <- x3, leader <- x4, memberList <- x5,
  inviteList <- x6, strayed <- x7, down <- x8
PartyChat == INSTANCE Chat WITH
  Ids <- {},
  online <- x1, linked <- x2, party <- x3, partyOpen <- x4, partyUsers <- x5, owner <- x6,
  invites <- x7, users <- x8, strays <- x9, missed <- x10, stale <- x11, down <- x12
PrivateChat == INSTANCE Chat WITH
  Parties <- {},
  online <- x1, linked <- x2, party <- x3, partyOpen <- x4, partyUsers <- x5, owner <- x6,
  invites <- x7, users <- x8, strays <- x9, missed <- x10, stale <- x11, down <- x12
Spawn == INSTANCE Spawn WITH
  N <- BlockCount,
  started <- x1, key <- x2, state <- x3, spawn <- x4, refs <- x5, held <- x6, ripe <- x7,
  pending <- x8, lost <- x9
Raid == INSTANCE Raid WITH
  running <- x1, refCount <- x2, eventCount <- x3, nextEvent <- x4, due <- x5, raidOf <- x6
Decay == INSTANCE Decay WITH
  Gone <- Vanished,
  item <- x1, lastBucket <- x2, span <- x3, age <- x4, reset <- x5
House == INSTANCE House WITH
  Players <- Tenants,
  today <- x1, owner <- x2, paidUntil <- x3, warnings <- x4, lastWarning <- x5, deals <- x6,
  notice <- x7, evicted <- x8, crossed <- x9
Bed == INSTANCE Bed WITH
  Players <- Sleepers,
  online <- x1, kicks <- x2, sleeper <- x3, bedOf <- x4, stored <- x5, twice <- x6
Walk == INSTANCE Walk WITH
  left <- x1, walkTask <- x2, eventOf <- x3, events <- x4, posted <- x5, is <- x6,
  stranded <- x7, doubled <- x8
Script == INSTANCE Script WITH
  Items <- Things, Events <- Timers,
  envs <- x1, tempItems <- x2, state <- x3, freed <- x4, uniqueId <- x5, globalMap <- x6,
  timerEvents <- x7, scheduled <- x8, robbed <- x9, stale <- x10, loose <- x11, stopped <- x12,
  down <- x13
Window == INSTANCE Window WITH
  Players <- Lookers,
  pos <- x1, where <- x2, window <- x3

ASSUME PartsAssumption ==
  /\ Party!PartyAssumption /\ Spawn!SpawnAssumption /\ Raid!RaidAssumption
  /\ Decay!DecayAssumption /\ House!HouseAssumption /\ Bed!BedAssumption
  /\ Walk!WalkAssumption /\ Script!ScriptAssumption /\ Window!WindowAssumption
=============================================================================
