-------------------------------- MODULE Walk --------------------------------
(***************************************************************************)
(* How a player walks and what it does on arrival (src/src/creature.cpp,   *)
(* player.cpp, game.cpp, actions.cpp): the steps it has still to go, the   *)
(* scheduler's event that takes the next one, the request that waits for   *)
(* the end of a walk, and the ones that wait for the player to be rested.  *)
(*                                                                         *)
(* A request for something far away posts the walk as a task and keeps     *)
(* itself in walkTask; packets and events come between the two.            *)
(*                                                                         *)
(* Left out: the map (a path is a number of steps, and whether a thing is  *)
(* near, far or out of reach is open), which request it is that waits, how *)
(* long anything takes, how fast the player is, and scripts that refuse.   *)
(***************************************************************************)
EXTENDS Integers, Sequences, FiniteSets

CONSTANTS
  MaxSteps,   \* of a path
  MaxPosted,  \* bound: tasks the dispatcher has from this player's doings
  MaxWalks    \* bound: walk events in the scheduler

WalkAssumption == MaxSteps \in Nat \ {0} /\ MaxPosted \in Nat /\ MaxWalks \in Nat \ {0}

(* Events by the member that has their id: eventWalk, walkTaskEvent,       *)
(* actionTaskEvent, nextStepEvent.                                         *)
EventKinds == {"walk", "arrival", "action", "step"}

VARIABLES
  left,      \* length of listWalkDir
  walkTask,  \* TRUE: a request waits for the end of a walk
  eventOf,   \* the four members, 0 for none
  events,    \* what the scheduler has: kind and id
  posted,    \* what the dispatcher has
  is,        \* what holds of the player: "resting" (getWalkDelay), "busy" (~canDoAction),
             \* "rooted" (getNoMove), "following", "pathed" (hasFollowPath), "removed"
  stranded,  \* history: a cause named below has left walkTask, or steps, without a walk
  doubled    \* history: a walk event was forgotten that the scheduler still has

vars == <<left, walkTask, eventOf, events, posted, is, stranded, doubled>>

State ==
  [left |-> left, walkTask |-> walkTask, eventOf |-> eventOf, events |-> events,
   posted |-> posted, is |-> is, stranded |-> stranded, doubled |-> doubled]

Of(s, kind) == {e \in s.events : e.kind = kind}

(* stopEvent does nothing for an event that has run, so a member that      *)
(* still names one counts as 0; only eventWalk is asked whether it is 0.   *)
Named(s, kind) ==
  IF kind = "walk" \/ \E e \in Of(s, kind) : e.id = s.eventOf[kind] THEN s.eventOf[kind] ELSE 0

Become(s) ==
  /\ Len(s.posted) <= MaxPosted /\ Cardinality(Of(s, "walk")) <= MaxWalks
  /\ left' = s.left /\ walkTask' = s.walkTask /\ posted' = s.posted /\ is' = s.is
  /\ eventOf' = [k \in EventKinds |-> Named(s, k)] /\ events' = s.events /\ doubled' = s.doubled
  /\ stranded' = {x \in s.stranded : IF x = "task" THEN s.walkTask ELSE s.left > 0}

Init ==
  /\ left = 0 /\ walkTask = FALSE /\ events = {} /\ posted = <<>>
  /\ eventOf = [k \in EventKinds |-> 0]
  /\ is = {} /\ stranded = {} /\ doubled = FALSE
-----------------------------------------------------------------------------
(* Scheduler::stopEvent and addEvent for one of the four.                  *)
StopEvent(s, kind) ==
  [s EXCEPT !.events = {e \in @ : ~(e.kind = kind /\ e.id = s.eventOf[kind])},
            !.eventOf[kind] = 0]

Fresh(s, kind) ==
  CHOOSE n \in 1..(MaxWalks + 2) : n # s.eventOf[kind] /\ \A e \in Of(s, kind) : e.id # n

AddEvent(s, kind) ==
  [s EXCEPT !.events = @ \cup {[kind |-> kind, id |-> Fresh(s, kind)]},
            !.eventOf[kind] = Fresh(s, kind)]

SetNext(s, kind, some) == IF some THEN AddEvent(StopEvent(s, kind), kind) ELSE StopEvent(s, kind)
SetNextActionTask(s, some) == SetNext(s, "action", some)
SetNextWalkTask(s, some) == SetNext(s, "step", some)

(* Mutant: leaves the earlier one to the scheduler.                        *)
SetNextOnly(s, some) == [s EXCEPT !.walkTask = some, !.stranded = @ \ {"task"}]

SetNextWalkActionTask(s, some) ==
  [StopEvent(s, "arrival") EXCEPT !.walkTask = some, !.stranded = @ \ {"task"}]

Post(s, what) == [s EXCEPT !.posted = Append(@, what)]
Now(s, what) == [s EXCEPT !.is = @ \cup {what}]
NoMore(s, what) == [s EXCEPT !.is = @ \ {what}]

AddEventWalk(s) == IF s.eventOf["walk"] # 0 THEN s ELSE AddEvent(s, "walk")

(* stopEventWalk with onWalkAborted.  What waits for the end of a walk     *)
(* that has no steps left is not aborted.                                  *)
StopEventWalk(s) ==
  IF s.eventOf["walk"] = 0 THEN s
  ELSE IF s.left > 0
    THEN [SetNextWalkActionTask(StopEvent(s, "walk"), FALSE) EXCEPT !.left = 0]
    ELSE [StopEvent(s, "walk") EXCEPT !.stranded = @ \cup {"task"}]

StopWalk(s) == IF s.left = 0 THEN s ELSE StopEventWalk(s)

StartAutoWalk(s, n) ==
  IF "rooted" \in s.is
    THEN [s EXCEPT !.stranded = @ \cup {"task"}]
    ELSE AddEventWalk([s EXCEPT !.left = n])

(* setFollowCreature(NULL), which every change of the target calls.        *)
FollowNobody(s) == StopEventWalk(NoMore(s, "following"))

(* steerCreature, by a script.                                             *)
Steered(s, n) == StartAutoWalk(SetNextWalkTask(s, FALSE), n)
-----------------------------------------------------------------------------
(* What a step may bring: nothing, a teleport or a condition that takes    *)
(* the speed, the end of a pursuit, and then also a script that sends the  *)
(* player somewhere.                                                       *)
Brings(s) ==
  LET ways == {s, StopEventWalk(s), FollowNobody(s)}
  IN ways \cup {Steered(t, n) : t \in ways, n \in 1..MaxSteps}

(* Player::onWalk and internalMoveCreature.                                *)
Walked(s) == Now(SetNextActionTask(s, FALSE), "busy")
Moved(s) ==
  Now(IF {"following", "pathed"} \subseteq s.is THEN Post(s, <<"update">>) ELSE s, "resting")

Stepped(s) == {Walked(s)} \cup Brings(Moved(Walked(s)))

(* Creature::onWalk after the step: onWalkComplete, and the next event.    *)
Completed(s) ==
  IF s.left = 0 /\ s.walkTask
    THEN AddEvent([s EXCEPT !.walkTask = FALSE], "arrival")
    ELSE s

Renewed(s) ==
  IF s.eventOf["walk"] = 0 THEN s
  ELSE [AddEvent(s, "walk") EXCEPT
          !.doubled = @ \/ \E e \in Of(s, "walk") : e.id = s.eventOf["walk"]]

OnWalk(s) ==
  {Renewed(Completed(t)) : t \in
     IF "resting" \in s.is \/ s.left = 0 THEN {s} ELSE Stepped([s EXCEPT !.left = @ - 1])}

(* playerMove.                                                             *)
PlayerMove(s) ==
  IF "rooted" \in s.is THEN {s}
  ELSE IF "resting" \in s.is
    THEN {SetNextWalkTask(Now(StopWalk(s), "busy"), TRUE)}
    ELSE Stepped(FollowNobody(StopWalk(s)))

(* playerAutoWalk.  A gamemaster who has chosen to teleport is there at    *)
(* once, or finds no free tile.                                            *)
PlayerAutoWalk(s, n) ==
  {StartAutoWalk(SetNextWalkTask(s, FALSE), n),
   [StopEventWalk(s) EXCEPT !.stranded = @ \cup {"task"}],
   [s EXCEPT !.stranded = @ \cup {"task"}]}

(* getPathToFollowCreature.                                                *)
Pursue(s) ==
  IF "following" \notin s.is THEN {s}
  ELSE {NoMore([s EXCEPT !.left = 0], "pathed")}
       \cup {StartAutoWalk([Now(s, "pathed") EXCEPT
                               !.left = n,
                               !.stranded = IF "rooted" \in s.is THEN @ \cup {"steps"} ELSE @], n)
               : n \in 0..MaxSteps}
-----------------------------------------------------------------------------
(* A request for what is far away: walk first.                             *)
Far(s) == {SetNextWalkActionTask(Post(s, <<"walk", n>>), TRUE) : n \in 1..MaxSteps}

Busy(s) == "busy" \in s.is
Wait(s) == SetNextActionTask(s, TRUE)

(* playerUseItem and its like, with Actions::useItem.                      *)
Used(s) == Now(StopWalk(SetNextActionTask(s, FALSE)), "busy")
PlayerUseItem(s) == {s, IF Busy(s) THEN Wait(s) ELSE Used(s)} \cup Far(s)

PlayerMoveItem(s) == IF Busy(s) THEN {Wait(s)} ELSE {s} \cup Far(s)

Pushed(s) == {s} \cup Far(s)
PlayerMoveCreature(s) ==
  IF Busy(s) THEN {Wait(s)} ELSE {s} \cup Pushed(SetNextActionTask(s, FALSE))

(* playerRotateItem and playerRequestTrade know no delay.                  *)
PlayerRotateItem(s) == {s} \cup Far(s)

(* doAttacking.                                                            *)
DoAttacking(s) == {IF Busy(s) THEN Wait(s) ELSE s}

Requested(s) ==
  PlayerUseItem(s) \cup PlayerMoveItem(s) \cup PlayerMoveCreature(s) \cup PlayerRotateItem(s)
-----------------------------------------------------------------------------
(* Tasks of the dispatcher.                                                *)
InGame == "removed" \notin is
Packet(outcomes) == InGame /\ \E s \in outcomes : Become(s)

Request == Packet(Requested(State))
PushThing == Packet({Wait(State)})   \* playerMoveThing, of a creature
Step == Packet(PlayerMove(State))
AutoWalk(n) == Packet(PlayerAutoWalk(State, n))
StopAutoWalk == Packet({StopWalk(State)})
CancelAttackAndFollow == Packet({FollowNobody(State)})

(* playerFollowCreature: somebody else, or nobody if it cannot be seen.    *)
FollowCreature ==
  LET alone == FollowNobody(State)
      clear == IF alone.left > 0
                 THEN [SetNextWalkActionTask(alone, FALSE) EXCEPT !.left = 0] ELSE alone
  IN Packet({alone, NoMore(Now(clear, "following"), "pathed")})

(* onThink: the path of a pursuer, and the swing of an attacker.           *)
Think == Packet(Pursue(State) \cup DoAttacking(State))

TakePosted ==
  /\ posted # <<>>
  /\ LET task == Head(posted)
         s == [State EXCEPT !.posted = Tail(@)]
     IN \E t \in IF task[1] = "walk" THEN PlayerAutoWalk(s, task[2]) ELSE Pursue(s) : Become(t)

(* An event of the scheduler.                                              *)
EventIsDue(e) ==
  LET s == [State EXCEPT !.events = @ \ {e}] IN
  /\ e \in events
  /\ \E t \in CASE e.kind = "walk" -> OnWalk(s)
               [] e.kind = "step" -> PlayerMove(s)
               [] OTHER -> Requested(s) \cup DoAttacking(s) : Become(t)

(* What the game does to the player: the followed creature moves or is     *)
(* lost, a teleport, conditions, scripts.                                  *)
TargetMoves ==
  /\ {"following", "pathed"} \subseteq is
  /\ Packet({Post(State, <<"update">>), FollowNobody(Post(State, <<"update">>))})
TargetLost == "following" \in is /\ Packet({FollowNobody(State)})
Teleported == Packet({Now(StopEventWalk(State), "resting")})
Steer(n) == Packet({Steered(State, n)})
SetNoMove == Packet({IF "rooted" \in is THEN NoMore(State, "rooted") ELSE Now(State, "rooted")})

(* setSpeed: a speed of nothing, or one again.                             *)
SetSpeed ==
  Packet({StopEventWalk(State), IF left > 0 THEN AddEventWalk(State) ELSE State})

(* The player is gone: what is posted or scheduled finds nobody with its   *)
(* id, and the rest is deleted with it (Player::~Player).                  *)
Disappear ==
  /\ InGame
  /\ Become([State EXCEPT !.left = 0, !.walkTask = FALSE, !.eventOf = [k \in EventKinds |-> 0],
                          !.events = {}, !.posted = <<>>, !.is = {"removed"}])

(* Time.                                                                   *)
Rested == "resting" \in is /\ Become(NoMore(State, "resting"))
Ready == "busy" \in is /\ Become(NoMore(State, "busy"))

Next ==
  \/ Request \/ PushThing \/ Step \/ StopAutoWalk \/ CancelAttackAndFollow \/ FollowCreature
  \/ \E n \in 1..MaxSteps : AutoWalk(n) \/ Steer(n)
  \/ Think \/ TakePosted
  \/ \E e \in events : EventIsDue(e)
  \/ TargetMoves \/ TargetLost \/ Teleported \/ SetNoMove \/ SetSpeed \/ Disappear
  \/ Rested \/ Ready

Spec == Init /\ [][Next]_vars
-----------------------------------------------------------------------------
TypeOK ==
  /\ left \in 0..MaxSteps /\ walkTask \in BOOLEAN
  /\ eventOf \in [EventKinds -> 0..(MaxWalks + 2)]
  /\ \A e \in events : e.kind \in EventKinds /\ e.id \in 1..(MaxWalks + 2)
  /\ is \subseteq {"resting", "busy", "rooted", "following", "pathed", "removed"}
  /\ stranded \subseteq {"task", "steps"} /\ doubled \in BOOLEAN

(* A later request of a kind takes the place of an earlier one: what the   *)
(* scheduler has can still be stopped (player.cpp:1549-1589), except for a *)
(* walk event after a step in which a script both stopped and steered      *)
(* (creature.cpp:242).  One request at most waits for the end of a walk.   *)
LatestRequestOnly ==
  /\ \A e \in events : e.id = eventOf[e.kind] \/ (e.kind = "walk" /\ doubled)
  /\ walkTask => Of(State, "arrival") = {}

(* Who has steps to go goes them (creature.cpp:startAutoWalk, setSpeed),   *)
(* unless it was rooted while it pursued somebody.                         *)
WalkGoesOn ==
  left > 0 /\ InGame /\ "steps" \notin stranded =>
    \E e \in Of(State, "walk") : e.id = eventOf["walk"]

(* What waits for the end of a walk has a walk to wait for, under way or   *)
(* posted (game.cpp:playerUseItem), except where the history says so: the  *)
(* walk was refused or jumped over, or ended without an abort.             *)
RequestHasWalk ==
  walkTask /\ InGame =>
    "task" \in stranded \/ eventOf["walk"] # 0 \/ \E k \in DOMAIN posted : posted[k][1] = "walk"

(* A single step that waits and a path are not pursued at once             *)
(* (game.cpp:playerMove, playerAutoWalk), except by a pursuer.             *)
StepOrWalk ==
  Of(State, "step") # {} /\ left > 0 => "following" \in is \/ "steps" \in stranded
=============================================================================
