------------------------------- MODULE Target -------------------------------
(***************************************************************************)
(* Who attacks and follows whom (src/src/creature.cpp, monster.cpp,        *)
(* player.cpp, game.cpp): the targets of monsters, their summons, and      *)
(* which monsters sleep.  All of it is kept by raw pointers that follow    *)
(* what the creatures around are told of moves, arrivals and departures.   *)
(*                                                                         *)
(* A step is a task of the dispatcher with every notification it causes;   *)
(* what they change is handed on in a record.  Left out: floors,           *)
(* invisibility, conditions (which keep a monster awake), the friend list  *)
(* (only scripts read it) and summons that teleport to their master        *)
(* (switched off unless configured).                                       *)
(***************************************************************************)
EXTENDS Naturals

CONSTANTS
  Players, Monsters,
  Places,       \* 0..n, in a row
  Safe,         \* those in a protection zone
  ViewRange,    \* how far a monster sees, and a creature is noticed
  ClientRange,  \* how far a player sees
  Leash,        \* how far a summon may be behind its master
  None

TargetAssumption ==
  /\ Players \cap Monsters = {}
  /\ None \notin Players \cup Monsters
  /\ Safe \subseteq Places
  /\ ClientRange <= ViewRange /\ ViewRange <= Leash

Creatures == Players \cup Monsters

VARIABLES
  placed,   \* the creatures on the map
  at,       \* where they are, or were when they were removed
  master,
  attacked, \* attackedCreature
  follow,   \* followCreature
  targets,  \* targetList
  near,     \* isMasterInRange
  idle,     \* isIdle
  checked,
  dying     \* the creatures without health

vars == <<placed, at, master, attacked, follow, targets, near, idle, checked, dying>>

State ==
  [placed |-> placed, at |-> at, master |-> master, attacked |-> attacked, follow |-> follow,
   targets |-> targets, near |-> near, idle |-> idle, checked |-> checked, dying |-> dying]

(* A removed creature that nobody refers to is deleted; what one attacked  *)
(* or followed is not asked any more once it is removed.                   *)
Referred(s, c) ==
  \/ \E m \in Monsters : c \in s.targets[m] \/ (m \in s.placed /\ s.master[m] = c)
  \/ \E x \in s.placed : c \in {s.attacked[x], s.follow[x]}

Deleted(s) == {c \in Creatures \ s.placed : ~Referred(s, c)}

Become(s) ==
  LET gone == Deleted(s)
      Reset(f, cs, value) == [c \in DOMAIN f |-> IF c \in cs THEN value ELSE f[c]]
      out == Creatures \ s.placed
  IN
  /\ placed' = s.placed
  /\ at' = Reset(s.at, gone, 0)
  /\ master' = Reset(s.master, out, None)
  /\ attacked' = Reset(s.attacked, out, None) /\ follow' = Reset(s.follow, out, None)
  /\ targets' = Reset(s.targets, gone, {})
  /\ near' = s.near \ gone /\ idle' = s.idle \cup (gone \cap Monsters)
  /\ checked' = s.checked /\ dying' = s.dying \ gone

Init ==
  /\ placed = {}
  /\ at = [c \in Creatures |-> 0]
  /\ master = [m \in Monsters |-> None]
  /\ attacked = [c \in Creatures |-> None]
  /\ follow = [c \in Creatures |-> None]
  /\ targets = [m \in Monsters |-> {}]
  /\ near = {} /\ idle = Monsters /\ checked = {} /\ dying = {}
-----------------------------------------------------------------------------
Distance(a, b) == IF a < b THEN b - a ELSE a - b

(* canSee; a player sees what its client shows.                            *)
SeesPlace(s, c, place) ==
  Distance(s.at[c], place) <= IF c \in Players THEN ClientRange ELSE ViewRange

Sees(s, c, d) == SeesPlace(s, c, s.at[d])

Summons(s, c) == {m \in Monsters : s.master[m] = c}

IsSummon(s, c) == c \in Monsters /\ s.master[c] # None

IsOpponent(s, m, c) ==
  \/ s.master[m] \in Players /\ c # s.master[m]
  \/ c \in Players
  \/ c \in Monsters /\ s.master[c] \in Players

(* What these creatures do, one after the other, is told to s; ...         *)
InTurn(Op(_, _), s, cs) ==
  LET told[rest \in SUBSET cs] ==
        IF rest = {} THEN s ELSE LET c == CHOOSE c \in rest : TRUE IN Op(told[rest \ {c}], c)
  IN told[cs]

(* ... and everything that may come of it in another order.                *)
InAnyOrder(Op(_, _), s, cs) ==
  LET told[rest \in SUBSET cs] ==
        IF rest = {} THEN {s}
        ELSE UNION {{Op(t, c) : t \in told[rest \ {c}]} : c \in rest}
  IN told[cs]

(* Creature::setFollowCreature.                                            *)
Followed(s, c, d) ==
  [s EXCEPT !.follow[c] = IF d = None \/ @ = d \/ Sees(s, c, d) THEN d ELSE None]

(* Creature::setAttackedCreature: the summons are set on the same target.  *)
SetOn(s, c, d) ==
  LET Aim(x) == IF d = None \/ Sees(s, x, d) THEN d ELSE None IN
  [s EXCEPT !.attacked =
     [x \in Creatures |->
        IF x = c \/ (x \in Summons(s, c) /\ Aim(c) = d) THEN Aim(x) ELSE @[x]]]

(* Player::setFollowCreature gives up the attack when it fails, ...        *)
OrGivesUp(s, p, d) ==
  IF s.follow[p] = d THEN s ELSE Followed(SetOn(s, p, None), p, None)

PlayerFollowed(s, p, d) == OrGivesUp(Followed(s, p, d), p, d)

(* ... and Player::setAttackedCreature follows if it chases.               *)
Chasing(s, c, d, chases) ==
  IF c \in Monsters \/ s.attacked[c] # d THEN s
  ELSE PlayerFollowed(s, c, IF chases THEN d ELSE None)

Attacking(s, c, d, chases) == Chasing(SetOn(s, c, d), c, d, chases)

Following(s, c, d) == IF c \in Players THEN PlayerFollowed(s, c, d) ELSE Followed(s, c, d)

(* internalCreatureDisappear.                                              *)
StopsFollowing(s, c, d) == IF s.follow[c] = d THEN Following(s, c, None) ELSE s

LosesSight(s, c, d) ==
  IF d = None THEN s
  ELSE StopsFollowing(IF s.attacked[c] = d THEN Attacking(s, c, None, FALSE) ELSE s, c, d)
-----------------------------------------------------------------------------
(* setIdle: what is removed or dead stays as it is.                        *)
SetIdle(s, m, sleeps) ==
  IF m \notin s.placed \/ m \in s.dying THEN s
  ELSE IF sleeps
    THEN [s EXCEPT !.idle = @ \cup {m}, !.targets[m] = {}, !.checked = @ \ {m}]
    ELSE [s EXCEPT !.idle = @ \ {m}, !.checked = @ \cup {m}]

(* updateIdleStatus.                                                       *)
UpdateIdle(s, m) ==
  SetIdle(s, m,
    IF s.master[m] = None
      THEN s.targets[m] = {}
      ELSE m \notin s.near \/ (s.master[m] \in Monsters /\ s.master[m] \in s.idle))

(* onCreatureFound.                                                        *)
Found(s, m, c) ==
  UpdateIdle(IF IsOpponent(s, m, c) THEN [s EXCEPT !.targets[m] = @ \cup {c}] ELSE s, m)

(* onCreatureEnter.                                                        *)
Enters(s, m, c) ==
  Found(IF s.master[m] = c THEN UpdateIdle([s EXCEPT !.near = @ \cup {m}], m) ELSE s, m, c)

(* onCreatureLeave.                                                        *)
Forgets(s, m, c) ==
  LET t == [s EXCEPT !.targets[m] = @ \ {c}] IN
  IF ~IsOpponent(s, m, c) \/ c \notin s.targets[m] THEN s
  ELSE IF s.targets[m] = {c} THEN UpdateIdle(t, m)
  ELSE t

Leaves(s, m, c) ==
  Forgets(IF s.master[m] = c THEN UpdateIdle([s EXCEPT !.near = @ \ {m}], m) ELSE s, m, c)

(* updateTargetList.                                                       *)
LooksAround(s, m) ==
  LET kept == {c \in s.targets[m] : c \notin s.dying /\ Sees(s, m, c)}
      OnFound(t, c) == Found(t, m, c)
  IN InTurn(OnFound, [s EXCEPT !.targets[m] = kept], {c \in s.placed \ {m} : Sees(s, m, c)})

(* isMasterInRange after m itself has moved or appeared.                   *)
LooksForMaster(s, m) ==
  IF s.master[m] = None THEN s
  ELSE [s EXCEPT !.near = IF Sees(s, m, s.master[m]) THEN @ \cup {m} ELSE @ \ {m}]

(* isTarget.                                                               *)
IsTarget(s, c) == c \in s.placed /\ s.at[c] \notin Safe

(* selectTarget.                                                           *)
Selects(s, m, c) ==
  IF IsTarget(s, c) /\ c \in s.targets[m]
    THEN Followed(SetOn(s, m, c), m, c)
    ELSE s
-----------------------------------------------------------------------------
(* Who is told what happens at these places.                               *)
Spectators(s, around) ==
  {c \in s.placed : \E place \in around : Distance(s.at[c], place) <= ViewRange}

(* onCreatureDisappear of c for the creature x.                            *)
MonsterToldRemoved(s, x, c) ==
  CASE x \in Players -> s
    [] x = c -> SetIdle(s, c, TRUE)
    [] OTHER -> Leaves(s, x, c)

ToldRemoved(s, x, c) == MonsterToldRemoved(LosesSight(s, x, c), x, c)

(* Game::removeCreature without the summons: onRemovedCreature lets go of  *)
(* a master that is still there.                                           *)
TakenAway(s, c) ==
  LET free == c \in Monsters /\ s.master[c] \in s.placed IN
  [s EXCEPT
    !.placed = @ \ {c},
    !.checked = @ \ {c},
    !.master = IF free THEN [@ EXCEPT ![c] = None] ELSE @]

RemovedAlone(s, c) ==
  LET OnRemove(t, x) == ToldRemoved(t, x, c)
  IN TakenAway(InTurn(OnRemove, s, Spectators(s, {s.at[c]})), c)

(* Game::removeCreature.                                                   *)
SummonsRemoved(s, c) == InTurn(RemovedAlone, s, Summons(s, c) \cap s.placed)

Removed(s, c) ==
  IF c \in s.placed THEN SummonsRemoved(RemovedAlone(s, c), c) ELSE s

(* Mutant of LosesHealth: an idle monster is not woken.                    *)
LosesHealthAsleep(s, c) == [s EXCEPT !.dying = @ \cup {c}]

(* Monster::changeHealth wakes the monster first.                          *)
LosesHealth(s, c) ==
  LET t == IF c \in Monsters THEN SetIdle(s, c, FALSE) ELSE s IN
  [t EXCEPT !.dying = @ \cup {c}]

(* destroySummons.                                                         *)
SummonsDestroyed(s, c) ==
  LET Destroy(t, m) == [LosesHealth(SetOn(t, m, None), m) EXCEPT !.master[m] = None]
  IN InTurn(Destroy, s, Summons(s, c))
-----------------------------------------------------------------------------
(* Creature::onCreatureMove: the mover loses the summons it leaves behind, *)
(* and its target when it comes into a protection zone; ...                *)
LeavesBehind(s, c) ==
  InTurn(Removed, s, {m \in Summons(s, c) : Distance(s.at[m], s.at[c]) > Leash})

ComesToSafety(s, c, from) ==
  IF from \notin Safe /\ s.at[c] \in Safe THEN LosesSight(s, c, s.attacked[c]) ELSE s

(* ... everybody loses whom it follows out of sight, ...                   *)
LosesTrack(s, x, c) ==
  LET d == s.follow[x] IN
  IF d # None /\ c \in {x, d} /\ ~Sees(s, x, d) THEN LosesSight(s, x, d) ELSE s

(* ... and whom it attacks out of sight or in a protection zone.           *)
LosesTarget(s, x, c, from) ==
  LET d == s.attacked[x]
      zoned == (from \in Safe) # (s.at[c] \in Safe)
  IN IF d # None /\ c \in {x, d} /\ (~Sees(s, x, d) \/ (zoned /\ s.at[d] \in Safe))
       THEN LosesSight(s, x, d)
       ELSE s

ToldMoved(s, x, c, from) ==
  LosesTarget(
    LosesTrack(
      IF x = c THEN ComesToSafety(LeavesBehind(s, c), c, from) ELSE s,
      x, c),
    x, c, from)

(* Monster::onCreatureMove.                                                *)
Notices(s, x, c, from) ==
  LET saw == SeesPlace(s, x, from)
      sees == Sees(s, x, c)
  IN CASE sees /\ ~saw -> Enters(s, x, c)
       [] ~sees /\ saw -> Leaves(s, x, c)
       [] OTHER -> s

FindsMaster(s, x, c) ==
  IF s.master[x] = c /\ Sees(s, x, c) THEN [s EXCEPT !.near = @ \cup {x}] ELSE s

MayHunt(s, x, c) ==
  IF s.follow[x] = None /\ ~IsSummon(s, x) /\ IsOpponent(s, x, c) THEN Selects(s, x, c) ELSE s

MonsterToldMoved(s, x, c, from) ==
  IF x = c
    THEN UpdateIdle(LooksAround(LooksForMaster(ToldMoved(s, c, c, from), c), c), c)
    ELSE MayHunt(
           UpdateIdle(FindsMaster(Notices(ToldMoved(s, x, c, from), x, c, from), x, c), x),
           x, c)

(* A creature is moved by its walk, a push or a teleport; the creatures    *)
(* around are told in any order.                                           *)
Move(c, to) ==
  /\ c \in placed
  /\ to # at[c]
  /\ LET moved == [State EXCEPT !.at[c] = to]
         OnMove(t, x) ==
           IF x \in Players THEN ToldMoved(t, x, c, at[c]) ELSE MonsterToldMoved(t, x, c, at[c])
     IN \E s \in InAnyOrder(OnMove, moved, Spectators(moved, {at[c], to})) : Become(s)
-----------------------------------------------------------------------------
(* placeCreature of a new object; boss is the master of a monster.         *)
Appear(c, place, boss) ==
  LET new ==
        [State EXCEPT
           !.placed = @ \cup {c}, !.at[c] = place,
           !.master = IF c \in Monsters THEN [@ EXCEPT ![c] = boss] ELSE @]
      OnAppear(t, x) ==
        CASE x \in Players -> t
          [] x = c -> UpdateIdle(LooksAround(LooksForMaster(t, c), c), c)
          [] OTHER -> Enters(t, x, c)
      seen == InTurn(OnAppear, new, Spectators(new, {place}))
  IN /\ c \in Deleted(State)
     /\ Become([seen EXCEPT !.checked = IF c \in Monsters THEN @ \cup {c} ELSE @])

(* A login, a spawn or raid, and placeSummon.                              *)
Login(p) == \E place \in Places : Appear(p, place, None)
SpawnMonster(m) == \E place \in Places : Appear(m, place, None)
PlaceSummon(c, m) ==
  /\ c \in placed \ dying
  /\ ~IsSummon(State, c)
  /\ Appear(m, at[c], c)

(* A logout, a despawn, a script.                                          *)
LeaveGame(c) ==
  /\ c \in placed
  /\ Become(Removed(State, c))

(* combatChangeHealth that takes the last health.                          *)
Hit(c) ==
  /\ c \in placed \ dying
  /\ Become(LosesHealth(State, c))

(* checkCreatures finds a monster without health: Creature::onDeath        *)
(* leaves the master, Monster::onDeath destroys the summons.               *)
Die(m) ==
  /\ m \in Monsters \cap placed \cap dying \cap checked
  /\ LET freed == [State EXCEPT !.master[m] = None]
         alone == [SummonsDestroyed(freed, m) EXCEPT !.targets[m] = {}]
     IN Become(Removed(SetOn(alone, m, None), m))

(* Player::onDeath.                                                        *)
PlayerDies(p) ==
  /\ p \in Players \cap placed \cap dying
  /\ Become(Removed(State, p))
-----------------------------------------------------------------------------
(* The part of Monster::onThink that chooses whom to attack and follow.    *)
Chosen(s, m) ==
  LET boss == s.master[m]
      own == s.attacked[m]
  IN CASE boss = None ->
            {s} \cup {Selects(s, m, c) : c \in s.targets[m] \ {s.follow[m]}}
       [] boss # None /\ own = None ->
            {IF s.attacked[boss] # None THEN Selects(s, m, s.attacked[boss])
             ELSE Followed(s, m, boss)}
       [] boss # None /\ own = m -> {Followed(s, m, None)}
       [] OTHER -> {Followed(s, m, own)}

(* Monster::onThink.  A script may deny the attack; a summon that finds no *)
(* path to whom it follows forgets it.                                     *)
Decides(s, m) ==
  IF m \in s.idle THEN Become(s) ELSE \E x \in Chosen(s, m) : Become(x)

Think(m) ==
  /\ m \in Monsters \cap placed \cap checked
  /\ \E denied, noPath \in BOOLEAN :
     /\ noPath => IsSummon(State, m)
     /\ LET t == [State EXCEPT !.targets[m] = IF noPath THEN @ \ {follow[m]} ELSE @]
        IN Decides(UpdateIdle(IF denied THEN SetOn(t, m, None) ELSE t, m), m)

(* doChallengeCreature.                                                    *)
Challenge(p, m) ==
  /\ p \in placed /\ m \in placed /\ ~IsSummon(State, m)
  /\ Become(Selects(State, m, p))

(* convinceCreature: a wild monster, or the summon of one, changes sides.  *)
Convince(p, m) ==
  LET freed == Following([State EXCEPT !.master[m] = None], m, None)
      mine == [SummonsDestroyed(SetOn(freed, m, None), m) EXCEPT !.master[m] = p]
      looked == UpdateIdle(LooksAround(mine, m), m)
      around == Spectators(State, {at[m], at[p]}) \cap Monsters
      OnConvinced(s, x) == UpdateIdle(LooksAround(s, x), x)
  IN /\ p \in Players \cap placed /\ m \in placed
     /\ Sees(State, p, m)
     /\ master[m] \notin Players
     /\ Become(InTurn(OnConvinced, [looked EXCEPT !.near = @ \cup {m}], around))

(* playerSetAttackedCreature; Combat::canTargetCreature.  The player may    *)
(* be in either chase mode.                                                *)
Attack(p, c) ==
  LET allowed == c # None /\ c # p /\ at[p] \notin Safe /\ at[c] \notin Safe IN
  /\ p \in placed
  /\ c \in placed \cup {None}
  /\ \E chases \in BOOLEAN :
       Become(Attacking(State, p, IF allowed THEN c ELSE None, chases))

(* playerFollowCreature.                                                   *)
Follow(p, c) ==
  /\ p \in placed
  /\ c \in placed \cup {None}
  /\ Become(Following(Attacking(State, p, None, FALSE), p, c))

(* setChaseMode.                                                           *)
SetChaseMode(p) ==
  /\ p \in placed
  /\ attacked[p] # None
  /\ \/ follow[p] = None /\ Become(Following(State, p, attacked[p]))
     \/ Become(Following(State, p, None))

Next ==
  \/ \E c \in Creatures :
       \/ LeaveGame(c)
       \/ Hit(c)
       \/ \E to \in Places : Move(c, to)
  \/ \E p \in Players :
       \/ Login(p)
       \/ PlayerDies(p)
       \/ SetChaseMode(p)
       \/ \E c \in Creatures \cup {None} : Attack(p, c) \/ Follow(p, c)
       \/ \E m \in Monsters : Challenge(p, m) \/ Convince(p, m)
  \/ \E m \in Monsters :
       \/ SpawnMonster(m)
       \/ Die(m)
       \/ Think(m)
       \/ \E c \in Creatures \ {m} : PlaceSummon(c, m)

Spec == Init /\ [][Next]_vars
-----------------------------------------------------------------------------
TypeOK ==
  /\ placed \subseteq Creatures /\ dying \subseteq Creatures
  /\ at \in [Creatures -> Places]
  /\ master \in [Monsters -> Creatures \cup {None}]
  /\ attacked \in [Creatures -> Creatures \cup {None}]
  /\ follow \in [Creatures -> Creatures \cup {None}]
  /\ targets \in [Monsters -> SUBSET Creatures]
  /\ near \subseteq Monsters /\ idle \subseteq Monsters
  /\ checked \subseteq Monsters \cap placed

(* Whoever is attacked or followed by a creature of the game is itself in  *)
(* the game and in its neighbourhood, and nobody in a protection zone is   *)
(* attacked: raw pointers (creature.h:attackedCreature, followCreature).   *)
TargetsStand ==
  \A c \in placed :
    /\ attacked[c] # None =>
         /\ attacked[c] \in placed
         /\ Distance(at[c], at[attacked[c]]) <= ViewRange
         /\ at[attacked[c]] \notin Safe
    /\ follow[c] # None =>
         /\ follow[c] \in placed
         /\ Distance(at[c], at[follow[c]]) <= ViewRange

(* A summon in the game has its master in the game.                        *)
MasterPresent == \A m \in Monsters \cap placed : master[m] # None => master[m] \in placed

(* No wild monster sleeps while an opponent is in its sight, an awake one  *)
(* has its turns, and a dying one dies.                                    *)
NobodySleepsInSight ==
  \A m \in Monsters \cap placed :
    /\ m \notin checked => m \in idle \ dying
    /\ (m \notin dying /\ master[m] = None) =>
         \A c \in placed \ {m} :
           (IsOpponent(State, m, c) /\ Sees(State, m, c)) => c \in targets[m]

(* What a monster lists as a target is there, unless it died.              *)
ListedAreThere ==
  \A m \in Monsters \cap placed : \A c \in targets[m] :
    c \in dying \/ (c \in placed /\ Sees(State, m, c))
=============================================================================
