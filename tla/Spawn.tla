------------------------------- MODULE Spawn -------------------------------
(***************************************************************************)
(* One spawn of the map (src/src/spawn.cpp, with its callers in            *)
(* monster.cpp): blocks, each with a monster to keep alive, the monsters   *)
(* listed under the number of their block - or under 0 once they were      *)
(* found outside the zone - and the scheduler event that looks after them. *)
(* The event is only there while it seems needed.                          *)
(*                                                                         *)
(* Time is abstract: a block is ripe when its interval has passed.         *)
(***************************************************************************)
EXTENDS Naturals, FiniteSets

CONSTANTS
  N,          \* the number of blocks
  Monsters,   \* the addresses of Monster objects
  Rate,       \* RATE_SPAWN
  None

SpawnAssumption ==
  /\ N \in Nat /\ IsFiniteSet(Monsters)
  /\ None \notin 0..N /\ None \notin {"inside", "outside", "removed"}

Blocks == 1..N

VARIABLES
  started,
  key,      \* spawnedMap: the key a monster is listed under, or None
  state,    \* of a monster: None (no object), "inside", "outside" or "removed"
  spawn,    \* the monsters whose spawn pointer is set
  refs,     \* their reference counts
  held,     \* the monsters the game holds a reference to
  ripe,     \* the blocks whose interval has passed since lastSpawn
  pending,  \* checkSpawnEvent # 0
  lost      \* history: the monsters the spawn let go, or failed to place, unseen

vars == <<started, key, state, spawn, refs, held, ripe, pending, lost>>

Listed == {m \in Monsters : key[m] # None}
Strays == {m \in Monsters : key[m] = 0}
Free == {m \in Monsters : state[m] = None}
Empty == {b \in Blocks : \A m \in Monsters : key[m] = b => state[m] = "removed"}

Init ==
  /\ started = FALSE
  /\ key = [m \in Monsters |-> None]
  /\ state = [m \in Monsters |-> None]
  /\ spawn = {} /\ held = {}
  /\ refs = [m \in Monsters |-> 0]
  /\ ripe = Blocks
  /\ pending = FALSE
  /\ lost = 0
-----------------------------------------------------------------------------
(* An object whose last reference is dropped is deleted.                   *)
Deleted(st, rc) == [m \in Monsters |-> IF rc[m] = 0 THEN None ELSE st[m]]

(* One way of giving each of these blocks a new monster.                   *)
Bearers(blocks) ==
  {f \in [blocks -> Free] : \A a, b \in blocks : f[a] = f[b] => a = b}

(* spawnMonster: placed by the game, then listed.                          *)
Spawned(k, st, rc, f) ==
  LET new == {f[b] : b \in DOMAIN f} IN
  [key   |-> [m \in Monsters |-> IF m \in new THEN CHOOSE b \in DOMAIN f : f[b] = m ELSE k[m]],
   state |-> [m \in Monsters |-> IF m \in new THEN "inside" ELSE st[m]],
   refs  |-> [m \in Monsters |-> IF m \in new THEN 2 ELSE rc[m]],
   new   |-> new]

(* Nothing is scheduled for a block whose monster finds no place.          *)
Startup ==
  /\ ~started
  /\ \E placed \in SUBSET Blocks : \E f \in Bearers(placed) :
       LET s == Spawned(key, state, refs, f) IN
       /\ key' = s.key /\ state' = s.state /\ refs' = s.refs
       /\ spawn' = spawn \cup s.new
       /\ held' = held \cup s.new
       /\ ripe' = ripe \ placed
       /\ lost' = Cardinality(Blocks \ placed)
  /\ started' = TRUE
  /\ UNCHANGED pending

NeedsCheck(listed) == Cardinality(listed) < N

(* The first loop of checkSpawn drops the removed ...                      *)
Erased == {m \in Listed : state[m] = "removed"}

CheckSpawn ==
  LET gone == Erased
      swept == [m \in Monsters |->
                  IF m \in gone THEN None
                  ELSE IF key[m] # None /\ state[m] = "outside" THEN 0
                  ELSE key[m]]
      counted == [m \in Monsters |-> IF m \in gone THEN refs[m] - 1 ELSE refs[m]]
      rested == ripe \ {key[m] : m \in gone}
      wanted == {b \in rested : \A m \in Monsters : swept[m] # b}
  IN
  /\ pending
  \* ... the second fills the blocks where nobody looks, Rate of them at most.
  /\ \E seen \in SUBSET wanted :
       LET Reached(b) == Cardinality({a \in wanted \ seen : a < b}) < Rate
           tried == {b \in wanted \ seen : Reached(b)}
           awaited == {b \in seen : Reached(b)}
       IN \E placed \in SUBSET tried : \E f \in Bearers(placed) :
            LET s == Spawned(swept, Deleted(state, counted), counted, f) IN
            /\ key' = s.key /\ state' = s.state /\ refs' = s.refs
            /\ spawn' = (spawn \ {m \in gone : counted[m] = 0}) \cup s.new
            /\ held' = held \cup s.new
            /\ ripe' = rested \ (awaited \cup placed)
            /\ pending' = NeedsCheck({m \in Monsters : s.key[m] # None})
  /\ lost' = 0
  /\ UNCHANGED started

BecomeRipe(b) ==
  /\ started
  /\ b \notin ripe
  /\ ripe' = ripe \cup {b}
  /\ UNCHANGED <<started, key, state, spawn, refs, held, pending, lost>>
-----------------------------------------------------------------------------
Move(m) ==
  /\ state[m] \in {"inside", "outside"}
  /\ state' = [state EXCEPT ![m] = IF @ = "inside" THEN "outside" ELSE "inside"]
  /\ UNCHANGED <<started, key, spawn, refs, held, ripe, pending, lost>>

(* Mutant: the death of a monster that has strayed starts nothing.         *)
DisappearInside(m) ==
  /\ state[m] \in {"inside", "outside"}
  /\ state' = [state EXCEPT ![m] = "removed"]
  /\ pending' = (pending \/ (m \in spawn /\ state[m] = "inside"))
  /\ UNCHANGED <<started, key, spawn, refs, held, ripe, lost>>

(* Monster::onCreatureDisappear of the monster itself.                     *)
Disappear(m) ==
  /\ state[m] \in {"inside", "outside"}
  /\ state' = [state EXCEPT ![m] = "removed"]
  /\ pending' = (pending \/ m \in spawn)
  /\ UNCHANGED <<started, key, spawn, refs, held, ripe, lost>>

(* Monster::convinceCreature: the spawn forgets the monster, and nothing   *)
(* makes it look for another.                                              *)
Convince(m) ==
  /\ state[m] \in {"inside", "outside"}
  /\ m \in spawn
  /\ key' = [key EXCEPT ![m] = None]
  /\ refs' = [refs EXCEPT ![m] = @ - 1]
  /\ spawn' = spawn \ {m}
  /\ lost' = lost + 1
  /\ UNCHANGED <<started, state, held, ripe, pending>>

(* The game drops its reference at the next cleanup.                       *)
Release(m) ==
  /\ m \in held
  /\ state[m] = "removed"
  /\ held' = held \ {m}
  /\ refs' = [refs EXCEPT ![m] = @ - 1]
  /\ state' = Deleted(state, refs')
  /\ spawn' = IF refs'[m] = 0 THEN spawn \ {m} ELSE spawn
  /\ UNCHANGED <<started, key, ripe, pending, lost>>

Next ==
  \/ Startup
  \/ CheckSpawn
  \/ \E b \in Blocks : BecomeRipe(b)
  \/ \E m \in Monsters : Move(m) \/ Disappear(m) \/ Convince(m) \/ Release(m)

Spec == Init /\ [][Next]_vars
-----------------------------------------------------------------------------
TypeOK ==
  /\ started \in BOOLEAN
  /\ key \in [Monsters -> 0..N \cup {None}]
  /\ state \in [Monsters -> {None, "inside", "outside", "removed"}]
  /\ spawn \subseteq Monsters /\ held \subseteq Monsters
  /\ refs \in [Monsters -> 0..2]
  /\ ripe \subseteq Blocks
  /\ pending \in BOOLEAN
  /\ lost \in Nat

(***************************************************************************)
(* When no event is pending, each block without a living monster has been  *)
(* made up for by one that strayed, or lost one to a convincer or at       *)
(* startup: the code starts nothing for those, but forgets no other.       *)
(***************************************************************************)
EmptyBlockIsWatched ==
  started /\ ~pending => Cardinality(Empty) <= Cardinality(Strays) + lost

(***************************************************************************)
(* A listed monster is an object the list has a reference to, and it knows *)
(* the spawn; no other living one does, and no block has two.  As long as one of the  *)
(* listed is dead, a check is coming to take it off.                       *)
(***************************************************************************)
ListedMonstersExist ==
  /\ \A m \in Monsters :
       /\ refs[m] = Cardinality({m} \cap Listed) + Cardinality({m} \cap held)
       /\ m \in Listed => m \in spawn /\ state[m] # None
       /\ m \in spawn => m \in Listed \/ state[m] = "removed"
       /\ m \in Listed /\ state[m] = "removed" => pending
  /\ \A l, m \in Listed : key[l] = key[m] /\ key[l] # 0 => l = m
=============================================================================
