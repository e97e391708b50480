-------------------------------- MODULE Raid --------------------------------
(***************************************************************************)
(* Raids (src/src/raids.cpp): one at a time, a chain of timed events that  *)
(* put monsters and items on the map.  What a raid has put there refers to *)
(* it; a "single" raid is not started again before all of it is gone, and  *)
(* a "block" raid keeps every other raid from starting until then.         *)
(*                                                                         *)
(* Margins and intervals are left out: whether checkRaids finds that a     *)
(* raid's time has come is a choice.  A reload frees the raids while their *)
(* monsters, and the task of an event that is just due, still point to     *)
(* them: the model has no reload while a task is posted, and what points   *)
(* to a freed raid changes nothing that is modelled.                       *)
(***************************************************************************)
EXTENDS Naturals, Sequences, FiniteSets

CONSTANTS
  None,
  Freed,   \* a raid of before a reload
  Raids,
  RefType, \* of each raid "none", "single" or "block"
  Events,  \* of each raid the sequence of its events, "announce", "spawn" or "script"
  Things   \* monsters and items that raids put on the map

RaidAssumption ==
  /\ IsFiniteSet(Things) /\ None \notin Raids /\ Freed \notin Raids \cup {None}
  /\ RefType \in [Raids -> {"none", "single", "block"}]
  /\ \A r \in Raids : Events[r] \in Seq({"announce", "spawn", "script"})

VARIABLES
  running,    \* Raids::running
  refCount,   \* of each raid
  eventCount, \* of each raid the number of events it has begun
  nextEvent,  \* of each raid whether an event id is stored
  due,        \* where its next event is: nowhere, in the scheduler or posted
  raidOf      \* the raid pointer of each thing

vars == <<running, refCount, eventCount, nextEvent, due, raidOf>>

(* A raid as it leaves its constructor.                                    *)
Fresh ==
  [running |-> None, refCount |-> [r \in Raids |-> 0], eventCount |-> [r \in Raids |-> 0],
   nextEvent |-> [r \in Raids |-> FALSE], due |-> [r \in Raids |-> "no"]]

Now ==
  [running |-> running, refCount |-> refCount, eventCount |-> eventCount,
   nextEvent |-> nextEvent, due |-> due]

Become(s) ==
  /\ running' = s.running
  /\ refCount' = s.refCount
  /\ eventCount' = s.eventCount
  /\ nextEvent' = s.nextEvent
  /\ due' = s.due

Init ==
  /\ running = None
  /\ refCount = Fresh.refCount
  /\ eventCount = Fresh.eventCount
  /\ nextEvent = Fresh.nextEvent
  /\ due = Fresh.due
  /\ raidOf = [t \in Things |-> None]
-----------------------------------------------------------------------------
(* A posted task is not taken back.                                        *)
StopEvents(s, r) ==
  [s EXCEPT !.nextEvent[r] = FALSE,
            !.due[r] = IF s.nextEvent[r] /\ @ = "scheduled" THEN "no" ELSE @]

ResetRaid(s, r, checkExecution) ==
  LET stopped == StopEvents(s, r) IN
  IF checkExecution /\ s.nextEvent[r] THEN s
  ELSE IF RefType[r] = "block" /\ s.refCount[r] > 0 THEN stopped
  ELSE [stopped EXCEPT
          !.eventCount[r] = IF RefType[r] # "single" \/ s.refCount[r] = 0 THEN 0 ELSE @,
          !.running = IF @ = r THEN None ELSE @]

UnRef(s, r) ==
  LET less == [s EXCEPT !.refCount[r] = @ - 1] IN
  IF less.refCount[r] = 0 THEN ResetRaid(less, r, TRUE) ELSE less

HasNext(s, r) == s.eventCount[r] < Len(Events[r])

Scheduled(s, r) ==
  [s EXCEPT !.eventCount[r] = @ + 1, !.nextEvent[r] = TRUE, !.due[r] = "scheduled"]

(* startRaid, from checkRaids or doExecuteRaid.                            *)
StartRaid(r) ==
  /\ running = None
  /\ refCount[r] = 0
  /\ HasNext(Now, r)
  /\ Become([Scheduled(Now, r) EXCEPT !.running = r])
  /\ UNCHANGED raidOf

EventIsDue(r) ==
  /\ due[r] = "scheduled"
  /\ due' = [due EXCEPT ![r] = "posted"]
  /\ UNCHANGED <<running, refCount, eventCount, nextEvent, raidOf>>

(* What an event leaves behind: an announcement nothing; a spawn things    *)
(* that refer to the raid; a script may kill some thing of any raid.       *)
Executed(s, r, kind, outcome) ==
  CASE kind = "spawn" /\ RefType[r] # "none" ->
         [s |-> [s EXCEPT !.refCount[r] = @ + Cardinality(outcome)],
          raidOf |-> [t \in Things |-> IF t \in outcome THEN r ELSE raidOf[t]]]
    [] kind = "script" /\ outcome # {} ->
         LET t == CHOOSE x \in outcome : TRUE
         IN [s |-> IF raidOf[t] \in Raids THEN UnRef(s, raidOf[t]) ELSE s,
             raidOf |-> [raidOf EXCEPT ![t] = None]]
    [] OTHER -> [s |-> s, raidOf |-> raidOf]

Outcomes(kind) ==
  CASE kind = "spawn" -> SUBSET {t \in Things : raidOf[t] = None}
    [] kind = "script" -> {{}} \cup {{t} : t \in {x \in Things : raidOf[x] # None}}
    [] OTHER -> {{}}

(* executeRaidEvent: after a failure, or without another event, the raid   *)
(* is over.                                                                *)
ExecuteRaidEvent(r) ==
  LET kind == Events[r][eventCount[r]] IN
  /\ due[r] = "posted"
  /\ \E outcome \in Outcomes(kind), ok \in BOOLEAN :
       LET after == Executed([Now EXCEPT !.due[r] = "no"], r, kind, outcome) IN
       /\ kind = "announce" => ok
       /\ raidOf' = after.raidOf
       /\ Become(IF ok /\ HasNext(after.s, r) THEN Scheduled(after.s, r)
                 ELSE ResetRaid(after.s, r, FALSE))

(* A monster dies or is convinced, an item is taken or destroyed.          *)
Gone(t) ==
  /\ raidOf[t] # None
  /\ raidOf' = [raidOf EXCEPT ![t] = None]
  /\ Become(IF raidOf[t] \in Raids THEN UnRef(Now, raidOf[t]) ELSE Now)

(* Raids::reload, between two tasks.                                       *)
Reload ==
  /\ \A r \in Raids : due[r] # "posted"
  /\ Become(Fresh)
  /\ raidOf' = [t \in Things |-> IF raidOf[t] = None THEN None ELSE Freed]

Next ==
  \/ \E r \in Raids : StartRaid(r) \/ EventIsDue(r) \/ ExecuteRaidEvent(r)
  \/ \E t \in Things : Gone(t)
  \/ Reload

Spec == Init /\ [][Next]_vars
-----------------------------------------------------------------------------
TypeOK ==
  /\ running \in Raids \cup {None}
  /\ refCount \in [Raids -> Nat]
  /\ \A r \in Raids : eventCount[r] \in 0..Len(Events[r])
  /\ nextEvent \in [Raids -> BOOLEAN]
  /\ due \in [Raids -> {"no", "scheduled", "posted"}]
  /\ raidOf \in [Things -> Raids \cup {None, Freed}]

(***************************************************************************)
(* Two raids never run at once; the raid that runs has an event to come    *)
(* or, as a block raid, monsters left, so that none is "running" for ever  *)
(* and keeps the others out; and a raid that nothing refers to and that    *)
(* does not run starts from its first event.                               *)
(***************************************************************************)
RaidsTakeTurns ==
  /\ \A r \in Raids :
       /\ due[r] # "no" => running = r
       /\ running = r => due[r] # "no" \/ (RefType[r] = "block" /\ refCount[r] > 0)
       /\ nextEvent[r] <=> due[r] # "no"
       /\ running # r /\ refCount[r] = 0 => eventCount[r] = 0
       /\ refCount[r] = Cardinality({t \in Things : raidOf[t] = r})
=============================================================================
