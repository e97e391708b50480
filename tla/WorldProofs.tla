----------------------------- MODULE WorldProofs -----------------------------
(***************************************************************************)
(* Proofs about the behaviours of World, with the inductive invariants of  *)
(* PartsProofs, and those of conditions, coins and equipment, here.        *)
(***************************************************************************)
EXTENDS World, PartsProofs

(* A step belongs to the part that the behaviour follows.                  *)
LEMMA StepOfThePart ==
  ASSUME [Next]_vars
  PROVE  /\ part' = part
         /\ part = "party" => Party!Next \/ UNCHANGED vars
         /\ part = "partyChat" => PartyChat!Next \/ UNCHANGED vars
         /\ part = "privateChat" => PrivateChat!Next \/ UNCHANGED vars
         /\ part = "walk" => Walk!Next \/ UNCHANGED vars
         /\ part = "house" => House!Next \/ UNCHANGED vars
         /\ part = "bed" => Bed!Next \/ UNCHANGED vars
         /\ part = "spawn" => Spawn!Next \/ UNCHANGED vars
         /\ part = "decay" => Decay!Next \/ UNCHANGED vars
         /\ part = "window" => Window!Next \/ UNCHANGED vars
         /\ part = "coins" => Coins!Next \/ UNCHANGED vars
         /\ part = "raid" => Raid!Next \/ UNCHANGED vars
         /\ part = "equip" => Equip!Next \/ UNCHANGED vars
         /\ part = "swiftness" => Swiftness!Next \/ UNCHANGED vars
         /\ part = "strength" => Strength!Next \/ UNCHANGED vars
         /\ part = "script" => Script!Next \/ UNCHANGED vars
BY DEF vars, Next, PartyStep, PartyChatStep, PrivateChatStep, SpawnStep, DecayStep, HouseStep,
       BedStep, WindowStep, CoinsStep, RaidStep, EquipStep, DuelStep, PackStep, SwiftnessStep,
       StrengthStep, ScriptStep, WalkStep

LEMMA StutterOfTheParts ==
  ASSUME UNCHANGED vars
  PROVE  Untouched
BY DEF Untouched, vars, From3, From4, From5, From6, From7, From8, From9, From10, From11, From12, From13
-----------------------------------------------------------------------------
(* The conditions of a player.                                             *)
LEMMA ConditionIsAssumed == Strength!ConditionAssumption
BY WorldAssumption DEF WorldAssumption

(* The first numbers of a sequence together.                               *)
Totals(f, w, n) == f = [k \in 0 .. n |-> IF k = 0 THEN 0 ELSE f[k - 1] + w[k]]
Total(w, n) == (CHOOSE f : Totals(f, w, n))[n]

LEMMA TotalsExist ==
  ASSUME NEW w, NEW n \in Nat
  PROVE  \E f : Totals(f, w, n)
<1> DEFINE Bad == {m \in Nat : ~\E f : Totals(f, w, m)}
<1>1. ASSUME Bad # {} PROVE FALSE
  <2>1. PICK m \in Bad : \A l \in Bad : m <= l
    BY <1>1, LeastNumber
  <2>2. CASE m = 0
    <3> DEFINE f == [k \in 0 .. 0 |-> 0]
    <3>1. Totals(f, w, 0)
      BY DEF Totals
    <3> QED BY <2>1, <2>2, <3>1
  <2>3. CASE m # 0
    <3>1. m \in Nat /\ m - 1 \in Nat /\ ~(m <= m - 1)
      BY <2>1, <2>3
    <3>2. PICK g : Totals(g, w, m - 1)
      BY <2>1, <3>1
    <3> DEFINE last == g[m - 1] + w[m]
               f == [k \in 0 .. m |-> IF k = m THEN last ELSE g[k]]
    <3>3. \A k \in 0 .. m - 1 : g[k] = IF k = 0 THEN 0 ELSE g[k - 1] + w[k]
      BY <3>2 DEF Totals
    <3> HIDE DEF last
    <3>4. (\A k \in 0 .. m - 1 : f[k] = g[k]) /\ f[m] = last
      BY <3>1
    <3>5. f = [k \in 0 .. m |-> f[k]]
      OBVIOUS
    <3> HIDE DEF f
    <3>6. ASSUME NEW k \in 0 .. m PROVE f[k] = IF k = 0 THEN 0 ELSE f[k - 1] + w[k]
      <4>1. CASE k = m
        <5>1. m - 1 \in 0 .. m - 1
          BY <3>1
        <5> QED BY <2>3, <3>4, <4>1, <5>1 DEF last
      <4>2. CASE k # m
        <5>1. k \in 0 .. m - 1 /\ (k # 0 => k - 1 \in 0 .. m - 1)
          BY <3>1, <4>2
        <5> QED BY <3>3, <3>4, <5>1
      <4> QED BY <4>1, <4>2
    <3>7. Totals(f, w, m)
      BY <3>5, <3>6, Zenon DEF Totals
    <3> QED BY <2>1, <3>7
  <2> QED BY <2>2, <2>3
<1> QED BY <1>1

Numbers(w, n) == \A k \in 1 .. n : w[k] \in Int
AlikeBut(w, v, n, i) == \A k \in 1 .. n : k # i => v[k] = w[k]
DifferBy(f, g, w, v, n, i) ==
  \A k \in 0 .. n :
    /\ f[k] \in Int /\ g[k] \in Int
    /\ g[k] = f[k] + IF i \in 1 .. k THEN v[i] - w[i] ELSE 0

(* Totals of sequences that differ in one place only differ by that.       *)
LEMMA TotalsDiffer ==
  ASSUME NEW n \in Nat, NEW w, NEW v, Numbers(w, n), Numbers(v, n),
         NEW i \in Int, AlikeBut(w, v, n, i),
         NEW f, Totals(f, w, n), NEW m \in Nat, NEW g, Totals(g, v, m), n <= m
  PROVE  DifferBy(f, g, w, v, n, i)
<1> DEFINE Right(k) == /\ f[k] \in Int /\ g[k] \in Int
                       /\ g[k] = f[k] + IF i \in 1 .. k THEN v[i] - w[i] ELSE 0
           Bad == {k \in 0 .. n : ~Right(k)}
<1>1. ASSUME Bad # {} PROVE FALSE
  <2>1. Bad \subseteq Nat
    OBVIOUS
  <2>2. PICK k \in Bad : \A l \in Bad : k <= l
    BY <1>1, <2>1, LeastNumber
  <2>3. /\ f[k] = IF k = 0 THEN 0 ELSE f[k - 1] + w[k]
        /\ g[k] = IF k = 0 THEN 0 ELSE g[k - 1] + v[k]
    BY DEF Totals
  <2>4. k # 0
    BY <2>3
  <2>5. k - 1 \in 0 .. n /\ ~(k <= k - 1) /\ k \in 1 .. n
    BY <2>4
  <2>6. Right(k - 1)
    BY <2>2, <2>5
  <2>7. Right(k)
    BY <2>3, <2>4, <2>5, <2>6 DEF Numbers, AlikeBut
  <2> QED BY <2>7
<1> QED BY <1>1 DEF DifferBy

LEMMA TotalIsOf ==
  ASSUME NEW w, NEW n \in Nat
  PROVE  \E f : Totals(f, w, n) /\ Total(w, n) = f[n]
BY TotalsExist, Zenon DEF Total

LEMMA TotalOfChanged ==
  ASSUME NEW n \in Nat, NEW w, NEW v, Numbers(w, n), Numbers(v, n),
         NEW i \in Int, AlikeBut(w, v, n, i)
  PROVE  /\ Total(w, n) \in Int /\ Total(v, n) \in Int
         /\ Total(v, n) = Total(w, n) + IF i \in 1 .. n THEN v[i] - w[i] ELSE 0
<1>1. PICK f : Totals(f, w, n) /\ Total(w, n) = f[n]
  BY TotalIsOf
<1>2. PICK g : Totals(g, v, n) /\ Total(v, n) = g[n]
  BY TotalIsOf
<1>3. n \in 0 .. n /\ n <= n
  OBVIOUS
<1>4. DifferBy(f, g, w, v, n, i)
  BY <1>1, <1>2, <1>3, TotalsDiffer
<1> QED BY <1>1, <1>2, <1>3, <1>4 DEF DifferBy

LEMMA TotalGrows ==
  ASSUME NEW n \in Nat, NEW w, NEW v, \A k \in 1 .. n : w[k] \in Int /\ v[k] = w[k],
         v[n + 1] \in Int
  PROVE  Total(v, n + 1) = Total(w, n) + v[n + 1] /\ Total(w, n) \in Int
<1>1. PICK f : Totals(f, w, n) /\ Total(w, n) = f[n]
  BY TotalIsOf
<1>2. PICK g : Totals(g, v, n + 1) /\ Total(v, n + 1) = g[n + 1]
  BY TotalIsOf
<1>3. n \in 0 .. n /\ n <= n + 1 /\ n + 1 \in Nat /\ 0 \in Int /\ 0 \notin 1 .. n
  OBVIOUS
<1>4. f[n] \in Int /\ g[n] = f[n]
  <2>1. Numbers(w, n) /\ Numbers(v, n) /\ AlikeBut(w, v, n, 0)
    BY DEF Numbers, AlikeBut
  <2>2. DifferBy(f, g, w, v, n, 0)
    BY <1>1, <1>2, <1>3, <2>1, TotalsDiffer
  <2> QED BY <1>3, <2>2 DEF DifferBy
<1>5. g[n + 1] = g[n] + v[n + 1]
  BY <1>2 DEF Totals
<1> QED BY <1>1, <1>2, <1>4, <1>5

(* The recursion has one value.                                            *)
LEMMA TotalIs ==
  ASSUME NEW n \in Nat, NEW w, Numbers(w, n), NEW f, Totals(f, w, n)
  PROVE  f[n] = Total(w, n)
<1>1. PICK g : Totals(g, w, n) /\ Total(w, n) = g[n]
  BY TotalIsOf
<1>2. n \in 0 .. n /\ n <= n /\ 0 \in Int /\ 0 \notin 1 .. n
  OBVIOUS
<1>3. DifferBy(f, g, w, w, n, 0)
  <2>1. AlikeBut(w, w, n, 0)
    BY DEF AlikeBut
  <2> QED BY <1>1, <1>2, <2>1, TotalsDiffer
<1> QED BY <1>1, <1>2, <1>3 DEF DifferBy

LEMMA TotalOfNone ==
  ASSUME NEW w
  PROVE  Total(w, 0) = 0
<1>1. PICK f : Totals(f, w, 0) /\ Total(w, 0) = f[0]
  BY TotalIsOf
<1> QED BY <1>1 DEF Totals
-----------------------------------------------------------------------------
(* Conditions.  A list of them, and what they add up to.                   *)
AllTypes == Strength!SpeedTypes \cup {"attributes", "outfit", "fight"}
AnyLook == Looks \cup {"citizen", None} \cup {c.look : c \in Hastes \cup Boosts}

CondOf(ty) ==
  {c \in [type : ty, id : Strength!ConditionIds, ticks : Nat \cup {-1}, delta : Int, look : AnyLook,
          left : Nat \cup {Strength!Past, Strength!Unset}] :
     /\ c.type = "fight" => c.ticks # -1
     /\ c.type = "outfit" => c.look # None}

Weights(cs, types) == [i \in 1 .. Len(cs) |-> IF cs[i].type \in types THEN cs[i].delta ELSE 0]
SumOf(cs, types) == Total(Weights(cs, types), Len(cs))

LEMMA SumIsSumOf ==
  ASSUME NEW types, x1 \in Seq(CondOf(AllTypes))
  PROVE  Strength!Sum(types) = SumOf(x1, types)
<1> DEFINE w == Weights(x1, types)
           n == Len(x1)
           sum == CHOOSE f : f = [k \in 0 .. n |->
                    IF k = 0 THEN 0
                    ELSE f[k - 1] + IF x1[k].type \in types THEN x1[k].delta ELSE 0]
<1>1. Strength!Sum(types) = sum[n]
  BY Zenon DEF Strength!Sum
<1>2. n \in Nat
  OBVIOUS
<1>3. \A f : Totals(f, w, n) <=> f = [k \in 0 .. n |->
                    IF k = 0 THEN 0
                    ELSE f[k - 1] + IF x1[k].type \in types THEN x1[k].delta ELSE 0]
  <2>1. \A k \in 0 .. n : k # 0 => k \in 1 .. n
    BY <1>2
  <2>2. \A k \in 1 .. n : w[k] = IF x1[k].type \in types THEN x1[k].delta ELSE 0
    BY DEF Weights
  <2> HIDE DEF w, n
  <2> QED BY <2>1, <2>2 DEF Totals
<1>4. Totals(sum, w, n)
  <2> HIDE DEF w, n
  <2>1. PICK f : Totals(f, w, n)
    BY <1>2, TotalsExist
  <2> QED BY <1>3, <2>1, Zenon
<1>5. Numbers(w, n)
  BY DEF Numbers, Weights, CondOf
<1> HIDE DEF w, n, sum
<1>6. sum[n] = Total(w, n)
  BY <1>2, <1>4, <1>5, TotalIs
<1> QED BY <1>1, <1>6 DEF SumOf, w, n

CondLists(ty) == Seq(CondOf(ty))
Share(c, types) == IF c.type \in types THEN c.delta ELSE 0

LEMMA WeightsAre ==
  ASSUME NEW ty, NEW cs \in CondLists(ty), NEW types
  PROVE  /\ Len(cs) \in Nat /\ Numbers(Weights(cs, types), Len(cs)) /\ DOMAIN cs = 1 .. Len(cs)
         /\ \A i \in 1 .. Len(cs) :
              cs[i] \in CondOf(ty) /\ Weights(cs, types)[i] = Share(cs[i], types)
BY DEF CondLists, Weights, Share, Numbers, CondOf

LEMMA SumOfNone ==
  ASSUME NEW types
  PROVE  SumOf(<<>>, types) = 0
BY TotalOfNone DEF SumOf

LEMMA SumGrows ==
  ASSUME NEW ty, NEW cs \in CondLists(ty), NEW c \in CondOf(ty), NEW types
  PROVE  /\ Append(cs, c) \in CondLists(ty) /\ SumOf(cs, types) \in Int
         /\ SumOf(Append(cs, c), types) = SumOf(cs, types) + Share(c, types)
<1> DEFINE n == Len(cs)
           more == Append(cs, c)
           w == Weights(cs, types)
           v == Weights(more, types)
<1>1. more \in CondLists(ty) /\ Len(more) = n + 1 /\ more[n + 1] = c /\ n \in Nat
      /\ \A k \in 1 .. n : more[k] = cs[k]
  BY DEF CondLists
<1> HIDE DEF more
<1>2. \A k \in 1 .. n : w[k] \in Int /\ v[k] = w[k]
  <2>1. Numbers(w, n)
    BY WeightsAre
  <2>2. \A k \in 1 .. n : k \in 1 .. n + 1
    BY <1>1
  <2> QED BY <1>1, <2>1, <2>2 DEF Weights, Numbers
<1>3. v[n + 1] = Share(c, types) /\ Share(c, types) \in Int
  <2>1. n + 1 \in 1 .. Len(more)
    BY <1>1
  <2> QED BY <1>1, <2>1 DEF Weights, Share, CondOf
<1> HIDE DEF w, v, n
<1>4. Total(v, n + 1) = Total(w, n) + v[n + 1] /\ Total(w, n) \in Int
  BY <1>1, <1>2, <1>3, TotalGrows
<1>5. SumOf(cs, types) = Total(w, n) /\ SumOf(more, types) = Total(v, n + 1)
  BY <1>1 DEF SumOf, w, v, n
<1> QED BY <1>1, <1>3, <1>4, <1>5 DEF more

(* Another list whose conditions are of the same types, and bring the same *)
(* but for one.                                                            *)
LEMMA SumChanges ==
  ASSUME NEW ty, NEW cs \in CondLists(ty), NEW cs2 \in CondLists(ty), Len(cs2) = Len(cs), NEW types,
         NEW i \in Int, \A k \in 1 .. Len(cs) : k # i => Share(cs2[k], types) = Share(cs[k], types)
  PROVE  SumOf(cs2, types) =
           SumOf(cs, types)
             + IF i \in 1 .. Len(cs) THEN Share(cs2[i], types) - Share(cs[i], types) ELSE 0
<1> DEFINE n == Len(cs)
           w == Weights(cs, types)
           v == Weights(cs2, types)
<1>1. n \in Nat /\ Numbers(w, n) /\ Numbers(v, n)
  BY WeightsAre
<1>2. \A k \in 1 .. n : w[k] = Share(cs[k], types) /\ v[k] = Share(cs2[k], types)
  BY WeightsAre
<1>3. SumOf(cs, types) = Total(w, n) /\ SumOf(cs2, types) = Total(v, n)
  BY DEF SumOf
<1>4. AlikeBut(w, v, n, i)
  BY <1>2 DEF AlikeBut
<1> HIDE DEF w, v, n
<1>5. Total(v, n) = Total(w, n) + IF i \in 1 .. n THEN v[i] - w[i] ELSE 0
  BY <1>1, <1>4, TotalOfChanged
<1> QED BY <1>2, <1>3, <1>5 DEF n
-----------------------------------------------------------------------------
(* The player, as a record.                                                *)
Marked == {"locked", "attacked", "white"}
Persons(ty) ==
  [conditions : CondLists(ty), speed : Int, skill : Int, current : AnyLook, marks : SUBSET Marked,
   both : BOOLEAN, stained : BOOLEAN]

AddsUp(p) ==
  p.speed = SumOf(p.conditions, Strength!SpeedTypes) /\ p.skill =
    SumOf(p.conditions, {"attributes"})
OneSpeed(p) ==
  ~p.both => \A c, d \in Strength!Listed(p) :
               c.type = "haste" /\ d.type = "paralyze"
                 => ~Strength!InForce(c) \/ ~Strength!InForce(d)
LooksExplained(p) ==
  p.current # x4 /\ ~p.stained => \E c \in Strength!Listed(p) : c.look # None
MarksExplained(p) == p.marks # {} => \E c \in Strength!Listed(p) : c.type = "fight"
Steady(p, ty) ==
  p \in Persons(ty) /\ AddsUp(p) /\ LooksExplained(p) /\ MarksExplained(p)

LEMMA ListedAre ==
  ASSUME NEW ty, NEW p \in Persons(ty)
  PROVE  /\ Len(p.conditions) \in Nat /\ p.conditions \in CondLists(ty)
         /\ \A i \in 1 .. Len(p.conditions) :
              p.conditions[i] \in CondOf(ty) /\ p.conditions[i] \in Strength!Listed(p)
         /\ \A c \in Strength!Listed(p) : c \in CondOf(ty)
                                 /\ \E i \in 1 .. Len(p.conditions) : p.conditions[i] = c
BY DEF Persons, CondLists, Strength!Listed

(* Of the first n conditions those that stay are in the list, the others   *)
(* have been ended.                                                        *)
Going(p, stay, ty, n, q) ==
  /\ q \in Persons(ty) /\ q.both = p.both /\ q.stained = p.stained
  /\ Strength!Listed(q) \subseteq Strength!Listed(p) \cap stay
  /\ q.speed = p.speed - Total(Weights(p.conditions, Strength!SpeedTypes), n)
       + SumOf(q.conditions, Strength!SpeedTypes)
  /\ q.skill = p.skill - Total(Weights(p.conditions, {"attributes"}), n)
               + SumOf(q.conditions, {"attributes"})
  /\ \/ q.current = x4
     \/ /\ q.current = p.current
        /\ \A i \in 1 .. n : p.conditions[i].look # None => p.conditions[i] \in Strength!Listed(q)
  /\ \/ q.marks = {}
     \/ /\ q.marks = p.marks
        /\ \A i \in 1 .. n : p.conditions[i].type = "fight"
             => p.conditions[i] \in Strength!Listed(q)

(* What is done to the player when a condition begins, and taken back.     *)
LEMMA AppliedIs ==
  ASSUME NEW ty, NEW p \in Persons(ty), NEW c, Share(c, Strength!SpeedTypes) \in Int,
         Share(c, {"attributes"}) \in Int, NEW sign \in {-1, 1}
  PROVE  /\ Strength!Applied(p, c, sign) \in Persons(ty)
         /\ Strength!Applied(p, c, sign).conditions = p.conditions
         /\ Strength!Applied(p, c, sign).speed = p.speed + sign * Share(c, Strength!SpeedTypes)
         /\ Strength!Applied(p, c, sign).skill = p.skill + sign * Share(c, {"attributes"})
         /\ Strength!Applied(p, c, sign).current = p.current /\ Strength!Applied(p, c, sign).marks =
              p.marks
         /\ Strength!Applied(p, c, sign).both = p.both /\ Strength!Applied(p, c, sign).stained =
              p.stained
<1> DEFINE quick == IF c.type \in Strength!SpeedTypes THEN p.speed + sign * c.delta ELSE p.speed
           good == IF c.type = "attributes" THEN p.skill + sign * c.delta ELSE p.skill
           q == [p EXCEPT !.speed = quick, !.skill = good]
<1>1. Strength!Applied(p, c, sign) = q
  BY DEF Strength!Applied
<1>2. quick = p.speed + sign * Share(c, Strength!SpeedTypes) /\ quick \in Int
  <2>1. p.speed \in Int
    BY DEF Persons
  <2> QED BY <2>1 DEF Share
<1>3. good = p.skill + sign * Share(c, {"attributes"}) /\ good \in Int
  <2>1. p.skill \in Int
    BY DEF Persons
  <2> QED BY <2>1 DEF Share
<1> HIDE DEF quick, good
<1>4. /\ q \in Persons(ty) /\ q.conditions = p.conditions /\ q.speed = quick /\ q.skill = good
      /\ q.current = p.current /\ q.marks = p.marks /\ q.both = p.both /\ q.stained = p.stained
  BY <1>2, <1>3 DEF Persons
<1> HIDE DEF q
<1> QED BY <1>1, <1>2, <1>3, <1>4

LEMMA EndedIs ==
  ASSUME NEW ty, NEW p \in Persons(ty), NEW c \in CondOf(ty), x4 \in AnyLook
  PROVE  /\ Strength!Ended(p, c) \in Persons(ty) /\ Strength!Ended(p, c).conditions = p.conditions
         /\ Strength!Ended(p, c).speed = p.speed - Share(c, Strength!SpeedTypes)
         /\ Strength!Ended(p, c).skill = p.skill - Share(c, {"attributes"})
         /\ Strength!Ended(p, c).current = (IF c.look = None THEN p.current ELSE x4)
         /\ Strength!Ended(p, c).marks = (IF c.type = "fight" THEN {} ELSE p.marks)
         /\ Strength!Ended(p, c).both = p.both /\ Strength!Ended(p, c).stained = p.stained
<1> DEFINE q == Strength!Applied(p, c, -1)
           seen == IF c.look = None THEN q.current ELSE x4
           left == IF c.type = "fight" THEN {} ELSE q.marks
           r == [q EXCEPT !.current = seen, !.marks = left]
<1>1. Strength!Ended(p, c) = r
  BY DEF Strength!Ended
<1>2. Share(c, Strength!SpeedTypes) \in Int /\ Share(c, {"attributes"}) \in Int
  BY DEF Share, CondOf
<1>3. /\ q \in Persons(ty) /\ q.conditions = p.conditions
      /\ q.speed = p.speed + (-1) * Share(c, Strength!SpeedTypes)
      /\ q.skill = p.skill + (-1) * Share(c, {"attributes"})
      /\ q.current = p.current /\ q.marks = p.marks /\ q.both = p.both /\ q.stained = p.stained
  BY <1>2, AppliedIs
<1> HIDE DEF q
<1>4. seen \in AnyLook /\ left \in SUBSET Marked
  BY <1>3 DEF Persons
<1>5. seen = (IF c.look = None THEN p.current ELSE x4)
      /\ left = (IF c.type = "fight" THEN {} ELSE p.marks)
  BY <1>3
<1> HIDE DEF seen, left
<1>6. /\ r \in Persons(ty) /\ r.conditions = q.conditions /\ r.speed = q.speed /\ r.skill = q.skill
      /\ r.current = seen /\ r.marks = left /\ r.both = q.both /\ r.stained = q.stained
  BY <1>3, <1>4 DEF Persons
<1>7. p.speed \in Int /\ p.skill \in Int
  BY DEF Persons
<1> HIDE DEF r
<1> QED BY <1>1, <1>2, <1>3, <1>5, <1>6, <1>7

LEMMA ListedAppend ==
  ASSUME NEW ty, NEW p \in Persons(ty), NEW c \in CondOf(ty), NEW q,
         q.conditions = Append(p.conditions, c)
  PROVE  Strength!Listed(q) = Strength!Listed(p) \cup {c}
<1>1. Len(p.conditions) \in Nat /\ p.conditions \in Seq(CondOf(ty))
  BY DEF Persons, CondLists
<1> DEFINE cs == p.conditions
           n == Len(cs)
<1>2. DOMAIN cs = 1 .. n /\ DOMAIN q.conditions = 1 .. n + 1 /\ q.conditions[n + 1] = c
      /\ \A i \in 1 .. n : q.conditions[i] = cs[i]
  BY <1>1
<1>3. 1 .. n + 1 = (1 .. n) \cup {n + 1}
  BY <1>1
<1> HIDE DEF n
<1> QED BY <1>2, <1>3 DEF Strength!Listed

LEMMA TakenBack ==
  ASSUME NEW speed1 \in Int, NEW speed2 \in Int, NEW share \in Int, NEW before \in Int,
         NEW sum \in Int, speed2 = speed1 - before + sum
  PROVE  speed2 - share = speed1 - (before + share) + sum
OBVIOUS

LEMMA GoingOn ==
  ASSUME NEW ty, NEW p \in Persons(ty), NEW stay, NEW n \in 1 .. Len(p.conditions), NEW q,
         Going(p, stay, ty, n - 1, q), x4 \in AnyLook
  PROVE  LET c == p.conditions[n] IN
         Going(p, stay, ty, n,
               IF c \in stay THEN [q EXCEPT !.conditions = Append(@, c)] ELSE Strength!Ended(q, c))
<1> DEFINE c == p.conditions[n]
           w(types) == Weights(p.conditions, types)
           r == IF c \in stay THEN [q EXCEPT !.conditions = Append(@, c)] ELSE Strength!Ended(q, c)
<1>1. /\ Len(p.conditions) \in Nat /\ c \in CondOf(ty) /\ c \in Strength!Listed(p)
      /\ p.speed \in Int /\ p.skill \in Int /\ q \in Persons(ty) /\ q.speed \in Int
           /\ q.skill \in Int
  BY ListedAre DEF Persons, Going
<1>2. ASSUME NEW types
      PROVE  /\ Total(w(types), n) = Total(w(types), n - 1) + Share(c, types)
             /\ Total(w(types), n - 1) \in Int /\ Share(c, types) \in Int
  <2> DEFINE m == n - 1
  <2>1. m \in Nat /\ m + 1 = n
    BY <1>1
  <2>2. w(types)[n] = Share(c, types) /\ Share(c, types) \in Int
    BY <1>1, WeightsAre DEF Share, CondOf, Persons
  <2>3. \A k \in 1 .. m : w(types)[k] \in Int /\ w(types)[k] = w(types)[k]
    <3>1. Numbers(w(types), Len(p.conditions))
      BY <1>1, WeightsAre DEF Persons
    <3>2. \A k \in 1 .. m : k \in 1 .. Len(p.conditions)
      BY <1>1, <2>1
    <3> HIDE DEF w, m
    <3> QED BY <3>1, <3>2, Zenon DEF Numbers
  <2> HIDE DEF m, w
  <2>4. Total(w(types), m + 1) = Total(w(types), m) + w(types)[m + 1] /\ Total(w(types), m) \in Int
    <3>1. w(types)[m + 1] \in Int
      BY <2>1, <2>2
    <3> DEFINE v == w(types)
    <3>2. \A k \in 1 .. m : v[k] \in Int /\ v[k] = v[k]
      BY <2>3
    <3> HIDE DEF v
    <3> QED BY <2>1, <3>1, <3>2, TotalGrows DEF v
  <2> QED BY <2>1, <2>2, <2>4 DEF m
<1>3. \A i \in 1 .. n : i = n \/ i \in 1 .. n - 1
  BY <1>1
<1> HIDE DEF w
<1>4. CASE c \in stay
  <2>1. r = [q EXCEPT !.conditions = Append(q.conditions, c)]
    BY <1>4
  <2>2. Append(q.conditions, c) \in CondLists(ty) /\ q.conditions \in CondLists(ty)
    BY <1>1 DEF Persons, CondLists
  <2> HIDE DEF r, c
  <2>3. /\ r \in Persons(ty) /\ r.conditions = Append(q.conditions, c)
        /\ r.speed = q.speed /\ r.skill = q.skill /\ r.current = q.current /\ r.marks = q.marks
        /\ r.both = q.both /\ r.stained = q.stained
    BY <1>1, <2>1, <2>2 DEF Persons
  <2>4. Strength!Listed(r) = Strength!Listed(q) \cup {c}
    BY <1>1, <2>3, ListedAppend
  <2>5. ASSUME NEW types
        PROVE  /\ SumOf(r.conditions, types) = SumOf(q.conditions, types) + Share(c, types)
               /\ SumOf(q.conditions, types) \in Int
    BY <1>1, <2>2, <2>3, SumGrows
  <2>6. /\ Strength!Listed(q) \subseteq Strength!Listed(p) \cap stay /\ q.both =
             p.both /\ q.stained = p.stained
        /\ q.speed = p.speed - Total(w(Strength!SpeedTypes), n - 1)
             + SumOf(q.conditions, Strength!SpeedTypes)
        /\ q.skill = p.skill - Total(w({"attributes"}), n - 1) + SumOf(q.conditions, {"attributes"})
    BY DEF Going, w
  <2>7. r.speed = p.speed - Total(w(Strength!SpeedTypes), n)
          + SumOf(r.conditions, Strength!SpeedTypes)
    <3>1. /\ Total(w(Strength!SpeedTypes), n) =
               Total(w(Strength!SpeedTypes), n - 1) + Share(c, Strength!SpeedTypes)
          /\ Total(w(Strength!SpeedTypes), n - 1) \in Int /\ Share(c, Strength!SpeedTypes) \in Int
      BY <1>2
    <3>2. /\ SumOf(r.conditions, Strength!SpeedTypes) =
               SumOf(q.conditions, Strength!SpeedTypes) + Share(c, Strength!SpeedTypes)
          /\ SumOf(q.conditions, Strength!SpeedTypes) \in Int
      BY <2>5
    <3>3. /\ r.speed = q.speed
          /\ q.speed = p.speed - Total(w(Strength!SpeedTypes), n - 1)
               + SumOf(q.conditions, Strength!SpeedTypes)
          /\ p.speed \in Int /\ q.speed \in Int
      BY <1>1, <2>3, <2>6
    <3> QED BY <3>1, <3>2, <3>3
  <2>8. r.skill = p.skill - Total(w({"attributes"}), n) + SumOf(r.conditions, {"attributes"})
    <3>1. /\ Total(w({"attributes"}), n) =
               Total(w({"attributes"}), n - 1) + Share(c, {"attributes"})
          /\ Total(w({"attributes"}), n - 1) \in Int /\ Share(c, {"attributes"}) \in Int
      BY <1>2
    <3>2. /\ SumOf(r.conditions, {"attributes"}) =
               SumOf(q.conditions, {"attributes"}) + Share(c, {"attributes"})
          /\ SumOf(q.conditions, {"attributes"}) \in Int
      BY <2>5
    <3>3. /\ r.skill = q.skill
          /\ q.skill = p.skill - Total(w({"attributes"}), n - 1)
               + SumOf(q.conditions, {"attributes"})
          /\ p.skill \in Int /\ q.skill \in Int
      BY <1>1, <2>3, <2>6
    <3> QED BY <3>1, <3>2, <3>3
  <2>9. /\ \/ r.current = x4
           \/ /\ r.current = p.current
              /\ \A i \in 1 .. n : p.conditions[i].look # None
                   => p.conditions[i] \in Strength!Listed(r)
        /\ \/ r.marks = {}
           \/ /\ r.marks = p.marks
              /\ \A i \in 1 .. n : p.conditions[i].type = "fight"
                   => p.conditions[i] \in Strength!Listed(r)
    BY <1>3, <2>3, <2>4 DEF Going, c
  <2>10. Going(p, stay, ty, n, r)
    BY <1>1, <1>4, <2>3, <2>4, <2>6, <2>7, <2>8, <2>9 DEF Going, w
  <2> QED BY <2>10 DEF r, c
<1>5. CASE c \notin stay
  <2>1. r = Strength!Ended(q, c)
    BY <1>5
  <2> HIDE DEF r, c
  <2>2. /\ r \in Persons(ty) /\ r.conditions = q.conditions
        /\ r.speed = q.speed - Share(c, Strength!SpeedTypes) /\ r.skill =
             q.skill - Share(c, {"attributes"})
        /\ r.current = (IF c.look = None THEN q.current ELSE x4)
        /\ r.marks = (IF c.type = "fight" THEN {} ELSE q.marks)
        /\ r.both = q.both /\ r.stained = q.stained
    BY <1>1, <2>1, EndedIs
  <2>3. Strength!Listed(r) = Strength!Listed(q)
    BY <2>2 DEF Strength!Listed
  <2>4. ASSUME NEW types
        PROVE  SumOf(r.conditions, types) =
                 SumOf(q.conditions, types) /\ SumOf(q.conditions, types) \in Int
    <3>1. q.conditions \in CondLists(ty)
      BY <1>1 DEF Persons
    <3> QED BY <1>1, <2>2, <3>1, SumGrows
  <2>6. /\ Strength!Listed(q) \subseteq Strength!Listed(p) \cap stay /\ q.both =
             p.both /\ q.stained = p.stained
        /\ q.speed = p.speed - Total(w(Strength!SpeedTypes), n - 1)
             + SumOf(q.conditions, Strength!SpeedTypes)
        /\ q.skill = p.skill - Total(w({"attributes"}), n - 1) + SumOf(q.conditions, {"attributes"})
    BY DEF Going, w
  <2>7. r.speed = p.speed - Total(w(Strength!SpeedTypes), n)
          + SumOf(r.conditions, Strength!SpeedTypes)
    <3>1. /\ Total(w(Strength!SpeedTypes), n) =
               Total(w(Strength!SpeedTypes), n - 1) + Share(c, Strength!SpeedTypes)
          /\ Total(w(Strength!SpeedTypes), n - 1) \in Int /\ Share(c, Strength!SpeedTypes) \in Int
      BY <1>2
    <3>2. SumOf(r.conditions, Strength!SpeedTypes) =
            SumOf(q.conditions, Strength!SpeedTypes)
              /\ SumOf(q.conditions, Strength!SpeedTypes) \in Int
      BY <2>4
    <3>3. /\ r.speed = q.speed - Share(c, Strength!SpeedTypes)
          /\ q.speed = p.speed - Total(w(Strength!SpeedTypes), n - 1)
               + SumOf(q.conditions, Strength!SpeedTypes)
          /\ p.speed \in Int /\ q.speed \in Int
      BY <1>1, <2>2, <2>6
    <3>4. q.speed - Share(c, Strength!SpeedTypes) =
            p.speed - (Total(w(Strength!SpeedTypes), n - 1) + Share(c, Strength!SpeedTypes))
              + SumOf(q.conditions, Strength!SpeedTypes)
      BY <3>1, <3>2, <3>3, TakenBack
    <3> QED BY <3>1, <3>2, <3>3, <3>4
  <2>8. r.skill = p.skill - Total(w({"attributes"}), n) + SumOf(r.conditions, {"attributes"})
    <3>1. /\ Total(w({"attributes"}), n) =
               Total(w({"attributes"}), n - 1) + Share(c, {"attributes"})
          /\ Total(w({"attributes"}), n - 1) \in Int /\ Share(c, {"attributes"}) \in Int
      BY <1>2
    <3>2. SumOf(r.conditions, {"attributes"}) =
            SumOf(q.conditions, {"attributes"}) /\ SumOf(q.conditions, {"attributes"}) \in Int
      BY <2>4
    <3>3. /\ r.skill = q.skill - Share(c, {"attributes"})
          /\ q.skill = p.skill - Total(w({"attributes"}), n - 1)
               + SumOf(q.conditions, {"attributes"})
          /\ p.skill \in Int /\ q.skill \in Int
      BY <1>1, <2>2, <2>6
    <3>4. q.skill - Share(c, {"attributes"}) =
            p.skill - (Total(w({"attributes"}), n - 1) + Share(c, {"attributes"}))
              + SumOf(q.conditions, {"attributes"})
      BY <3>1, <3>2, <3>3, TakenBack
    <3> QED BY <3>1, <3>2, <3>3, <3>4
  <2>9. /\ \/ r.current = x4
           \/ /\ r.current = p.current
              /\ \A i \in 1 .. n : p.conditions[i].look # None
                   => p.conditions[i] \in Strength!Listed(r)
        /\ \/ r.marks = {}
           \/ /\ r.marks = p.marks
              /\ \A i \in 1 .. n : p.conditions[i].type = "fight"
                   => p.conditions[i] \in Strength!Listed(r)
    BY <1>3, <2>2, <2>3 DEF Going, c
  <2>10. Going(p, stay, ty, n, r)
    BY <2>2, <2>3, <2>6, <2>7, <2>8, <2>9 DEF Going, w
  <2> QED BY <2>10 DEF r, c
<1> QED BY <1>4, <1>5

(* The recursion of Kept has a solution.                                   *)
KeptOne(q, c, stay) == IF c \in stay THEN [q EXCEPT !.conditions = Append(@, c)]
  ELSE Strength!Ended(q, c)
Keeping(f, p, stay, n) ==
  f = [k \in 0 .. n |-> IF k = 0 THEN [p EXCEPT !.conditions = <<>>]
                        ELSE KeptOne(f[k - 1], p.conditions[k], stay)]

LEMMA KeepingExists ==
  ASSUME NEW p, NEW stay, NEW n \in Nat
  PROVE  \E f : Keeping(f, p, stay, n)
<1> DEFINE Bad == {m \in Nat : ~\E f : Keeping(f, p, stay, m)}
           first == [p EXCEPT !.conditions = <<>>]
           Next1(q, k) == KeptOne(q, p.conditions[k], stay)
<1>1. ASSUME Bad # {} PROVE FALSE
  <2>1. PICK m \in Bad : \A l \in Bad : m <= l
    BY <1>1, LeastNumber
  <2> HIDE DEF first, Next1
  <2>2. CASE m = 0
    <3> DEFINE f == [k \in 0 .. 0 |-> first]
    <3>1. Keeping(f, p, stay, 0)
      BY DEF Keeping, first
    <3> QED BY <2>1, <2>2, <3>1
  <2>3. CASE m # 0
    <3>1. m \in Nat /\ m - 1 \in Nat /\ ~(m <= m - 1)
      BY <2>1, <2>3
    <3>2. PICK g : Keeping(g, p, stay, m - 1)
      BY <2>1, <3>1
    <3> DEFINE last == Next1(g[m - 1], m)
               f == [k \in 0 .. m |-> IF k = m THEN last ELSE g[k]]
    <3>3. \A k \in 0 .. m - 1 : g[k] = IF k = 0 THEN first ELSE Next1(g[k - 1], k)
      BY <3>2 DEF Keeping, first, Next1
    <3> HIDE DEF last
    <3>4. (\A k \in 0 .. m - 1 : f[k] = g[k]) /\ f[m] = last
      BY <3>1
    <3>5. f = [k \in 0 .. m |-> f[k]]
      OBVIOUS
    <3> HIDE DEF f
    <3>6. ASSUME NEW k \in 0 .. m PROVE f[k] = IF k = 0 THEN first ELSE Next1(f[k - 1], k)
      <4>1. CASE k = m
        <5>1. m - 1 \in 0 .. m - 1
          BY <3>1
        <5> QED BY <2>3, <3>4, <4>1, <5>1 DEF last
      <4>2. CASE k # m
        <5>1. k \in 0 .. m - 1 /\ (k # 0 => k - 1 \in 0 .. m - 1)
          BY <3>1, <4>2
        <5> QED BY <3>3, <3>4, <5>1
      <4> QED BY <4>1, <4>2
    <3>7. Keeping(f, p, stay, m)
      BY <3>5, <3>6, Zenon DEF Keeping, first, Next1
    <3> QED BY <2>1, <3>7
  <2> QED BY <2>2, <2>3
<1> QED BY <1>1

LEMMA KeptIs ==
  ASSUME NEW ty, NEW p \in Persons(ty), NEW stay, x4 \in AnyLook
  PROVE  Going(p, stay, ty, Len(p.conditions), Strength!Kept(p, stay))
<1> DEFINE L == Len(p.conditions)
           kept == CHOOSE f : f = [k \in 0 .. L |->
                     IF k = 0 THEN [p EXCEPT !.conditions = <<>>]
                     ELSE LET c == p.conditions[k] IN
                          IF c \in stay THEN [f[k - 1] EXCEPT !.conditions = Append(@, c)]
                          ELSE Strength!Ended(f[k - 1], c)]
           Bad == {k \in 0 .. L : ~Going(p, stay, ty, k, kept[k])}
<1>1. Strength!Kept(p, stay) = kept[L]
  BY Zenon DEF Strength!Kept
<1>2. L \in Nat
  BY ListedAre
<1>3. Keeping(kept, p, stay, L)
  <2> HIDE DEF L
  <2>1. \E f : Keeping(f, p, stay, L)
    BY <1>2, KeepingExists
  <2>2. kept = CHOOSE f : Keeping(f, p, stay, L)
    BY Zenon DEF Keeping, KeptOne
  <2> HIDE DEF kept
  <2> QED BY <2>1, <2>2, Zenon
<1> HIDE DEF kept
<1>4. \A k \in 0 .. L : kept[k] = IF k = 0 THEN [p EXCEPT !.conditions = <<>>]
                                  ELSE KeptOne(kept[k - 1], p.conditions[k], stay)
  <2> HIDE DEF L
  <2> QED BY <1>3, Zenon DEF Keeping
<1>5. Going(p, stay, ty, 0, [p EXCEPT !.conditions = <<>>])
  <2> DEFINE q == [p EXCEPT !.conditions = <<>>]
             w(types) == Weights(p.conditions, types)
  <2>1. /\ q \in Persons(ty) /\ q.conditions = <<>> /\ q.speed = p.speed /\ q.skill = p.skill
        /\ q.current = p.current /\ q.marks = p.marks /\ q.both = p.both /\ q.stained = p.stained
    <3> DEFINE none == <<>>
    <3>1. none \in CondLists(ty)
      BY DEF CondLists
    <3> HIDE DEF none
    <3>2. [p EXCEPT !.conditions = none] \in Persons(ty)
      BY <3>1 DEF Persons
    <3>3. q = [p EXCEPT !.conditions = none]
      BY DEF none
    <3> HIDE DEF q
    <3> QED BY <3>2, <3>3 DEF Persons, none
  <2>2. p.speed \in Int /\ p.skill \in Int
    BY DEF Persons
  <2> HIDE DEF q, w
  <2>3. \A types : SumOf(q.conditions, types) = 0 /\ Total(w(types), 0) = 0
    BY <2>1, SumOfNone, TotalOfNone
  <2>4. Strength!Listed(q) = {}
    BY <2>1 DEF Strength!Listed
  <2>5. /\ q.speed = p.speed - Total(w(Strength!SpeedTypes), 0)
             + SumOf(q.conditions, Strength!SpeedTypes)
        /\ q.skill = p.skill - Total(w({"attributes"}), 0) + SumOf(q.conditions, {"attributes"})
    BY <2>1, <2>2, <2>3
  <2>6. 1 .. 0 = {}
    OBVIOUS
  <2>7. Going(p, stay, ty, 0, q)
    BY <2>1, <2>4, <2>5, <2>6 DEF Going, w
  <2> QED BY <2>7 DEF q
<1>6. ASSUME Bad # {} PROVE FALSE
  <2> HIDE DEF L
  <2>1. Bad \subseteq Nat
    BY <1>2
  <2>2. PICK k \in Bad : \A l \in Bad : k <= l
    BY <1>6, <2>1, LeastNumber
  <2>3. k \in 0 .. L /\ ~Going(p, stay, ty, k, kept[k])
    BY <2>2
  <2>4. k # 0
    BY <1>4, <1>5, <2>3
  <2>5. k - 1 \in 0 .. L /\ ~(k <= k - 1) /\ k \in 1 .. L
    BY <1>2, <2>3, <2>4
  <2>6. Going(p, stay, ty, k - 1, kept[k - 1])
    BY <2>2, <2>5
  <2> DEFINE c == p.conditions[k]
             q == kept[k - 1]
  <2>7. Going(p, stay, ty, k, IF c \in stay THEN [q EXCEPT !.conditions = Append(@, c)]
          ELSE Strength!Ended(q, c))
    BY <2>5, <2>6, GoingOn DEF L
  <2>8. kept[k] = KeptOne(q, c, stay)
    BY <1>4, <2>3, <2>4
  <2> QED BY <2>3, <2>7, <2>8 DEF KeptOne
<1> QED BY <1>1, <1>2, <1>6

(* Removing conditions takes back what they have brought.                  *)
LEMMA KeptKeeps ==
  ASSUME NEW ty, NEW p, Steady(p, ty), NEW stay, x4 \in AnyLook
  PROVE  /\ Steady(Strength!Kept(p, stay), ty)
              /\ Strength!Listed(Strength!Kept(p, stay)) \subseteq Strength!Listed(p) \cap stay
         /\ Strength!Kept(p, stay).both = p.both /\ Strength!Kept(p, stay).stained = p.stained
<1> DEFINE q == Strength!Kept(p, stay)
           L == Len(p.conditions)
<1>1. p \in Persons(ty) /\ AddsUp(p) /\ LooksExplained(p) /\ MarksExplained(p)
  BY DEF Steady
<1>2. Going(p, stay, ty, L, q)
  BY <1>1, KeptIs
<1> HIDE DEF q
<1>3. AddsUp(q)
  <2>1. \A types : SumOf(p.conditions, types) = Total(Weights(p.conditions, types), L)
    BY DEF SumOf
  <2>2. p.speed \in Int /\ p.skill \in Int
    BY <1>1 DEF Persons
  <2>3. \A types : SumOf(q.conditions, types) \in Int
    <3>1. q.conditions \in CondLists(ty)
      BY <1>2 DEF Going, Persons
    <3>2. ASSUME NEW types PROVE SumOf(q.conditions, types) \in Int
      <4> DEFINE w == Weights(q.conditions, types)
                 n == Len(q.conditions)
      <4>1. n \in Nat /\ Numbers(w, n) /\ 0 \in Int /\ AlikeBut(w, w, n, 0)
        BY <3>1, WeightsAre DEF AlikeBut
      <4> HIDE DEF w, n
      <4>2. Total(w, n) \in Int
        BY <4>1, TotalOfChanged
      <4> QED BY <4>2 DEF SumOf, w, n
    <3> QED BY <3>2
  <2>4. /\ p.speed = Total(Weights(p.conditions, Strength!SpeedTypes), L)
        /\ p.skill = Total(Weights(p.conditions, {"attributes"}), L)
    BY <1>1, <2>1 DEF AddsUp
  <2>5. /\ q.speed = p.speed - p.speed + SumOf(q.conditions, Strength!SpeedTypes)
        /\ q.skill = p.skill - p.skill + SumOf(q.conditions, {"attributes"})
    BY <1>2, <2>4 DEF Going
  <2> QED BY <2>2, <2>3, <2>5 DEF AddsUp
<1>4. \A c \in Strength!Listed(p) : \E i \in 1 .. L : p.conditions[i] = c
  BY <1>1, ListedAre
<1>5. LooksExplained(q)
  BY <1>1, <1>2, <1>4 DEF LooksExplained, Going
<1>6. MarksExplained(q)
  BY <1>1, <1>2, <1>4 DEF MarksExplained, Going
<1>7. q \in Persons(ty) /\ q.both = p.both /\ q.stained =
        p.stained /\ Strength!Listed(q) \subseteq Strength!Listed(p) \cap stay
  BY <1>2 DEF Going
<1>8. Steady(q, ty)
  BY <1>3, <1>5, <1>6, <1>7 DEF Steady
<1> QED BY <1>7, <1>8 DEF q

SoundPerson(p, ty) == Steady(p, ty) /\ OneSpeed(p)
Fits(new, ty) ==
  /\ new.type \in ty /\ new.id \in Strength!ConditionIds /\ new.ticks \in Nat \cup {-1}
  /\ new.delta \in Int /\ new.look \in AnyLook
  /\ new.type = "fight" => new.ticks # -1
  /\ new.type = "outfit" => new.look # None

LEMMA ChangedIs ==
  ASSUME NEW ty, NEW p \in Persons(ty), NEW c, c.look \in AnyLook
  PROVE  /\ Strength!Changed(p, c) \in Persons(ty) /\ Strength!Changed(p, c).conditions =
              p.conditions
         /\ Strength!Changed(p, c).speed = p.speed /\ Strength!Changed(p, c).skill = p.skill
         /\ Strength!Changed(p, c).current = (IF c.look = None THEN p.current ELSE c.look)
         /\ Strength!Changed(p, c).marks = p.marks /\ Strength!Changed(p, c).both = p.both
         /\ Strength!Changed(p, c).stained = p.stained
BY DEF Strength!Changed, Persons

(* The player with another list and other marks of history.                *)
LEMMA RelistedIs ==
  ASSUME NEW ty, NEW p \in Persons(ty), NEW cs \in CondLists(ty), NEW b \in BOOLEAN,
         NEW st \in BOOLEAN
  PROVE  LET q == [p EXCEPT !.conditions = cs, !.both = b, !.stained = st] IN
         /\ q \in Persons(ty) /\ q.conditions = cs /\ q.speed = p.speed /\ q.skill = p.skill
         /\ q.current = p.current /\ q.marks = p.marks /\ q.both = b /\ q.stained = st
BY DEF Persons

LEMMA StartedIs ==
  ASSUME NEW ty, NEW new, Fits(new, ty)
  PROVE  LET c == Strength!SetTicks([type |-> new.type, id |-> new.id, ticks |-> new.ticks,
                            delta |-> new.delta, look |-> new.look, left |-> Strength!Unset],
                              new.ticks)
         IN /\ c \in CondOf(ty) /\ c.type = new.type /\ c.look = new.look
            /\ c.delta = new.delta
<1> DEFINE first == [type |-> new.type, id |-> new.id, ticks |-> new.ticks,
                     delta |-> new.delta, look |-> new.look, left |-> Strength!Unset]
           begun == IF new.ticks > 0 THEN new.ticks ELSE first.left
           c == [first EXCEPT !.ticks = new.ticks, !.left = begun]
<1>1. Strength!SetTicks(first, new.ticks) = c
  BY DEF Strength!SetTicks
<1>2. /\ first \in CondOf(ty) /\ first.type = new.type /\ first.look = new.look
      /\ first.delta = new.delta
  BY DEF Fits, CondOf
<1> HIDE DEF first
<1>3. begun \in Nat \cup {Strength!Past, Strength!Unset} /\ new.ticks \in Nat \cup {-1}
  BY <1>2 DEF Fits, CondOf
<1> HIDE DEF begun
<1>4. c \in CondOf(ty) /\ c.type = first.type /\ c.look = first.look /\ c.delta = first.delta
  BY <1>2, <1>3 DEF Fits, CondOf
<1> HIDE DEF c
<1> QED BY <1>1, <1>2, <1>4 DEF first

(* A condition that is new is listed, and what it brings counted.          *)
Listing(p, new, c, b) ==
  [Strength!Changed(Strength!Applied(p, new, 1), new) EXCEPT !.conditions = Append(@, c), !.both =
    @ \/ b]

LEMMA ListingKeeps ==
  ASSUME NEW ty, NEW p, Steady(p, ty), NEW new, Fits(new, ty), NEW c \in CondOf(ty),
         c.type = new.type, c.look = new.look, c.delta = new.delta, NEW b \in BOOLEAN
  PROVE  /\ Steady(Listing(p, new, c, b), ty) /\ Strength!Listed(Listing(p, new, c, b)) =
              Strength!Listed(p) \cup {c}
         /\ Listing(p, new, c, b).both = (p.both \/ b)
<1> DEFINE a == Strength!Applied(p, new, 1)
           m == Strength!Changed(a, new)
           cs == Append(m.conditions, c)
           flag == m.both \/ b
           q == [m EXCEPT !.conditions = cs, !.both = flag, !.stained = m.stained]
           r == [m EXCEPT !.conditions = Append(@, c), !.both = @ \/ b]
<1>1. p \in Persons(ty) /\ AddsUp(p) /\ LooksExplained(p) /\ MarksExplained(p)
  BY DEF Steady
<1>2. /\ Share(new, Strength!SpeedTypes) \in Int /\ Share(new, {"attributes"}) \in Int
      /\ new.look \in AnyLook /\ 1 \in {-1, 1}
  BY DEF Fits, Share
<1>3. /\ a \in Persons(ty) /\ a.conditions = p.conditions
      /\ a.speed = p.speed + 1 * Share(new, Strength!SpeedTypes)
      /\ a.skill = p.skill + 1 * Share(new, {"attributes"})
      /\ a.current = p.current /\ a.marks = p.marks /\ a.both = p.both /\ a.stained = p.stained
  BY <1>1, <1>2, AppliedIs
<1> HIDE DEF a
<1>4. /\ m \in Persons(ty) /\ m.conditions = a.conditions /\ m.speed = a.speed /\ m.skill = a.skill
      /\ m.current = (IF new.look = None THEN a.current ELSE new.look)
      /\ m.marks = a.marks /\ m.both = a.both /\ m.stained = a.stained
  BY <1>2, <1>3, ChangedIs
<1> HIDE DEF m
<1>5. r = q
  BY <1>4 DEF Persons
<1>6. cs \in CondLists(ty) /\ flag \in BOOLEAN /\ m.stained \in BOOLEAN /\ m.conditions =
        p.conditions
  BY <1>3, <1>4 DEF Persons, CondLists
<1>7. flag = (p.both \/ b)
  BY <1>3, <1>4
<1> HIDE DEF cs, flag
<1>8. /\ q \in Persons(ty) /\ q.conditions = cs /\ q.speed = m.speed /\ q.skill = m.skill
      /\ q.current = m.current /\ q.marks = m.marks /\ q.both = flag /\ q.stained = m.stained
  BY <1>4, <1>6 DEF Persons
<1> HIDE DEF q, r
<1>9. Strength!Listed(q) = Strength!Listed(p) \cup {c}
  BY <1>1, <1>6, <1>8, ListedAppend DEF cs
<1>10. AddsUp(q)
  <2>1. p.conditions \in CondLists(ty) /\ p.speed \in Int /\ p.skill \in Int
    BY <1>1 DEF Persons
  <2>2. ASSUME NEW types
        PROVE  SumOf(q.conditions, types) = SumOf(p.conditions, types) + Share(new, types)
    BY <1>6, <1>8, <2>1, SumGrows DEF cs, Share
  <2>3. SumOf(q.conditions, Strength!SpeedTypes) =
          SumOf(p.conditions, Strength!SpeedTypes) + Share(new, Strength!SpeedTypes)
    BY <2>2
  <2>4. SumOf(q.conditions, {"attributes"}) =
          SumOf(p.conditions, {"attributes"}) + Share(new, {"attributes"})
    BY <2>2
  <2> QED BY <1>1, <1>2, <1>3, <1>4, <1>8, <2>1, <2>3, <2>4 DEF AddsUp
<1>11. LooksExplained(q) /\ MarksExplained(q)
  BY <1>1, <1>3, <1>4, <1>8, <1>9 DEF LooksExplained, MarksExplained
<1>12. Steady(q, ty)
  BY <1>8, <1>10, <1>11 DEF Steady
<1>13. Listing(p, new, c, b) = r
  BY DEF Listing, r, m, a
<1> QED BY <1>5, <1>7, <1>8, <1>9, <1>12, <1>13

(* It ends its opposite, unless that is not felt.                          *)
LEMMA BeginningKeeps ==
  ASSUME NEW ty, NEW p, OneSpeed(p), NEW q, Steady(q, ty), NEW c,
         Strength!Listed(q) = Strength!Listed(p) \cup {c},
         q.both = (p.both \/ Strength!Overlooked(p, c.type)), x4 \in AnyLook
  PROVE  /\ SoundPerson(Strength!OnAddCondition(q, c.type), ty)
         /\ c.type = "fight" => c \in Strength!Listed(Strength!OnAddCondition(q, c.type))
<1> DEFINE other == Strength!Opposite(c.type)
<1>1. CASE c.type \in Strength!SpeedTypes /\ Strength!HasCondition(q, other)
  <2> DEFINE stay == {d \in Strength!Listed(q) : d.type # other}
             r == Strength!Kept(q, stay)
  <2>1. Strength!OnAddCondition(q, c.type) = r
    BY <1>1 DEF Strength!OnAddCondition, Strength!WithoutType
  <2>2. \A d \in stay : d.type # other
    OBVIOUS
  <2> HIDE DEF stay
  <2>3. Steady(r, ty) /\ Strength!Listed(r) \subseteq Strength!Listed(q) \cap stay
    BY KeptKeeps
  <2> HIDE DEF r
  <2>4. other \in Strength!SpeedTypes
    BY DEF Strength!Opposite, Strength!SpeedTypes
  <2> HIDE DEF other
  <2>5. OneSpeed(r)
    BY <2>2, <2>3, <2>4 DEF OneSpeed, Strength!SpeedTypes
  <2>6. c.type # "fight"
    BY <1>1 DEF Strength!SpeedTypes
  <2> QED BY <2>1, <2>3, <2>5, <2>6 DEF SoundPerson
<1>2. CASE ~(c.type \in Strength!SpeedTypes /\ Strength!HasCondition(q, other))
  <2>1. Strength!OnAddCondition(q, c.type) = q
    BY <1>2 DEF Strength!OnAddCondition
  <2>2. ASSUME ~q.both, NEW h \in Strength!Listed(q), NEW d \in Strength!Listed(q),
               h.type = "haste",
               d.type = "paralyze", Strength!InForce(h), Strength!InForce(d)
        PROVE  FALSE
    <3>1. ~p.both /\ ~Strength!Overlooked(p, c.type)
      BY <2>2
    <3>2. ASSUME NEW e \in Strength!Listed(p), Strength!InForce(e), e.type = other,
                 c.type \in Strength!SpeedTypes PROVE FALSE
      <4>1. other \notin x7
        BY <3>1, <3>2 DEF Strength!Overlooked
      <4> QED BY <1>2, <3>2, <4>1 DEF Strength!HasCondition
    <3>3. CASE h \in Strength!Listed(p) /\ d \in Strength!Listed(p)
      BY <2>2, <3>1, <3>3 DEF OneSpeed
    <3>4. CASE h \notin Strength!Listed(p)
      <4>1. h = c /\ d \in Strength!Listed(p)
        BY <2>2, <3>4
      <4> QED BY <2>2, <3>2, <4>1 DEF Strength!Opposite, Strength!SpeedTypes
    <3>5. CASE d \notin Strength!Listed(p)
      <4>1. d = c /\ h \in Strength!Listed(p)
        BY <2>2, <3>5
      <4> QED BY <2>2, <3>2, <4>1 DEF Strength!Opposite, Strength!SpeedTypes
    <3> QED BY <3>3, <3>4, <3>5
  <2>3. OneSpeed(q)
    BY <2>2 DEF OneSpeed
  <2> QED BY <2>1, <2>3 DEF SoundPerson
<1> QED BY <1>1, <1>2

(* One of the same type that is there already is replaced, and what it has *)
(* brought with it.                                                        *)
LEMMA ReplacingKeeps ==
  ASSUME NEW ty, NEW p, SoundPerson(p, ty), NEW i \in 1 .. Len(p.conditions), NEW new,
         Fits(new, ty),
         NEW next \in CondOf(ty), next.type = new.type, next.look = new.look,
         next.type = p.conditions[i].type, next.delta = new.delta, NEW q, q \in Persons(ty),
         q.conditions = [p.conditions EXCEPT ![i] = next],
         q.speed = p.speed - Share(p.conditions[i], Strength!SpeedTypes)
           + Share(new, Strength!SpeedTypes),
         q.skill = p.skill - Share(p.conditions[i], {"attributes"}) + Share(new, {"attributes"}),
         q.current = (IF new.look = None THEN p.current ELSE new.look), q.marks = p.marks,
         q.both = (p.both \/ Strength!Revives(p.conditions[i], next)),
         q.stained = (p.stained \/ (p.conditions[i].look # None /\ new.look = None))
  PROVE  SoundPerson(q, ty) /\ next \in Strength!Listed(q)
<1> DEFINE c == p.conditions[i]
           L == Len(p.conditions)
<1>1. p \in Persons(ty) /\ AddsUp(p) /\ LooksExplained(p) /\ MarksExplained(p) /\ OneSpeed(p)
  BY DEF SoundPerson, Steady
<1>2. /\ L \in Nat /\ p.conditions \in CondLists(ty) /\ DOMAIN p.conditions = 1 .. L
      /\ c \in CondOf(ty) /\ c \in Strength!Listed(p)
  <2>1. p.conditions \in CondLists(ty)
    BY <1>1, ListedAre
  <2> QED BY <1>1, <2>1, ListedAre, WeightsAre
<1>3. /\ Len(q.conditions) = L /\ q.conditions \in CondLists(ty) /\ DOMAIN q.conditions = 1 .. L
      /\ q.conditions[i] = next /\ \A k \in 1 .. L : k # i => q.conditions[k] = p.conditions[k]
  <2>1. p.conditions \in Seq(CondOf(ty))
    BY <1>2 DEF CondLists
  <2> DEFINE cs == p.conditions
             C == CondOf(ty)
  <2>2. /\ q.conditions = [cs EXCEPT ![i] = next] /\ cs \in Seq(C) /\ L = Len(cs)
        /\ next \in C /\ i \in 1 .. Len(cs)
    BY <2>1
  <2> HIDE DEF cs, L, C
  <2> DEFINE cs2 == [cs EXCEPT ![i] = next]
  <2>3. Len(cs2) = Len(cs) /\ cs2 \in Seq(C) /\ DOMAIN cs2 = 1 .. Len(cs)
        /\ cs2[i] = next /\ \A k \in 1 .. Len(cs) : k # i => cs2[k] = cs[k]
    BY <2>2
  <2> QED BY <2>2, <2>3 DEF cs, C, CondLists
<1> HIDE DEF c, L
<1>4. next \in Strength!Listed(q) /\ \A d \in Strength!Listed(q) : d =
        next \/ d \in Strength!Listed(p)
  <2>1. i \in 1 .. L
    BY DEF L
  <2>2. \A k \in 1 .. L : p.conditions[k] \in Strength!Listed(p)
    BY <1>2 DEF Strength!Listed
  <2> QED BY <1>3, <2>1, <2>2 DEF Strength!Listed
<1>5. \A d \in Strength!Listed(p) : d = c \/ d \in Strength!Listed(q)
  <2>1. \A d \in Strength!Listed(p) : \E k \in 1 .. L : p.conditions[k] = d
    BY <1>2 DEF Strength!Listed
  <2>2. \A k \in 1 .. L : k # i => p.conditions[k] \in Strength!Listed(q)
    BY <1>3 DEF Strength!Listed
  <2> QED BY <2>1, <2>2 DEF c
<1>6. ASSUME NEW types
      PROVE  /\ SumOf(q.conditions, types) =
                  SumOf(p.conditions, types) + (Share(new, types) - Share(c, types))
             /\ SumOf(p.conditions, types) \in Int /\ Share(new, types) \in Int
             /\ Share(c, types) \in Int
  <2> DEFINE cs == p.conditions
             cs2 == q.conditions
  <2>1. cs \in CondLists(ty) /\ cs2 \in CondLists(ty) /\ Len(cs2) =
          Len(cs) /\ i \in Int /\ i \in 1 .. Len(cs)
    BY <1>2, <1>3 DEF L
  <2>2. \A k \in 1 .. Len(cs) : k # i => Share(cs2[k], types) = Share(cs[k], types)
    BY <1>3 DEF L
  <2>3. Share(cs2[i], types) = Share(new, types) /\ Share(cs[i], types) = Share(c, types)
    BY <1>3 DEF Share, c
  <2> HIDE DEF cs, cs2
  <2>4. SumOf(cs2, types) = SumOf(cs, types)
             + IF i \in 1 .. Len(cs) THEN Share(cs2[i], types) - Share(cs[i], types) ELSE 0
    BY <2>1, <2>2, SumChanges
  <2>5. SumOf(cs, types) \in Int
    BY <1>2, <2>1, SumGrows
  <2> QED BY <1>2, <2>1, <2>3, <2>4, <2>5 DEF cs, cs2, Share, Fits, CondOf
<1>7. AddsUp(q)
  <2>1. /\ q.speed = p.speed - Share(c, Strength!SpeedTypes) + Share(new, Strength!SpeedTypes)
        /\ q.skill = p.skill - Share(c, {"attributes"}) + Share(new, {"attributes"})
    BY DEF c
  <2>2. /\ SumOf(q.conditions, Strength!SpeedTypes) =
             SumOf(p.conditions, Strength!SpeedTypes)
               + (Share(new, Strength!SpeedTypes) - Share(c, Strength!SpeedTypes))
        /\ SumOf(p.conditions, Strength!SpeedTypes) \in Int
             /\ Share(new, Strength!SpeedTypes) \in Int
        /\ Share(c, Strength!SpeedTypes) \in Int
    BY <1>6
  <2>3. /\ SumOf(q.conditions, {"attributes"}) =
             SumOf(p.conditions, {"attributes"})
               + (Share(new, {"attributes"}) - Share(c, {"attributes"}))
        /\ SumOf(p.conditions, {"attributes"}) \in Int /\ Share(new, {"attributes"}) \in Int
        /\ Share(c, {"attributes"}) \in Int
    BY <1>6
  <2> QED BY <1>1, <2>1, <2>2, <2>3 DEF AddsUp
<1>8. LooksExplained(q)
  <2>1. ASSUME q.current # x4, ~q.stained PROVE \E d \in Strength!Listed(q) : d.look # None
    <3>1. CASE new.look # None
      BY <1>4, <3>1
    <3>2. CASE new.look = None
      <4>1. p.current # x4 /\ ~p.stained /\ c.look = None
        BY <2>1, <3>2 DEF c
      <4> QED BY <1>1, <1>5, <4>1 DEF LooksExplained
    <3> QED BY <3>1, <3>2
  <2> QED BY <2>1 DEF LooksExplained
<1>9. MarksExplained(q)
  BY <1>1, <1>4, <1>5 DEF MarksExplained, c
<1>10. OneSpeed(q)
  <2>1. q.both = (p.both \/ Strength!Revives(c, next)) /\ next.type = c.type
    BY DEF c
  <2>2. ASSUME ~q.both, NEW h \in Strength!Listed(q), NEW d \in Strength!Listed(q),
               h.type = "haste",
               d.type = "paralyze", Strength!InForce(h), Strength!InForce(d)
        PROVE  FALSE
    <3>1. ~p.both /\ ~Strength!Revives(c, next)
      BY <2>1, <2>2
    <3>2. CASE h = next
      BY <1>1, <1>2, <1>4, <2>1, <2>2, <3>1, <3>2 DEF OneSpeed, Strength!Revives,
        Strength!SpeedTypes
    <3>3. CASE d = next
      BY <1>1, <1>2, <1>4, <2>1, <2>2, <3>1, <3>3 DEF OneSpeed, Strength!Revives,
        Strength!SpeedTypes
    <3>4. CASE h # next /\ d # next
      BY <1>1, <1>4, <2>2, <3>1, <3>4 DEF OneSpeed
    <3> QED BY <3>2, <3>3, <3>4
  <2> QED BY <2>2 DEF OneSpeed
<1> QED BY <1>4, <1>7, <1>8, <1>9, <1>10 DEF SoundPerson, Steady

LEMMA UpdatedKeeps ==
  ASSUME NEW ty, NEW p, SoundPerson(p, ty), NEW i \in 1 .. Len(p.conditions), NEW new,
         Fits(new, ty),
         p.conditions[i].type = new.type
  PROVE  /\ SoundPerson(Strength!Updated(p, i, new), ty)
         /\ \E d \in Strength!Listed(Strength!Updated(p, i, new)) : d.type = new.type
<1> DEFINE c == p.conditions[i]
<1>1. p \in Persons(ty) /\ AddsUp(p)
  BY DEF SoundPerson, Steady
<1>2. c \in CondOf(ty) /\ c \in Strength!Listed(p)
  BY <1>1, ListedAre
<1>3. CASE ~Strength!MayUpdate(c, new)
  <2>1. Strength!Updated(p, i, new) = p
    BY <1>3 DEF Strength!Updated
  <2> QED BY <1>2, <2>1
<1>4. CASE Strength!MayUpdate(c, new)
  <2> DEFINE left == IF new.ticks > 0 THEN new.ticks ELSE c.left
             timed == [c EXCEPT !.ticks = new.ticks, !.left = left]
             next == [timed EXCEPT !.delta = new.delta, !.look = new.look]
             less == Strength!Applied(p, c, -1)
             other == Strength!Applied(less, new, 1)
             m == Strength!Changed(other, new)
             cs == [m.conditions EXCEPT ![i] = next]
             flag == m.both \/ Strength!Revives(c, next)
             spot == m.stained \/ (c.look # None /\ new.look = None)
             q == [m EXCEPT !.conditions = cs, !.both = flag, !.stained = spot]
             r == [m EXCEPT !.conditions[i] = next, !.both = @ \/ Strength!Revives(c, next),
                            !.stained = @ \/ (c.look # None /\ new.look = None)]
  <2>1. Strength!Updated(p, i, new) = r
    BY <1>4 DEF Strength!Updated, Strength!SetTicks
  <2>2. left \in Nat \cup {Strength!Past, Strength!Unset} /\ new.ticks \in Nat \cup {-1}
    BY <1>2 DEF Fits, CondOf
  <2> HIDE DEF left
  <2>3. timed \in [type : ty, id : Strength!ConditionIds, ticks : Nat \cup {-1}, delta : Int, look :
          AnyLook,
                   left : Nat \cup {Strength!Past, Strength!Unset}] /\ timed.type =
                     c.type /\ timed.ticks = new.ticks
    BY <1>2, <2>2 DEF CondOf
  <2> HIDE DEF timed
  <2>4. /\ next \in CondOf(ty) /\ next.type = c.type /\ next.look = new.look
        /\ next.delta = new.delta
    <3>1. next \in [type : ty, id : Strength!ConditionIds, ticks : Nat \cup {-1}, delta : Int,
            look : AnyLook,
                   left : Nat \cup {Strength!Past, Strength!Unset}] /\ next.type =
                     timed.type /\ next.look = new.look
          /\ next.delta = new.delta /\ next.ticks = timed.ticks
      BY <2>3 DEF Fits
    <3> HIDE DEF next
    <3> QED BY <2>3, <3>1 DEF CondOf, Fits
  <2>5. /\ Share(new, Strength!SpeedTypes) \in Int /\ Share(new, {"attributes"}) \in Int
        /\ Share(c, Strength!SpeedTypes) \in Int /\ Share(c, {"attributes"}) \in Int
        /\ new.look \in AnyLook /\ 1 \in {-1, 1} /\ -1 \in {-1, 1}
    BY <1>2 DEF Fits, Share, CondOf
  <2> HIDE DEF next, c
  <2>6. /\ less \in Persons(ty) /\ less.conditions = p.conditions
        /\ less.speed = p.speed + (-1) * Share(c, Strength!SpeedTypes)
        /\ less.skill = p.skill + (-1) * Share(c, {"attributes"})
        /\ less.current = p.current /\ less.marks = p.marks
        /\ less.both = p.both /\ less.stained = p.stained
    BY <1>1, <2>5, AppliedIs
  <2> HIDE DEF less
  <2>7. /\ other \in Persons(ty) /\ other.conditions = less.conditions
        /\ other.speed = less.speed + 1 * Share(new, Strength!SpeedTypes)
        /\ other.skill = less.skill + 1 * Share(new, {"attributes"})
        /\ other.current = less.current /\ other.marks = less.marks
        /\ other.both = less.both /\ other.stained = less.stained
    BY <2>5, <2>6, AppliedIs
  <2> HIDE DEF other
  <2>8. /\ m \in Persons(ty) /\ m.conditions = other.conditions /\ m.speed = other.speed
        /\ m.skill = other.skill
        /\ m.current = (IF new.look = None THEN other.current ELSE new.look)
        /\ m.marks = other.marks /\ m.both = other.both /\ m.stained = other.stained
    BY <2>5, <2>7, ChangedIs
  <2> HIDE DEF m
  <2>9. r = q
    BY <2>8 DEF Persons
  <2>10. /\ cs = [p.conditions EXCEPT ![i] = next] /\ flag = (p.both \/ Strength!Revives(c, next))
         /\ spot = (p.stained \/ (c.look # None /\ new.look = None))
    BY <2>6, <2>7, <2>8
  <2>11. cs \in CondLists(ty) /\ flag \in BOOLEAN /\ spot \in BOOLEAN
    <3>1. cs \in CondLists(ty)
      <4> DEFINE C == CondOf(ty)
                 old == p.conditions
      <4>1. old \in Seq(C) /\ next \in C /\ i \in 1 .. Len(old)
        BY <1>1, <2>4 DEF Persons, CondLists
      <4> HIDE DEF C, old
      <4>2. [old EXCEPT ![i] = next] \in Seq(C)
        BY <4>1
      <4> QED BY <2>10, <4>2 DEF C, old, CondLists
    <3>2. p.both \in BOOLEAN /\ p.stained \in BOOLEAN
      BY <1>1 DEF Persons
    <3> QED BY <2>10, <3>1, <3>2
  <2> HIDE DEF cs, flag, spot
  <2>12. /\ q \in Persons(ty) /\ q.conditions = cs /\ q.speed = m.speed /\ q.skill = m.skill
         /\ q.current = m.current /\ q.marks = m.marks /\ q.both = flag /\ q.stained = spot
    BY <2>8, <2>11 DEF Persons
  <2> HIDE DEF q, r
  <2>13. /\ q.speed = p.speed - Share(c, Strength!SpeedTypes) + Share(new, Strength!SpeedTypes)
         /\ q.skill = p.skill - Share(c, {"attributes"}) + Share(new, {"attributes"})
    <3>1. p.speed \in Int /\ p.skill \in Int
      BY <1>1 DEF Persons
    <3>2. /\ less.speed = p.speed - Share(c, Strength!SpeedTypes)
          /\ less.skill = p.skill - Share(c, {"attributes"})
      <4> DEFINE s == Share(c, Strength!SpeedTypes)
                 t == Share(c, {"attributes"})
      <4>1. /\ less.speed = p.speed + (-1) * s /\ less.skill = p.skill + (-1) * t
            /\ s \in Int /\ t \in Int
        BY <2>5, <2>6
      <4> HIDE DEF s, t
      <4>2. less.speed = p.speed - s /\ less.skill = p.skill - t
        BY <3>1, <4>1
      <4> QED BY <4>2 DEF s, t
    <3>3. q.speed = other.speed /\ q.skill = other.skill
      BY <2>8, <2>12
    <3> QED BY <2>5, <2>7, <3>1, <3>2, <3>3
  <2>14. /\ next.type = new.type /\ next.type = p.conditions[i].type
         /\ q.conditions = [p.conditions EXCEPT ![i] = next]
         /\ q.speed = p.speed - Share(p.conditions[i], Strength!SpeedTypes)
              + Share(new, Strength!SpeedTypes)
         /\ q.skill = p.skill - Share(p.conditions[i], {"attributes"}) + Share(new, {"attributes"})
         /\ q.current = (IF new.look = None THEN p.current ELSE new.look) /\ q.marks = p.marks
         /\ q.both = (p.both \/ Strength!Revives(p.conditions[i], next))
         /\ q.stained = (p.stained \/ (p.conditions[i].look # None /\ new.look = None))
    BY <2>4, <2>6, <2>7, <2>8, <2>10, <2>12, <2>13 DEF c
  <2>15. SoundPerson(q, ty) /\ next \in Strength!Listed(q)
    BY <2>4, <2>12, <2>14, ReplacingKeeps
  <2> QED BY <2>1, <2>9, <2>14, <2>15
<1> QED BY <1>3, <1>4

(* Whatever is added, the conditions of the player account for the player. *)
LEMMA AddKeeps ==
  ASSUME NEW ty, NEW p, SoundPerson(p, ty), NEW new, Fits(new, ty), x4 \in AnyLook
  PROVE  /\ SoundPerson(Strength!AddCondition(p, new), ty)
         /\ new.type = "fight"
              => \E d \in Strength!Listed(Strength!AddCondition(p, new)) : d.type = "fight"
<1> DEFINE same == {i \in DOMAIN p.conditions :
                      p.conditions[i].type = new.type /\ p.conditions[i].id = new.id}
           started == Strength!SetTicks([type |-> new.type, id |-> new.id, ticks |-> new.ticks,
                                delta |-> new.delta, look |-> new.look, left |-> Strength!Unset],
                                  new.ticks)
           old == Strength!Overlooked(p, new.type)
           listed == [Strength!Changed(Strength!Applied(p, new, 1), new) EXCEPT
                        !.conditions = Append(@, started), !.both = @ \/ old]
           i == CHOOSE j \in same : TRUE
<1>1. Strength!AddCondition(p, new) = IF same # {} THEN Strength!Updated(p, i, new)
        ELSE Strength!OnAddCondition(listed, new.type)
  BY DEF Strength!AddCondition
<1>2. CASE same # {}
  <2>1. i \in same
    BY <1>2
  <2>2. DOMAIN p.conditions = 1 .. Len(p.conditions)
    BY WeightsAre, ListedAre DEF SoundPerson, Steady
  <2>3. i \in 1 .. Len(p.conditions) /\ p.conditions[i].type = new.type
    BY <2>1, <2>2
  <2> HIDE DEF i
  <2>4. SoundPerson(Strength!Updated(p, i, new), ty)
          /\ \E d \in Strength!Listed(Strength!Updated(p, i, new)) : d.type = new.type
    BY <2>3, UpdatedKeeps
  <2> QED BY <1>1, <1>2, <2>4
<1>3. CASE same = {}
  <2>1. Steady(p, ty) /\ OneSpeed(p)
    BY DEF SoundPerson
  <2>2. /\ started \in CondOf(ty) /\ started.type = new.type /\ started.look = new.look
        /\ started.delta = new.delta
    BY StartedIs
  <2>3. old \in BOOLEAN
    BY DEF Strength!Overlooked
  <2> HIDE DEF started, old
  <2>8. listed = Listing(p, new, started, old)
    BY DEF Listing
  <2> HIDE DEF listed
  <2>4. Steady(listed, ty) /\ Strength!Listed(listed) =
          Strength!Listed(p) \cup {started} /\ listed.both = (p.both \/ old)
    BY <2>1, <2>2, <2>3, <2>8, ListingKeeps
  <2>5. listed.both = (p.both \/ Strength!Overlooked(p, started.type))
    BY <2>2, <2>4 DEF old
  <2>6. /\ SoundPerson(Strength!OnAddCondition(listed, started.type), ty)
        /\ started.type = "fight"
             => started \in Strength!Listed(Strength!OnAddCondition(listed, started.type))
    BY <2>1, <2>4, <2>5, BeginningKeeps
  <2>7. Strength!AddCondition(p, new) = Strength!OnAddCondition(listed, started.type)
    BY <1>1, <1>3, <2>2
  <2> QED BY <2>2, <2>6, <2>7
<1> HIDE DEF same
<1> QED BY <1>2, <1>3

(* The same conditions, with other times.                                  *)
Timed(p, q) ==
  /\ Len(q.conditions) = Len(p.conditions)
  /\ \A i \in 1 .. Len(p.conditions) :
       /\ q.conditions[i].type = p.conditions[i].type /\ q.conditions[i].look = p.conditions[i].look
       /\ q.conditions[i].delta = p.conditions[i].delta
       /\ ~q.both /\ q.conditions[i].type \in Strength!SpeedTypes
            /\ Strength!InForce(q.conditions[i])
            => Strength!InForce(p.conditions[i])
  /\ q.speed = p.speed /\ q.skill = p.skill /\ q.current = p.current /\ q.marks = p.marks
  /\ (p.both => q.both) /\ q.stained = p.stained

LEMMA TimedKeeps ==
  ASSUME NEW ty, NEW p, SoundPerson(p, ty), NEW q \in Persons(ty), Timed(p, q)
  PROVE  SoundPerson(q, ty)
<1> DEFINE L == Len(p.conditions)
<1>1. /\ p \in Persons(ty) /\ AddsUp(p) /\ LooksExplained(p) /\ MarksExplained(p) /\ OneSpeed(p)
      /\ L \in Nat
  BY ListedAre DEF SoundPerson, Steady
<1>2. Len(q.conditions) = L
  BY DEF Timed
<1>3. \A c \in Strength!Listed(p) : \E i \in 1 .. L : p.conditions[i] = c
  BY <1>1, ListedAre
<1>4. \A c \in Strength!Listed(q) : \E i \in 1 .. L : q.conditions[i] = c
  BY <1>2, ListedAre
<1>5. \A i \in 1 .. L : p.conditions[i] \in Strength!Listed(p)
        /\ q.conditions[i] \in Strength!Listed(q)
  BY <1>1, <1>2, ListedAre
<1>6. AddsUp(q)
  <2>1. ASSUME NEW types
        PROVE  SumOf(q.conditions, types) = SumOf(p.conditions, types)
    <3> DEFINE cs == p.conditions
               cs2 == q.conditions
    <3>1. cs \in CondLists(ty) /\ cs2 \in CondLists(ty) /\ Len(cs2) =
            Len(cs) /\ 0 \in Int /\ 0 \notin 1 .. Len(cs)
      BY <1>1, <1>2, ListedAre
    <3>2. \A k \in 1 .. Len(cs) : k # 0 => Share(cs2[k], types) = Share(cs[k], types)
      BY DEF Timed, Share
    <3> HIDE DEF cs, cs2
    <3>3. SumOf(cs2, types) = SumOf(cs, types)
             + IF 0 \in 1 .. Len(cs) THEN Share(cs2[0], types) - Share(cs[0], types) ELSE 0
      BY <3>1, <3>2, SumChanges
    <3>4. SumOf(cs, types) \in Int
      <4>1. PICK c : c \in CondOf(ty) \/ Len(cs) = 0
        BY <3>1, WeightsAre
      <4> DEFINE w == Weights(cs, types)
                 n == Len(cs)
      <4>2. n \in Nat /\ Numbers(w, n) /\ 0 \in Int /\ AlikeBut(w, w, n, 0)
        BY <3>1, WeightsAre DEF AlikeBut
      <4> HIDE DEF w, n
      <4>3. Total(w, n) \in Int
        BY <4>2, TotalOfChanged
      <4> QED BY <4>3 DEF SumOf, w, n
    <3> QED BY <3>1, <3>3, <3>4 DEF cs, cs2
  <2> QED BY <1>1, <2>1 DEF AddsUp, Timed
<1> HIDE DEF L
<1>7. LooksExplained(q)
  BY <1>1, <1>3, <1>5 DEF LooksExplained, Timed, L
<1>8. MarksExplained(q)
  BY <1>1, <1>3, <1>5 DEF MarksExplained, Timed, L
<1>9. OneSpeed(q)
  <2>1. ASSUME ~q.both, NEW h \in Strength!Listed(q), NEW d \in Strength!Listed(q),
               h.type = "haste",
               d.type = "paralyze", Strength!InForce(h), Strength!InForce(d)
        PROVE  FALSE
    <3>1. PICK i \in 1 .. L : q.conditions[i] = h
      BY <1>4
    <3>2. PICK j \in 1 .. L : q.conditions[j] = d
      BY <1>4
    <3>3. /\ Strength!InForce(p.conditions[i]) /\ p.conditions[i].type =
               "haste" /\ p.conditions[i] \in Strength!Listed(p)
      BY <1>5, <2>1, <3>1 DEF Timed, L, Strength!SpeedTypes
    <3>4. /\ Strength!InForce(p.conditions[j]) /\ p.conditions[j].type =
               "paralyze" /\ p.conditions[j] \in Strength!Listed(p)
      BY <1>5, <2>1, <3>2 DEF Timed, L, Strength!SpeedTypes
    <3> QED BY <1>1, <2>1, <3>3, <3>4 DEF OneSpeed, Timed
  <2> QED BY <2>1 DEF OneSpeed
<1> QED BY <1>6, <1>7, <1>8, <1>9 DEF SoundPerson, Steady

(* Other marks, explained by a fight.                                      *)
LEMMA MarkedKeeps ==
  ASSUME NEW ty, NEW p, SoundPerson(p, ty), NEW marked \in SUBSET Marked,
         marked # {} => \E c \in Strength!Listed(p) : c.type = "fight"
  PROVE  /\ SoundPerson([p EXCEPT !.marks = marked], ty)
         /\ Strength!Listed([p EXCEPT !.marks = marked]) = Strength!Listed(p)
<1> DEFINE q == [p EXCEPT !.marks = marked]
<1>1. p \in Persons(ty) /\ AddsUp(p) /\ LooksExplained(p) /\ MarksExplained(p) /\ OneSpeed(p)
  BY DEF SoundPerson, Steady
<1>2. /\ q \in Persons(ty) /\ q.conditions = p.conditions /\ q.speed = p.speed /\ q.skill = p.skill
      /\ q.current = p.current /\ q.marks = marked /\ q.both = p.both /\ q.stained = p.stained
  BY <1>1 DEF Persons
<1> HIDE DEF q
<1>3. Strength!Listed(q) = Strength!Listed(p)
  BY <1>2 DEF Strength!Listed
<1>4. AddsUp(q) /\ LooksExplained(q) /\ MarksExplained(q) /\ OneSpeed(q)
  BY <1>1, <1>2, <1>3 DEF AddsUp, LooksExplained, MarksExplained, OneSpeed
<1> QED BY <1>2, <1>3, <1>4 DEF SoundPerson, Steady, q

LEMMA KeptIsSound ==
  ASSUME NEW ty, NEW p, SoundPerson(p, ty), NEW stay, x4 \in AnyLook
  PROVE  SoundPerson(Strength!Kept(p, stay), ty)
<1>1. Steady(p, ty) /\ OneSpeed(p)
  BY DEF SoundPerson
<1>2. /\ Steady(Strength!Kept(p, stay), ty)
           /\ Strength!Listed(Strength!Kept(p, stay)) \subseteq Strength!Listed(p) \cap stay
      /\ Strength!Kept(p, stay).both = p.both
  BY <1>1, KeptKeeps
<1> QED BY <1>1, <1>2 DEF SoundPerson, OneSpeed

(* What is loaded is added to nothing.                                     *)
Unloaded ==
  [conditions |-> <<>>, speed |-> 0, skill |-> 0, current |-> x4,
   marks |-> {}, both |-> FALSE, stained |-> FALSE]
LoadedOne(q, c) == IF Strength!Persistent(c) THEN Strength!AddCondition(q, c) ELSE q
Loading(f, cs, n) ==
  f = [k \in 0 .. n |-> IF k = 0 THEN Unloaded ELSE LoadedOne(f[k - 1], cs[k])]

LEMMA LoadingExists ==
  ASSUME NEW cs, NEW n \in Nat
  PROVE  \E f : Loading(f, cs, n)
<1> DEFINE Bad == {m \in Nat : ~\E f : Loading(f, cs, m)}
           Next1(q, k) == LoadedOne(q, cs[k])
<1>1. ASSUME Bad # {} PROVE FALSE
  <2>1. PICK m \in Bad : \A l \in Bad : m <= l
    BY <1>1, LeastNumber
  <2> HIDE DEF Next1
  <2>2. CASE m = 0
    <3> DEFINE f == [k \in 0 .. 0 |-> Unloaded]
    <3>1. Loading(f, cs, 0)
      BY DEF Loading
    <3> QED BY <2>1, <2>2, <3>1
  <2>3. CASE m # 0
    <3>1. m \in Nat /\ m - 1 \in Nat /\ ~(m <= m - 1)
      BY <2>1, <2>3
    <3>2. PICK g : Loading(g, cs, m - 1)
      BY <2>1, <3>1
    <3> DEFINE last == Next1(g[m - 1], m)
               f == [k \in 0 .. m |-> IF k = m THEN last ELSE g[k]]
    <3>3. \A k \in 0 .. m - 1 : g[k] = IF k = 0 THEN Unloaded ELSE Next1(g[k - 1], k)
      BY <3>2 DEF Loading, Next1
    <3> HIDE DEF last
    <3>4. (\A k \in 0 .. m - 1 : f[k] = g[k]) /\ f[m] = last
      BY <3>1
    <3>5. f = [k \in 0 .. m |-> f[k]]
      OBVIOUS
    <3> HIDE DEF f
    <3>6. ASSUME NEW k \in 0 .. m PROVE f[k] = IF k = 0 THEN Unloaded ELSE Next1(f[k - 1], k)
      <4>1. CASE k = m
        <5>1. m - 1 \in 0 .. m - 1
          BY <3>1
        <5> QED BY <2>3, <3>4, <4>1, <5>1 DEF last
      <4>2. CASE k # m
        <5>1. k \in 0 .. m - 1 /\ (k # 0 => k - 1 \in 0 .. m - 1)
          BY <3>1, <4>2
        <5> QED BY <3>3, <3>4, <5>1
      <4> QED BY <4>1, <4>2
    <3>7. Loading(f, cs, m)
      BY <3>5, <3>6, Zenon DEF Loading, Next1
    <3> QED BY <2>1, <3>7
  <2> QED BY <2>2, <2>3
<1> QED BY <1>1

-----------------------------------------------------------------------------
(* The invariant, and the steps.                                           *)
CondInv(ty, looks) ==
  /\ x4 \in looks /\ looks \subseteq AnyLook
  /\ x7 \subseteq ty /\ x8 \in BOOLEAN
  /\ SoundPerson(Strength!Player, ty)

LEMMA PersonIs ==
  ASSUME NEW p, Strength!Become(p), NEW ty, p \in Persons(ty)
  PROVE  Strength!Player' = p
<1>1. /\ x1' = p.conditions /\ x2' = p.speed /\ x3' = p.skill
      /\ x5' = p.current /\ x6' = p.marks /\ x9' = p.both /\ x10' = p.stained
  BY DEF Strength!Become
<1>2. p = [conditions |-> p.conditions, speed |-> p.speed, skill |-> p.skill,
           current |-> p.current, marks |-> p.marks, both |-> p.both, stained |-> p.stained]
  BY DEF Persons
<1>3. Strength!Player' = [conditions |-> x1', speed |-> x2', skill |-> x3',
                 current |-> x5', marks |-> x6', both |-> x9', stained |-> x10']
  BY DEF Strength!Player
<1> QED BY <1>1, <1>2, <1>3

LEMMA BecomingKeeps ==
  ASSUME NEW ty, NEW looks, NEW p, Strength!Become(p), SoundPerson(p, ty), CondInv(ty, looks),
         x4' = x4, x7' = x7, x8' \in BOOLEAN
  PROVE  CondInv(ty, looks)'
<1>1. Strength!Player' = p
  BY PersonIs DEF SoundPerson, Steady
<1>2. SoundPerson(Strength!Player, ty)'
  BY <1>1 DEF SoundPerson, Steady, AddsUp, LooksExplained, MarksExplained, OneSpeed, Strength!Listed
<1> QED BY <1>2 DEF CondInv

LEMMA KeepingSomeKeeps ==
  ASSUME NEW ty, NEW looks, CondInv(ty, looks), NEW stay,
         Strength!Become(Strength!Kept(Strength!Player, stay)),
         UNCHANGED <<x4, x7, x8>>
  PROVE  CondInv(ty, looks)'
<1>1. SoundPerson(Strength!Player, ty) /\ x4 \in AnyLook
  BY DEF CondInv
<1>2. SoundPerson(Strength!Kept(Strength!Player, stay), ty)
  BY <1>1, KeptIsSound
<1>3. x8' \in BOOLEAN
  BY DEF CondInv
<1> QED BY <1>2, <1>3, BecomingKeeps

LEMMA CastKeeps ==
  ASSUME NEW ty, NEW looks, CondInv(ty, looks), NEW new, Fits(new, ty), Strength!Cast(new)
  PROVE  CondInv(ty, looks)'
<1>1. SoundPerson(Strength!Player, ty) /\ x4 \in AnyLook
  BY DEF CondInv
<1>2. SoundPerson(Strength!AddCondition(Strength!Player, new), ty)
  BY <1>1, AddKeeps
<1>3. /\ Strength!Become(Strength!AddCondition(Strength!Player, new)) /\ x4' = x4
      /\ x7' = x7 /\ x8' \in BOOLEAN
  BY DEF Strength!Cast, CondInv
<1> QED BY <1>2, <1>3, BecomingKeeps

LEMMA RemoveKeeps ==
  ASSUME NEW ty, NEW looks, CondInv(ty, looks), NEW type,
         Strength!RemoveCondition(type) \/ Strength!RemoveItemCondition(type)
  PROVE  CondInv(ty, looks)'
<1>1. CASE Strength!RemoveCondition(type)
  <2> DEFINE stay == {c \in Strength!Listed(Strength!Player) : c.type # type}
  <2>1. Strength!Become(Strength!Kept(Strength!Player, stay)) /\ UNCHANGED <<x4, x7, x8>>
    BY <1>1 DEF Strength!RemoveCondition, Strength!WithoutType
  <2> HIDE DEF stay
  <2> QED BY <2>1, KeepingSomeKeeps
<1>2. CASE Strength!RemoveItemCondition(type)
  <2> DEFINE stay == {c \in Strength!Listed(Strength!Player) : c.type # type \/ c.id # "item"}
  <2>1. Strength!Become(Strength!Kept(Strength!Player, stay)) /\ UNCHANGED <<x4, x7, x8>>
    BY <1>2 DEF Strength!RemoveItemCondition
  <2> HIDE DEF stay
  <2> QED BY <2>1, KeepingSomeKeeps
<1> QED BY <1>1, <1>2

(* With other times the conditions are still conditions.                   *)
Retimed(p, cs, b) == [p EXCEPT !.conditions = cs, !.both = b]
SameBut(d, c, b, ty) ==
  /\ d \in CondOf(ty) /\ d.type = c.type /\ d.look = c.look /\ d.delta = c.delta
  /\ ~b /\ d.type \in Strength!SpeedTypes /\ Strength!InForce(d) => Strength!InForce(c)
AllSameBut(cs, p, b, ty) ==
  /\ cs = [i \in DOMAIN p.conditions |-> cs[i]]
  /\ \A i \in 1 .. Len(p.conditions) : SameBut(cs[i], p.conditions[i], b, ty)

LEMMA RetimedIs ==
  ASSUME NEW ty, NEW p \in Persons(ty), NEW cs, NEW b \in BOOLEAN, AllSameBut(cs, p, b, ty)
  PROVE  /\ Retimed(p, cs, b) \in Persons(ty) /\ Retimed(p, cs, b).conditions = cs
         /\ Len(cs) = Len(p.conditions)
         /\ Retimed(p, cs, b).speed = p.speed /\ Retimed(p, cs, b).skill = p.skill
         /\ Retimed(p, cs, b).current = p.current /\ Retimed(p, cs, b).marks = p.marks
         /\ Retimed(p, cs, b).both = b /\ Retimed(p, cs, b).stained = p.stained
<1> DEFINE L == Len(p.conditions)
           q == [p EXCEPT !.conditions = cs, !.both = b]
           C == CondOf(ty)
<1>1. L \in Nat /\ DOMAIN p.conditions = 1 .. L
  BY ListedAre, WeightsAre
<1>2. cs = [i \in 1 .. L |-> cs[i]] /\ \A i \in 1 .. L : cs[i] \in C
  BY <1>1 DEF AllSameBut, SameBut
<1> HIDE DEF L, C
<1>3. cs \in Seq(C) /\ Len(cs) = L
  BY <1>1, <1>2
<1>4. cs \in CondLists(ty)
  BY <1>3 DEF CondLists, C
<1>5. /\ q \in Persons(ty) /\ q.conditions = cs
      /\ q.speed = p.speed /\ q.skill = p.skill /\ q.current = p.current /\ q.marks = p.marks
      /\ q.both = b /\ q.stained = p.stained
  BY <1>4 DEF Persons
<1>6. Retimed(p, cs, b) = q
  BY DEF Retimed
<1> HIDE DEF q
<1> QED BY <1>3, <1>5, <1>6 DEF L

LEMMA RetimingKeeps ==
  ASSUME NEW ty, NEW p, SoundPerson(p, ty), NEW cs, NEW b \in BOOLEAN, p.both => b,
         AllSameBut(cs, p, b, ty)
  PROVE  SoundPerson(Retimed(p, cs, b), ty)
<1> DEFINE q == Retimed(p, cs, b)
<1>1. p \in Persons(ty)
  BY DEF SoundPerson, Steady
<1>2. /\ q \in Persons(ty) /\ q.conditions = cs /\ Len(cs) = Len(p.conditions)
      /\ q.speed = p.speed /\ q.skill = p.skill
      /\ q.current = p.current /\ q.marks = p.marks
      /\ q.both = b /\ q.stained = p.stained
  BY <1>1, RetimedIs
<1> HIDE DEF q
<1>3. Timed(p, q)
  BY <1>2 DEF Timed, AllSameBut, SameBut
<1>4. SoundPerson(q, ty)
  BY <1>2, <1>3, TimedKeeps
<1> QED BY <1>4 DEF q

LEMMA PlayerIs ==
  ASSUME NEW ty, NEW looks, CondInv(ty, looks)
  PROVE  /\ Strength!Player \in Persons(ty) /\ Strength!Player.conditions =
              x1 /\ Strength!Player.speed = x2
         /\ Strength!Player.skill = x3 /\ Strength!Player.current = x5 /\ Strength!Player.marks = x6
         /\ Strength!Player.both = x9 /\ Strength!Player.stained = x10 /\ x9 \in BOOLEAN
         /\ DOMAIN x1 = 1 .. Len(x1) /\ Len(x1) \in Nat
         /\ \A i \in 1 .. Len(x1) : x1[i] \in CondOf(ty)
         /\ SoundPerson(Strength!Player, ty) /\ x4 \in AnyLook
<1>1. Strength!Player \in Persons(ty) /\ SoundPerson(Strength!Player, ty) /\ x4 \in AnyLook
  BY DEF CondInv, SoundPerson, Steady
<1>2. /\ Strength!Player.conditions = x1 /\ Strength!Player.speed = x2
      /\ Strength!Player.skill = x3 /\ Strength!Player.current = x5 /\ Strength!Player.marks = x6
      /\ Strength!Player.both = x9 /\ Strength!Player.stained = x10
  BY DEF Strength!Player
<1>3. x9 \in BOOLEAN /\ x1 \in CondLists(ty)
  BY <1>1, <1>2 DEF Persons
<1>4. DOMAIN x1 = 1 .. Len(x1) /\ Len(x1) \in Nat
      /\ \A i \in 1 .. Len(x1) : x1[i] \in CondOf(ty)
  BY <1>3, WeightsAre
<1> QED BY <1>1, <1>2, <1>3, <1>4

LEMMA TimePassesKeeps ==
  ASSUME NEW ty, NEW looks, CondInv(ty, looks), Strength!TimePasses
  PROVE  CondInv(ty, looks)'
<1> DEFINE OneLater(c) == [c EXCEPT !.left = IF @ > Strength!Past THEN @ - 1 ELSE @]
           cs == [i \in DOMAIN x1 |-> OneLater(x1[i])]
           q == Retimed(Strength!Player, cs, x9)
<1>1. ASSUME NEW c \in CondOf(ty) PROVE SameBut(OneLater(c), c, x9, ty)
  <2> DEFINE less == IF c.left > Strength!Past THEN c.left - 1 ELSE c.left
             d == [c EXCEPT !.left = less]
  <2>1. less \in Nat \cup {Strength!Past, Strength!Unset}
          /\ (less = Strength!Unset <=> c.left = Strength!Unset) /\ (less >= 0 => c.left >= 0)
    BY DEF CondOf, Strength!Past, Strength!Unset
  <2> HIDE DEF less
  <2>2. /\ d \in CondOf(ty) /\ d.type = c.type /\ d.look = c.look /\ d.delta = c.delta
        /\ d.ticks = c.ticks /\ d.left = less
    BY <2>1 DEF CondOf
  <2>3. OneLater(c) = d
    BY DEF less
  <2> HIDE DEF d, OneLater
  <2> QED BY <2>1, <2>2, <2>3 DEF SameBut, Strength!InForce
<1> HIDE DEF OneLater
<1>2. /\ Strength!Player.conditions = x1 /\ Strength!Player.both = x9 /\ x9 \in BOOLEAN
      /\ DOMAIN x1 =
           1 .. Len(x1) /\ Strength!Player \in Persons(ty) /\ SoundPerson(Strength!Player, ty)
      /\ \A i \in 1 .. Len(x1) : x1[i] \in CondOf(ty)
  BY PlayerIs
<1>3. AllSameBut(cs, Strength!Player, x9, ty)
  BY <1>1, <1>2 DEF AllSameBut
<1>4. Strength!TimePasses => x1' = cs
  BY DEF Strength!TimePasses, OneLater
<1> HIDE DEF cs
<1>5. SoundPerson(q, ty)
  BY <1>2, <1>3, RetimingKeeps
<1>6. Strength!Become(q)
  <2>1. /\ q.conditions = cs /\ q.speed = Strength!Player.speed /\ q.skill = Strength!Player.skill
        /\ q.current = Strength!Player.current /\ q.marks = Strength!Player.marks
        /\ q.both = x9 /\ q.stained = Strength!Player.stained
    BY <1>2, <1>3, RetimedIs
  <2> HIDE DEF q
  <2> QED BY <1>4, <2>1, PlayerIs DEF Strength!Become, Strength!TimePasses
<1> HIDE DEF q
<1> QED BY <1>5, <1>6, BecomingKeeps DEF Strength!TimePasses

LEMMA ExecuteKeeps ==
  ASSUME NEW ty, NEW looks, CondInv(ty, looks), Strength!ExecuteConditions
  PROVE  CondInv(ty, looks)'
<1> DEFINE Worn(c) == [c EXCEPT !.ticks = IF @ > 0 THEN @ - 1 ELSE @]
           cs == [i \in DOMAIN x1 |-> Worn(x1[i])]
           q == Retimed(Strength!Player, cs, x9)
           spent == [Strength!Player EXCEPT !.conditions = [i \in DOMAIN @ |-> Worn(@[i])]]
           stay == {c \in Strength!Listed(spent) : c.ticks = -1 \/ c.left >= 0}
<1>1. ASSUME NEW c \in CondOf(ty) PROVE SameBut(Worn(c), c, x9, ty)
  <2> DEFINE less == IF c.ticks > 0 THEN c.ticks - 1 ELSE c.ticks
             d == [c EXCEPT !.ticks = less]
  <2>1. less \in Nat \cup {-1} /\ (less = -1 <=> c.ticks = -1)
    BY DEF CondOf
  <2> HIDE DEF less
  <2>2. /\ d \in [type : ty, id : Strength!ConditionIds, ticks : Nat \cup {-1}, delta : Int, look :
             AnyLook,
                  left : Nat \cup {Strength!Past, Strength!Unset}]
        /\ d.type = c.type /\ d.look = c.look /\ d.delta = c.delta
        /\ d.ticks = less /\ d.left = c.left
    BY <2>1 DEF CondOf
  <2>3. Worn(c) = d
    BY DEF less
  <2> HIDE DEF d, Worn
  <2> QED BY <2>1, <2>2, <2>3 DEF SameBut, Strength!InForce, CondOf
<1>2. /\ Strength!Player.conditions = x1 /\ Strength!Player.both = x9 /\ x9 \in BOOLEAN
      /\ DOMAIN x1 =
           1 .. Len(x1) /\ Strength!Player \in Persons(ty) /\ SoundPerson(Strength!Player, ty)
      /\ \A i \in 1 .. Len(x1) : x1[i] \in CondOf(ty)
  BY PlayerIs
<1>3. /\ Strength!Become(Strength!Kept(spent, stay)) /\ x4' = x4
      /\ x7' = x7 /\ x8' \in BOOLEAN
  <2>1. Strength!Become(Strength!Kept(spent, stay))
    BY Zenon DEF Strength!ExecuteConditions
  <2> QED BY <2>1 DEF Strength!ExecuteConditions
<1> HIDE DEF Worn
<1>4. AllSameBut(cs, Strength!Player, x9, ty)
  BY <1>1, <1>2 DEF AllSameBut
<1> HIDE DEF stay
<1>5. spent = [Strength!Player EXCEPT !.conditions = cs]
  BY <1>2
<1> HIDE DEF cs, spent
<1>6. spent = q
  BY <1>2, <1>5 DEF Retimed, Persons
<1>7. SoundPerson(q, ty)
  BY <1>2, <1>4, RetimingKeeps
<1>8. SoundPerson(Strength!Kept(spent, stay), ty)
  <2>1. x4 \in AnyLook
    BY PlayerIs
  <2> QED BY <1>6, <1>7, <2>1, KeptIsSound
<1> QED BY <1>3, <1>8, BecomingKeeps

LEMMA DispelKeeps ==
  ASSUME NEW ty, NEW looks, CondInv(ty, looks), NEW type, Strength!Dispel(type)
  PROVE  CondInv(ty, looks)'
<1> DEFINE Hit(c) == c.type = type /\ c.id # "item"
           stay == {c \in Strength!Listed(Strength!Player) : ~Hit(c)}
           Put(delay, c) == IF Hit(c) THEN Strength!SetTicks(c, delay) ELSE c
           flag(delay) == x9 \/ \E c \in Strength!Listed(Strength!Player) :
             Strength!Revives(c, Put(delay, c))
           put(delay) == [Strength!Player EXCEPT
                           !.conditions = [i \in DOMAIN @ |-> Put(delay, @[i])],
                           !.both = @ \/ \E c \in Strength!Listed(Strength!Player) :
                             Strength!Revives(c, Put(delay, c))]
<1>1. /\ Strength!Player.conditions = x1 /\ Strength!Player.both = x9 /\ x9 \in BOOLEAN
      /\ DOMAIN x1 =
           1 .. Len(x1) /\ Strength!Player \in Persons(ty) /\ SoundPerson(Strength!Player, ty)
      /\ \A i \in 1 .. Len(x1) : x1[i] \in CondOf(ty)
  BY PlayerIs
<1>2. Strength!Become(Strength!Kept(Strength!Player, stay)) \/ \E delay \in 0 .. 1 :
        Strength!Become(put(delay))
  BY Zenon DEF Strength!Dispel
<1>3. /\ x4' = x4 /\ x7' = x7
      /\ x8' \in BOOLEAN /\ x8' = x8
  BY DEF Strength!Dispel, CondInv
<1>4. CASE Strength!Become(Strength!Kept(Strength!Player, stay))
  <2> HIDE DEF stay, put
  <2> QED BY <1>3, <1>4, KeepingSomeKeeps
<1>5. ASSUME NEW delay \in 0 .. 1, Strength!Become(put(delay)) PROVE CondInv(ty, looks)'
  <2> DEFINE cs == [i \in DOMAIN x1 |-> Put(delay, x1[i])]
             b == flag(delay)
             q == Retimed(Strength!Player, cs, b)
  <2>1. b \in BOOLEAN /\ (Strength!Player.both => b)
    BY <1>1
  <2>2. ASSUME NEW i \in 1 .. Len(x1) PROVE SameBut(Put(delay, x1[i]), x1[i], b, ty)
    <3> DEFINE c == x1[i]
               left == IF delay > 0 THEN delay ELSE c.left
               d == [c EXCEPT !.ticks = delay, !.left = left]
    <3>1. c \in CondOf(ty) /\ c \in Strength!Listed(Strength!Player)
      BY <1>1, ListedAre
    <3>2. left \in Nat \cup {Strength!Past, Strength!Unset} /\ delay \in Nat \cup {-1} /\ delay # -1
      BY <3>1 DEF CondOf
    <3>3. Strength!SetTicks(c, delay) = d
      BY DEF Strength!SetTicks
    <3>4. ~b => ~Strength!Revives(c, Put(delay, c))
      BY <3>1
    <3> HIDE DEF c, left, b, flag
    <3>5. d \in CondOf(ty) /\ d.type = c.type /\ d.look = c.look /\ d.delta = c.delta
      BY <3>1, <3>2 DEF CondOf
    <3> HIDE DEF d
    <3>6. Put(delay, c) = c \/ Put(delay, c) = d
      BY <3>3
    <3> HIDE DEF Put
    <3>7. SameBut(Put(delay, c), c, b, ty)
      BY <3>1, <3>4, <3>5, <3>6 DEF SameBut, Strength!Revives
    <3> QED BY <3>7 DEF c
  <2> HIDE DEF Put
  <2>3. AllSameBut(cs, Strength!Player, b, ty)
    <3> HIDE DEF b
    <3> QED BY <1>1, <2>2 DEF AllSameBut
  <2>4. put(delay) = q
    BY <1>1 DEF Retimed
  <2> HIDE DEF cs, b, put
  <2>5. SoundPerson(q, ty)
    BY <1>1, <2>1, <2>3, RetimingKeeps
  <2> HIDE DEF q
  <2>6. Strength!Become(q)
    BY <1>5, <2>4
  <2> QED BY <1>3, <2>5, <2>6, BecomingKeeps
<1> QED BY <1>2, <1>4, <1>5

LEMMA SuppressKeeps ==
  ASSUME NEW ty, NEW looks, CondInv(ty, looks), NEW types, types \subseteq ty,
         Strength!SetSuppressions(types)
  PROVE  CondInv(ty, looks)'
<1>1. /\ x7' = types /\ x4' = x4 /\ x8' = x8
      /\ Strength!Become(Strength!Player)
  BY DEF Strength!SetSuppressions, Strength!Become, Strength!Player
<1>2. Strength!Player' = Strength!Player
  BY DEF Strength!SetSuppressions, Strength!Player
<1>3. SoundPerson(Strength!Player, ty)'
  BY <1>1, <1>2 DEF CondInv, SoundPerson, Steady, AddsUp, LooksExplained, MarksExplained, OneSpeed,
    Strength!Listed
<1> QED BY <1>1, <1>3 DEF CondInv

(* Who wears an outfit that a condition brings has an outfit to come back  *)
(* to.                                                                     *)
LEMMA ChangeLookKeeps ==
  ASSUME NEW ty, NEW looks, CondInv(ty, looks), NEW look \in looks, Strength!ChangeOutfit(look)
  PROVE  CondInv(ty, looks)'
<1>1. /\ Strength!Player.conditions = x1 /\ Strength!Player.current = x5
      /\ Strength!Player \in Persons(ty) /\ SoundPerson(Strength!Player, ty)
  BY PlayerIs
<1>2. /\ AddsUp(Strength!Player) /\ LooksExplained(Strength!Player)
           /\ MarksExplained(Strength!Player) /\ OneSpeed(Strength!Player)
  BY <1>1 DEF SoundPerson, Steady
<1> DEFINE seen == IF Strength!HasCondition(Strength!Player, "outfit") THEN x5 ELSE look
           q == [Strength!Player EXCEPT !.current = seen]
<1>3. /\ x4' = look /\ x7' = x7 /\ x8' = x8 /\ x5' = seen
      /\ x1' = x1 /\ x2' = x2 /\ x3' = x3 /\ x6' = x6
      /\ x9' = x9 /\ x10' = x10
  BY DEF Strength!ChangeOutfit
<1>4. look \in AnyLook
  BY DEF CondInv
<1>5. Strength!HasCondition(Strength!Player, "outfit")
        => \E c \in Strength!Listed(Strength!Player) : c.look # None
  <2>1. \A c \in Strength!Listed(Strength!Player) : c.type = "outfit" => c.look # None
    BY <1>1, ListedAre DEF CondOf
  <2> QED BY <2>1 DEF Strength!HasCondition
<1>6. seen \in AnyLook /\ (seen # look => \E c \in Strength!Listed(Strength!Player) : c.look # None)
  BY <1>1, <1>4, <1>5 DEF Persons
<1> HIDE DEF seen
<1>7. /\ q \in Persons(ty) /\ q.conditions = Strength!Player.conditions /\ q.speed =
           Strength!Player.speed
      /\ q.skill = Strength!Player.skill /\ q.current = seen /\ q.marks = Strength!Player.marks
      /\ q.both = Strength!Player.both /\ q.stained = Strength!Player.stained
  BY <1>1, <1>6 DEF Persons
<1> HIDE DEF q
<1>8. Strength!Listed(q) = Strength!Listed(Strength!Player)
  BY <1>7 DEF Strength!Listed
<1>9. Strength!Become(q)
  BY <1>3, <1>7, PlayerIs DEF Strength!Become
<1>10. Strength!Player' = q
  BY <1>7, <1>9, PersonIs
<1>11. AddsUp(q) /\ MarksExplained(q) /\ OneSpeed(q)
  BY <1>2, <1>7, <1>8 DEF AddsUp, MarksExplained, OneSpeed
<1>12. SoundPerson(Strength!Player, ty)'
  BY <1>3, <1>6, <1>7, <1>8, <1>10, <1>11
  DEF SoundPerson, Steady, AddsUp, LooksExplained, MarksExplained, OneSpeed, Strength!Listed
<1> QED BY <1>3, <1>12 DEF CondInv

LEMMA FightFits ==
  ASSUME NEW ty, "fight" \in ty
  PROVE  /\ Fits(Strength!Fight, ty) /\ Fits([Strength!Fight EXCEPT !.ticks = FightTime + 1], ty)
         /\ Strength!Fight.type = "fight" /\ [Strength!Fight EXCEPT !.ticks = FightTime + 1].type =
              "fight"
<1>1. FightTime \in Nat /\ FightTime + 1 \in Nat
  BY ConditionIsAssumed DEF Strength!ConditionAssumption
<1> QED BY <1>1 DEF Fits, Strength!Fight, Strength!ConditionIds, AnyLook

LEMMA AttackKeeps ==
  ASSUME NEW ty, NEW looks, CondInv(ty, looks), "fight" \in ty, Strength!AttackPlayer
  PROVE  CondInv(ty, looks)'
<1> DEFINE p == Strength!AddCondition(Strength!Player, Strength!Fight)
           q(gained) == [p EXCEPT !.marks = @ \cup gained]
<1>1. SoundPerson(Strength!Player, ty) /\ x4 \in AnyLook
  BY PlayerIs
<1>2. SoundPerson(p, ty) /\ \E c \in Strength!Listed(p) : c.type = "fight"
  BY <1>1, FightFits, AddKeeps
<1>3. PICK gained \in {{}, {"attacked"}, {"attacked", "locked"}, {"attacked", "locked", "white"}} :
        Strength!Become(q(gained))
  BY Zenon DEF Strength!AttackPlayer
<1>4. x4' = x4 /\ x7' = x7 /\ x8' \in BOOLEAN
  BY DEF Strength!AttackPlayer, CondInv
<1> DEFINE marked == p.marks \cup gained
           r == [p EXCEPT !.marks = marked]
<1> HIDE DEF p
<1>5. marked \in SUBSET Marked
  <2>1. p.marks \in SUBSET Marked
    BY <1>2 DEF SoundPerson, Steady, Persons
  <2> QED BY <2>1 DEF Marked
<1>6. q(gained) = r
  OBVIOUS
<1> HIDE DEF marked, q
<1>7. SoundPerson(r, ty)
  BY <1>2, <1>5, MarkedKeeps
<1> HIDE DEF r
<1> QED BY <1>3, <1>4, <1>6, <1>7, BecomingKeeps

LEMMA KillKeeps ==
  ASSUME NEW ty, NEW looks, CondInv(ty, looks), Strength!KillPlayer
  PROVE  CondInv(ty, looks)'
<1> DEFINE marked == Strength!Player.marks \cup {"locked"}
           q == [Strength!Player EXCEPT !.marks = marked]
           longer == [Strength!Fight EXCEPT !.ticks = FightTime + 1]
           r == Strength!AddCondition(q, longer)
<1>1. SoundPerson(Strength!Player, ty) /\ x4 \in AnyLook /\ Strength!Player \in Persons(ty)
  BY PlayerIs
<1>2. PICK c \in Strength!Listed(Strength!Player) : c.type = "fight"
  BY DEF Strength!KillPlayer, Strength!HasCondition
<1>3. "fight" \in ty
  BY <1>1, <1>2, ListedAre DEF CondOf
<1>4. marked \in SUBSET Marked
  BY <1>1 DEF Persons, Marked
<1>5. Strength!Become(r)
  BY DEF Strength!KillPlayer
<1>6. x4' = x4 /\ x7' = x7 /\ x8' \in BOOLEAN
  BY DEF Strength!KillPlayer, CondInv
<1> HIDE DEF marked
<1>7. SoundPerson(q, ty)
  BY <1>1, <1>2, <1>4, MarkedKeeps
<1>8. Fits(longer, ty)
  BY <1>3, FightFits
<1> HIDE DEF q, longer
<1>9. SoundPerson(r, ty)
  BY <1>1, <1>7, <1>8, AddKeeps
<1> HIDE DEF r
<1> QED BY <1>5, <1>6, <1>9, BecomingKeeps

LEMMA DieKeeps ==
  ASSUME NEW ty, NEW looks, CondInv(ty, looks), Strength!DieInArena
  PROVE  CondInv(ty, looks)'
<1> DEFINE stay == {c \in Strength!Listed(Strength!Player) : ~Strength!Persistent(c)}
           p == Strength!Kept(Strength!Player, stay)
           marked == p.marks \ {"locked"}
           q == [p EXCEPT !.marks = marked]
<1>1. SoundPerson(Strength!Player, ty) /\ x4 \in AnyLook
  BY PlayerIs
<1>2. Strength!Become(q) /\ x4' = x4 /\ x7' = x7 /\ x8' \in BOOLEAN
  BY DEF Strength!DieInArena, CondInv
<1> HIDE DEF stay
<1>3. SoundPerson(p, ty)
  BY <1>1, KeptIsSound
<1> HIDE DEF p
<1>4. marked \in SUBSET Marked /\ (marked # {} => \E c \in Strength!Listed(p) : c.type = "fight")
  BY <1>3 DEF SoundPerson, Steady, Persons, MarksExplained
<1> HIDE DEF marked
<1>5. SoundPerson(q, ty)
  BY <1>3, <1>4, MarkedKeeps
<1> HIDE DEF q
<1> QED BY <1>2, <1>5, BecomingKeeps

LEMMA UnloadedIsSound ==
  ASSUME NEW ty, x4 \in AnyLook
  PROVE  SoundPerson(Unloaded, ty)
<1> DEFINE none == <<>>
           q == [conditions |-> none, speed |-> 0, skill |-> 0, current |-> x4,
                 marks |-> {}, both |-> FALSE, stained |-> FALSE]
<1>1. none \in CondLists(ty) /\ DOMAIN none = {}
  BY DEF CondLists
<1>2. SumOf(none, Strength!SpeedTypes) = 0 /\ SumOf(none, {"attributes"}) = 0
  BY SumOfNone
<1>3. Unloaded = q
  BY DEF Unloaded
<1> HIDE DEF none
<1>4. /\ q \in Persons(ty) /\ q.conditions = none /\ q.speed = 0 /\ q.skill = 0
      /\ q.current = x4 /\ q.marks = {}
  BY <1>1 DEF Persons
<1> HIDE DEF q
<1>5. Strength!Listed(q) = {}
  BY <1>1, <1>4 DEF Strength!Listed
<1> QED BY <1>2, <1>3, <1>4, <1>5
        DEF SoundPerson, Steady, AddsUp, LooksExplained, MarksExplained, OneSpeed

LEMMA LoadedIsSound ==
  ASSUME NEW ty, NEW looks, CondInv(ty, looks), NEW loaded, NEW L, L = Len(x1),
         Loading(loaded, x1, L)
  PROVE  SoundPerson(loaded[L], ty)
<1> DEFINE Bad == {k \in 0 .. L : ~SoundPerson(loaded[k], ty)}
<1>1. /\ L \in Nat /\ x4 \in AnyLook
      /\ \A i \in 1 .. L : x1[i] \in CondOf(ty)
  BY PlayerIs
<1>2. Loading(loaded, x1, L)
  OBVIOUS
<1>3. \A k \in 0 .. L : loaded[k] = IF k = 0 THEN Unloaded ELSE LoadedOne(loaded[k - 1], x1[k])
  BY <1>2, Zenon DEF Loading
<1>4. ASSUME Bad # {} PROVE FALSE
  <2>1. Bad \subseteq Nat
    BY <1>1
  <2>2. PICK k \in Bad : \A l \in Bad : k <= l
    BY <1>4, <2>1, LeastNumber
  <2>3. k \in 0 .. L /\ ~SoundPerson(loaded[k], ty)
    BY <2>2
  <2>4. k # 0
    BY <1>1, <1>3, <2>3, UnloadedIsSound
  <2>5. k - 1 \in 0 .. L /\ ~(k <= k - 1) /\ k \in 1 .. L
    BY <1>1, <2>3, <2>4
  <2>6. SoundPerson(loaded[k - 1], ty)
    BY <2>2, <2>5
  <2> DEFINE c == x1[k]
             q == loaded[k - 1]
  <2>7. c \in CondOf(ty)
    BY <1>1, <2>5
  <2> HIDE DEF c
  <2>8. Fits(c, ty)
    BY <2>7 DEF Fits, CondOf
  <2>9. loaded[k] = IF Strength!Persistent(c) THEN Strength!AddCondition(q, c) ELSE q
    BY <1>3, <2>3, <2>4 DEF LoadedOne, c
  <2> HIDE DEF q
  <2>10. SoundPerson(q, ty)
    BY <2>6 DEF q
  <2>11. SoundPerson(Strength!AddCondition(q, c), ty)
    BY <1>1, <2>8, <2>10, AddKeeps
  <2> QED BY <2>3, <2>9, <2>10, <2>11
<1>5. SoundPerson(loaded[L], ty)
  BY <1>1, <1>4
<1> QED BY <1>5

LEMMA CondRelogKeeps ==
  ASSUME NEW ty, NEW looks, CondInv(ty, looks), Strength!Relog
  PROVE  CondInv(ty, looks)'
<1> DEFINE L == Len(x1)
           loaded == CHOOSE f : f = [k \in 0 .. L |->
             IF k = 0
               THEN [conditions |-> <<>>, speed |-> 0, skill |-> 0, current |-> x4,
                     marks |-> {}, both |-> FALSE, stained |-> FALSE]
             ELSE IF Strength!Persistent(x1[k]) THEN Strength!AddCondition(f[k - 1], x1[k])
             ELSE f[k - 1]]
<1>1. Strength!Become(loaded[L])
  BY Zenon DEF Strength!Relog
<1>2. /\ L \in Nat /\ x4 \in AnyLook
      /\ \A i \in 1 .. L : x1[i] \in CondOf(ty)
  BY PlayerIs
<1>3. x4' = x4 /\ x7' = x7 /\ x8' \in BOOLEAN
  BY DEF Strength!Relog
<1>4. Loading(loaded, x1, L)
  <2> HIDE DEF L
  <2>1. \E f : Loading(f, x1, L)
    BY <1>2, LoadingExists
  <2>2. loaded = CHOOSE f : Loading(f, x1, L)
    BY Zenon DEF Loading, LoadedOne, Unloaded
  <2> HIDE DEF loaded
  <2> QED BY <2>1, <2>2, Zenon
<1> HIDE DEF loaded, L
<1>5. SoundPerson(loaded[L], ty)
  BY <1>4, LoadedIsSound DEF L
<1> QED BY <1>1, <1>3, <1>5, BecomingKeeps

CondStart(looks) ==
  /\ x1 = <<>> /\ x2 = 0 /\ x3 = 0
  /\ x4 \in looks /\ x5 = x4
  /\ x6 = {} /\ x7 = {} /\ x8 = FALSE /\ x9 = FALSE /\ x10 = FALSE

LEMMA CondStartIsSound ==
  ASSUME NEW ty, NEW looks, looks \subseteq AnyLook, CondStart(looks)
  PROVE  CondInv(ty, looks)
<1>1. /\ x4 \in looks /\ x7 = {} /\ x8 = FALSE /\ Strength!Player = Unloaded
  BY DEF CondStart, Strength!Player, Unloaded
<1>2. SoundPerson(Unloaded, ty)
  BY <1>1, UnloadedIsSound
<1> QED BY <1>1, <1>2 DEF CondInv

(* What the invariant says of the player.                                  *)
LEMMA CondInvIsEnough ==
  ASSUME NEW ty, ty \subseteq AllTypes, NEW looks, CondInv(ty, looks)
  PROVE  /\ Strength!DeltasAddUp /\ Strength!HasteOrParalysis /\ Strength!LookIsExplained
              /\ Strength!MarksEnd
         /\ (\A c \in Strength!Listed(Strength!Player) :
               /\ c.type \in ty /\ c.id \in Strength!ConditionIds
               /\ c.ticks \in Nat \cup {-1} /\ c.left \in Nat \cup {Strength!Past, Strength!Unset})
         /\ x2 \in Int /\ x3 \in Int /\ x4 \in looks
         /\ x6 \subseteq {"locked", "attacked", "white"} /\ x7 \subseteq ty
         /\ x8 \in BOOLEAN /\ x9 \in BOOLEAN /\ x10 \in BOOLEAN
<1>1. /\ Strength!Player \in Persons(ty) /\ SoundPerson(Strength!Player, ty)
           /\ Strength!Player.speed = x2
      /\ Strength!Player.skill = x3 /\ Strength!Player.current = x5 /\ Strength!Player.marks = x6
      /\ Strength!Player.both = x9 /\ Strength!Player.stained = x10 /\ Strength!Player.conditions =
           x1
  BY PlayerIs
<1>2. /\ AddsUp(Strength!Player) /\ LooksExplained(Strength!Player)
           /\ MarksExplained(Strength!Player) /\ OneSpeed(Strength!Player)
  BY <1>1 DEF SoundPerson, Steady
<1>3. \A c \in Strength!Listed(Strength!Player) : c \in CondOf(ty)
  BY <1>1, ListedAre
<1>4. Strength!DeltasAddUp
  <2>1. x1 \in Seq(CondOf(AllTypes))
    <3>1. CondOf(ty) \subseteq CondOf(AllTypes)
      BY DEF CondOf
    <3>2. x1 \in Seq(CondOf(ty))
      BY <1>1 DEF Persons, CondLists
    <3> DEFINE C == CondOf(ty)
               D == CondOf(AllTypes)
    <3> HIDE DEF C, D
    <3>3. x1 \in Seq(D)
      BY <3>1, <3>2 DEF C, D
    <3> QED BY <3>3 DEF D
  <2>2. Strength!Sum(Strength!SpeedTypes) = SumOf(x1, Strength!SpeedTypes)
    BY <2>1, SumIsSumOf
  <2>3. Strength!Sum({"attributes"}) = SumOf(x1, {"attributes"})
    BY <2>1, SumIsSumOf
  <2> QED BY <1>1, <1>2, <2>2, <2>3 DEF Strength!DeltasAddUp, AddsUp
<1>5. Strength!HasteOrParalysis
  <2>1. ASSUME ~x9, Strength!HasCondition(Strength!Player, "haste"),
               Strength!HasCondition(Strength!Player, "paralyze") PROVE FALSE
    BY <1>1, <1>2, <2>1 DEF Strength!HasCondition, OneSpeed
  <2> QED BY <2>1 DEF Strength!HasteOrParalysis, Strength!SpeedTypes
<1>6. Strength!LookIsExplained
  BY <1>1, <1>2 DEF Strength!LookIsExplained, LooksExplained
<1>7. Strength!MarksEnd
  BY <1>1, <1>2, <1>3 DEF Strength!MarksEnd, MarksExplained, CondOf
<1>8. \A c \in Strength!Listed(Strength!Player) :
        /\ c.type \in ty /\ c.id \in Strength!ConditionIds
        /\ c.ticks \in Nat \cup {-1} /\ c.left \in Nat \cup {Strength!Past, Strength!Unset}
  BY <1>3 DEF CondOf
<1>9. /\ x2 \in Int /\ x3 \in Int
      /\ x6 \subseteq {"locked", "attacked", "white"} /\ x9 \in BOOLEAN /\ x10 \in BOOLEAN
  BY <1>1 DEF Persons, Marked
<1> QED BY <1>4, <1>5, <1>6, <1>7, <1>8, <1>9 DEF CondInv

(* Both instances carry out the same, on conditions of their own.          *)
LEMMA SameApplied ==
  \A p, c, sign : Swiftness!Applied(p, c, sign) = Strength!Applied(p, c, sign)
BY DEF Swiftness!Applied, Strength!Applied, Swiftness!SpeedTypes, Strength!SpeedTypes

LEMMA SameListed ==
  \A p : Swiftness!Listed(p) = Strength!Listed(p)
BY DEF Swiftness!Listed, Strength!Listed

LEMMA SameInForce ==
  \A c : Swiftness!InForce(c) <=> Strength!InForce(c)
BY DEF Swiftness!InForce, Strength!InForce, Swiftness!Unset, Strength!Unset

LEMMA SameHasCondition ==
  \A p, type : Swiftness!HasCondition(p, type) <=> Strength!HasCondition(p, type)
BY SameListed, SameInForce, Zenon DEF Swiftness!HasCondition, Strength!HasCondition

LEMMA SameKept ==
  \A p, stay : Swiftness!Kept(p, stay) = Strength!Kept(p, stay)
BY Zenon DEF Swiftness!Kept, Strength!Kept, Swiftness!Ended, Strength!Ended, Swiftness!Applied,
             Strength!Applied, Swiftness!SpeedTypes, Strength!SpeedTypes

LEMMA SameSetTicks ==
  \A c, ticks : Swiftness!SetTicks(c, ticks) = Strength!SetTicks(c, ticks)
BY DEF Swiftness!SetTicks, Strength!SetTicks

LEMMA SameChanged ==
  \A p, c : Swiftness!Changed(p, c) = Strength!Changed(p, c)
BY DEF Swiftness!Changed, Strength!Changed

LEMMA SameRevives ==
  \A c, next : Swiftness!Revives(c, next) <=> Strength!Revives(c, next)
BY SameInForce, Zenon
DEF Swiftness!Revives, Strength!Revives, Swiftness!SpeedTypes, Strength!SpeedTypes

LEMMA SameMayUpdate ==
  \A c, new : Swiftness!MayUpdate(c, new) <=> Strength!MayUpdate(c, new)
BY DEF Swiftness!MayUpdate, Strength!MayUpdate, Swiftness!SpeedTypes, Strength!SpeedTypes

LEMMA SameUpdated ==
  \A p, i, new : Swiftness!Updated(p, i, new) = Strength!Updated(p, i, new)
<1> TAKE p, i, new
<1> DEFINE c == p.conditions[i]
           next == [Strength!SetTicks(c, new.ticks) EXCEPT !.delta = new.delta, !.look = new.look]
           less == Strength!Applied(p, c, -1)
           other == Strength!Applied(less, new, 1)
           m == Strength!Changed(other, new)
           Put(flag) == [m EXCEPT !.conditions[i] = next, !.both = @ \/ flag,
                                  !.stained = @ \/ (c.look # None /\ new.look = None)]
<1>1. Strength!Updated(p, i, new) =
        IF ~Strength!MayUpdate(c, new) THEN p ELSE Put(Strength!Revives(c, next))
  BY Zenon DEF Strength!Updated
<1>2. Swiftness!Updated(p, i, new) =
        IF ~Strength!MayUpdate(c, new) THEN p ELSE Put(Strength!Revives(c, next))
  <2>1. /\ Swiftness!SetTicks(c, new.ticks) = Strength!SetTicks(c, new.ticks)
        /\ Swiftness!Applied(p, c, -1) = less /\ Swiftness!Applied(less, new, 1) = other
        /\ Swiftness!Changed(other, new) = m
        /\ Swiftness!MayUpdate(c, new) <=> Strength!MayUpdate(c, new)
        /\ Swiftness!Revives(c, next) <=> Strength!Revives(c, next)
    BY SameSetTicks, SameApplied, SameChanged, SameMayUpdate, SameRevives, Zenon
  <2> QED BY <2>1, Zenon DEF Swiftness!Updated
<1> QED BY <1>1, <1>2, Zenon

LEMMA SameOpposite ==
  \A type : Swiftness!Opposite(type) = Strength!Opposite(type)
BY DEF Swiftness!Opposite, Strength!Opposite

LEMMA SameOverlooked ==
  \A p, type : Swiftness!Overlooked(p, type) <=> Strength!Overlooked(p, type)
BY SameListed, SameInForce, SameOpposite, Zenon
DEF Swiftness!Overlooked, Strength!Overlooked, Swiftness!SpeedTypes, Strength!SpeedTypes

LEMMA SameOnAddCondition ==
  \A p, type : Swiftness!OnAddCondition(p, type) = Strength!OnAddCondition(p, type)
<1> TAKE p, type
<1> DEFINE other == Strength!Opposite(type)
<1>1. Swiftness!WithoutType(p, other) = Strength!WithoutType(p, other)
  <2>1. Swiftness!WithoutType(p, other) = Strength!Kept(p, {c \in Swiftness!Listed(p) : c.type # other})
    BY SameKept, Zenon DEF Swiftness!WithoutType
  <2>2. Swiftness!Listed(p) = Strength!Listed(p)
    BY SameListed
  <2> QED BY <2>1, <2>2, Zenon DEF Strength!WithoutType
<1>2. /\ Swiftness!HasCondition(p, other) <=> Strength!HasCondition(p, other)
      /\ Swiftness!Opposite(type) = other
  BY SameHasCondition, SameOpposite, Zenon
<1> QED BY <1>1, <1>2, Zenon
        DEF Swiftness!OnAddCondition, Strength!OnAddCondition, Swiftness!SpeedTypes, Strength!SpeedTypes

LEMMA SameAddCondition ==
  \A p, new : Swiftness!AddCondition(p, new) = Strength!AddCondition(p, new)
<1> TAKE p, new
<1> DEFINE same == {i \in DOMAIN p.conditions :
                      p.conditions[i].type = new.type /\ p.conditions[i].id = new.id}
           begun == [type |-> new.type, id |-> new.id, ticks |-> new.ticks,
                     delta |-> new.delta, look |-> new.look, left |-> -2]
           started == Strength!SetTicks(begun, new.ticks)
           less == Strength!Applied(p, new, 1)
           m == Strength!Changed(less, new)
           Put(flag) == [m EXCEPT !.conditions = Append(@, started), !.both = @ \/ flag]
           listed == Put(Strength!Overlooked(p, new.type))
           i == CHOOSE j \in same : TRUE
<1>1. Strength!AddCondition(p, new) =
        IF same # {} THEN Strength!Updated(p, i, new) ELSE Strength!OnAddCondition(listed, new.type)
  BY Zenon DEF Strength!AddCondition, Strength!Unset
<1>2. Swiftness!AddCondition(p, new) =
        IF same # {} THEN Strength!Updated(p, i, new) ELSE Strength!OnAddCondition(listed, new.type)
  <2>1. /\ Swiftness!SetTicks(begun, new.ticks) = started
        /\ Swiftness!Applied(p, new, 1) = less /\ Swiftness!Changed(less, new) = m
        /\ Swiftness!Overlooked(p, new.type) <=> Strength!Overlooked(p, new.type)
        /\ Swiftness!Updated(p, i, new) = Strength!Updated(p, i, new)
        /\ Swiftness!OnAddCondition(listed, new.type) = Strength!OnAddCondition(listed, new.type)
    <3> HIDE DEF same, begun, i, Put
    <3> QED BY SameSetTicks, SameApplied, SameChanged, SameOverlooked, SameUpdated, SameOnAddCondition, Zenon
  <2> QED BY <2>1, Zenon DEF Swiftness!AddCondition, Swiftness!Unset
<1> QED BY <1>1, <1>2, Zenon

LEMMA SamePlayer ==
  /\ Swiftness!Player = Strength!Player
  /\ \A p : Swiftness!Become(p) <=> Strength!Become(p)
BY DEF Swiftness!Player, Strength!Player, Swiftness!Become, Strength!Become

LEMMA SameSteps ==
  /\ \A c : Swiftness!Cast(c) => Strength!Cast(c)
  /\ Swiftness!TimePasses => Strength!TimePasses
  /\ Swiftness!ExecuteConditions => Strength!ExecuteConditions
  /\ \A type : /\ Swiftness!RemoveCondition(type) => Strength!RemoveCondition(type)
               /\ Swiftness!RemoveItemCondition(type) => Strength!RemoveItemCondition(type)
  /\ \A types : Swiftness!SetSuppressions(types) => Strength!SetSuppressions(types)
  /\ \A look : Swiftness!ChangeOutfit(look) => Strength!ChangeOutfit(look)
<1>1. ASSUME NEW c, Swiftness!Cast(c) PROVE Strength!Cast(c)
  BY <1>1, SameAddCondition, SamePlayer, Zenon DEF Swiftness!Cast, Strength!Cast
<1>2. Swiftness!TimePasses => Strength!TimePasses
  BY DEF Swiftness!TimePasses, Strength!TimePasses, Swiftness!Past, Strength!Past
<1>3. ASSUME Swiftness!ExecuteConditions PROVE Strength!ExecuteConditions
  <2> DEFINE Worn(c) == [c EXCEPT !.ticks = IF @ > 0 THEN @ - 1 ELSE @]
             spent == [Strength!Player EXCEPT !.conditions = [i \in DOMAIN @ |-> Worn(@[i])]]
             stay == {c \in Strength!Listed(spent) : c.ticks = -1 \/ c.left >= 0}
             stay2 == {c \in Swiftness!Listed(spent) : c.ticks = -1 \/ c.left >= 0}
  <2>1. x8 /\ x8' = FALSE /\ UNCHANGED <<x4, x7>> /\ Swiftness!Become(Swiftness!Kept(spent, stay2))
    BY <1>3, SamePlayer, Zenon DEF Swiftness!ExecuteConditions
  <2>2. stay = stay2
    <3> HIDE DEF spent
    <3>1. Swiftness!Listed(spent) = Strength!Listed(spent)
      BY SameListed
    <3> QED BY <3>1, Zenon
  <2>3. Strength!Become(Strength!Kept(spent, stay))
    <3> HIDE DEF spent, stay, stay2
    <3> QED BY <2>1, <2>2, SameKept, SamePlayer, Zenon
  <2> QED BY <2>1, <2>3, Zenon DEF Strength!ExecuteConditions
<1>4. ASSUME NEW type, Swiftness!RemoveCondition(type) PROVE Strength!RemoveCondition(type)
  <2> DEFINE stay(all) == {c \in all : c.type # type}
  <2>1. /\ Swiftness!Become(Swiftness!Kept(Strength!Player, stay(Swiftness!Listed(Strength!Player))))
        /\ UNCHANGED <<x4, x7, x8>>
    BY <1>4, SamePlayer, Zenon DEF Swiftness!RemoveCondition, Swiftness!WithoutType
  <2>2. Swiftness!Listed(Strength!Player) = Strength!Listed(Strength!Player)
    BY SameListed
  <2> HIDE DEF stay
  <2>3. Strength!Become(Strength!Kept(Strength!Player, stay(Strength!Listed(Strength!Player))))
    BY <2>1, <2>2, SameKept, SamePlayer, Zenon
  <2> QED BY <2>1, <2>3, Zenon DEF Strength!RemoveCondition, Strength!WithoutType, stay
<1>5. ASSUME NEW type, Swiftness!RemoveItemCondition(type) PROVE Strength!RemoveItemCondition(type)
  <2> DEFINE stay(all) == {c \in all : c.type # type \/ c.id # "item"}
  <2>1. /\ Swiftness!Become(Swiftness!Kept(Strength!Player, stay(Swiftness!Listed(Strength!Player))))
        /\ UNCHANGED <<x4, x7, x8>>
    BY <1>5, SamePlayer, Zenon DEF Swiftness!RemoveItemCondition
  <2>2. Swiftness!Listed(Strength!Player) = Strength!Listed(Strength!Player)
    BY SameListed
  <2> HIDE DEF stay
  <2>3. Strength!Become(Strength!Kept(Strength!Player, stay(Strength!Listed(Strength!Player))))
    BY <2>1, <2>2, SameKept, SamePlayer, Zenon
  <2> QED BY <2>1, <2>3, Zenon DEF Strength!RemoveItemCondition, stay
<1>6. ASSUME NEW types, Swiftness!SetSuppressions(types) PROVE Strength!SetSuppressions(types)
  BY <1>6 DEF Swiftness!SetSuppressions, Strength!SetSuppressions
<1>7. ASSUME NEW look, Swiftness!ChangeOutfit(look) PROVE Strength!ChangeOutfit(look)
  <2>1. Swiftness!HasCondition(Swiftness!Player, "outfit") <=> Strength!HasCondition(Strength!Player, "outfit")
    BY SameHasCondition, SamePlayer, Zenon
  <2> QED BY <1>7, <2>1, Zenon DEF Swiftness!ChangeOutfit, Strength!ChangeOutfit
<1> QED BY <1>1, <1>2, <1>3, <1>4, <1>5, <1>6, <1>7, Zenon

LEMMA SameOtherSteps ==
  /\ \A type : Swiftness!Dispel(type) => Strength!Dispel(type)
  /\ Swiftness!KillPlayer => Strength!KillPlayer
  /\ Swiftness!DieInArena => Strength!DieInArena
  /\ ~Swiftness!AttackPlayer
<1>1. ASSUME NEW type, Swiftness!Dispel(type) PROVE Strength!Dispel(type)
  <2> DEFINE Hit(c) == c.type = type /\ c.id # "item"
             Stay(all) == {c \in all : ~Hit(c)}
             Put(delay, c) == IF Hit(c) THEN Strength!SetTicks(c, delay) ELSE c
             Get(delay) == [Strength!Player EXCEPT
                             !.conditions = [i \in DOMAIN @ |-> Put(delay, @[i])],
                             !.both = @ \/ \E c \in Strength!Listed(Strength!Player) :
                                             Strength!Revives(c, Put(delay, c))]
             all1 == Strength!Listed(Strength!Player)
  <2>1. Swiftness!Listed(Strength!Player) = all1
    BY SameListed
  <2>2. /\ UNCHANGED <<x4, x7, x8>>
        /\ \/ Swiftness!Become(Swiftness!Kept(Strength!Player, Stay(Swiftness!Listed(Strength!Player))))
           \/ \E delay \in 0 .. 1 : Strength!Become(Get(delay))
    BY <1>1, SamePlayer, SameSetTicks, SameRevives, SameListed DEF Swiftness!Dispel
  <2>3. CASE Swiftness!Become(Swiftness!Kept(Strength!Player, Stay(Swiftness!Listed(Strength!Player))))
    <3> HIDE DEF Stay, all1
    <3>1. Strength!Become(Strength!Kept(Strength!Player, Stay(all1)))
      BY <2>1, <2>3, SameKept, SamePlayer, Zenon
    <3> QED BY <2>2, <3>1, Zenon DEF Strength!Dispel, Stay, all1
  <2>4. CASE \E delay \in 0 .. 1 : Strength!Become(Get(delay))
    BY <2>2, <2>4, Zenon DEF Strength!Dispel
  <2> QED BY <2>2, <2>3, <2>4
<1>2. ASSUME Swiftness!KillPlayer PROVE Strength!KillPlayer
  <2>1. Swiftness!HasCondition(Swiftness!Player, "fight") <=> Strength!HasCondition(Strength!Player, "fight")
    BY SameHasCondition, SamePlayer, Zenon
  <2> QED BY <1>2, <2>1, SameAddCondition, SamePlayer, Zenon
          DEF Swiftness!KillPlayer, Strength!KillPlayer, Swiftness!Fight, Strength!Fight
<1>3. ASSUME Swiftness!DieInArena PROVE Strength!DieInArena
  <2> DEFINE Stay(all) == {c \in all : ~(c.ticks > 0 /\ c.id # "combat")}
             Get(p) == [p EXCEPT !.marks = @ \ {"locked"}]
  <2>1. /\ Swiftness!Become(Get(Swiftness!Kept(Strength!Player, Stay(Swiftness!Listed(Strength!Player)))))
        /\ UNCHANGED <<x4, x7, x8>>
    BY <1>3, SamePlayer, Zenon DEF Swiftness!DieInArena, Swiftness!Persistent
  <2>2. Swiftness!Listed(Strength!Player) = Strength!Listed(Strength!Player)
    BY SameListed
  <2> HIDE DEF Stay, Get
  <2>3. Strength!Become(Get(Strength!Kept(Strength!Player, Stay(Strength!Listed(Strength!Player)))))
    BY <2>1, <2>2, SameKept, SamePlayer, Zenon
  <2> QED BY <2>1, <2>3, Zenon DEF Strength!DieInArena, Strength!Persistent, Stay, Get
<1>4. ~Swiftness!AttackPlayer
  BY DEF Swiftness!AttackPlayer
<1> QED BY <1>1, <1>2, <1>3, <1>4, Zenon

(* What is said of one is said of the other.                               *)
LEMMA SameProperties ==
  /\ Strength!DeltasAddUp => Swiftness!DeltasAddUp
  /\ Strength!HasteOrParalysis => Swiftness!HasteOrParalysis
  /\ Strength!LookIsExplained => Swiftness!LookIsExplained
<1>1. Strength!DeltasAddUp => Swiftness!DeltasAddUp
  <2>1. ASSUME NEW types PROVE Swiftness!Sum(types) = Strength!Sum(types)
    BY Zenon DEF Swiftness!Sum, Strength!Sum
  <2>2. Swiftness!SpeedTypes = Strength!SpeedTypes
    BY DEF Swiftness!SpeedTypes, Strength!SpeedTypes
  <2> QED BY <2>1, <2>2, Zenon DEF Swiftness!DeltasAddUp, Strength!DeltasAddUp
<1>2. Strength!HasteOrParalysis => Swiftness!HasteOrParalysis
  <2>1. Swiftness!SpeedTypes = Strength!SpeedTypes
    BY DEF Swiftness!SpeedTypes, Strength!SpeedTypes
  <2> QED BY <2>1, SameHasCondition, SamePlayer, Zenon
          DEF Swiftness!HasteOrParalysis, Strength!HasteOrParalysis
<1>3. Strength!LookIsExplained => Swiftness!LookIsExplained
  BY SameListed, SamePlayer, Zenon DEF Swiftness!LookIsExplained, Strength!LookIsExplained
<1> QED BY <1>1, <1>2, <1>3

LEMMA SameRelog ==
  ASSUME NEW ty, NEW looks, CondInv(ty, looks), Swiftness!Relog
  PROVE  CondInv(ty, looks)'
<1> DEFINE L == Len(x1)
           First == [conditions |-> <<>>, speed |-> 0, skill |-> 0, current |-> x4,
                     marks |-> {}, both |-> FALSE, stained |-> FALSE]
           Load(f) == [k \in 0 .. L |->
             IF k = 0 THEN First
             ELSE IF Swiftness!Persistent(x1[k]) THEN Swiftness!AddCondition(f[k - 1], x1[k])
             ELSE f[k - 1]]
           loaded == CHOOSE f : f = Load(f)
<1>1. Strength!Become(loaded[L])
  BY SamePlayer, Zenon DEF Swiftness!Relog
<1>2. L \in Nat
  BY PlayerIs
<1>3. x4' = x4 /\ x7' = x7 /\ x8' \in BOOLEAN
  BY DEF Swiftness!Relog
<1>4. ASSUME NEW f PROVE Loading(f, x1, L) <=> f = Load(f)
  <2> DEFINE One(k) == IF k = 0 THEN Unloaded ELSE LoadedOne(f[k - 1], x1[k])
             Other(k) == IF k = 0 THEN First
                         ELSE IF Swiftness!Persistent(x1[k])
                                THEN Swiftness!AddCondition(f[k - 1], x1[k])
                         ELSE f[k - 1]
  <2>1. ASSUME NEW k PROVE One(k) = Other(k)
    <3>1. Unloaded = First
      BY DEF Unloaded
    <3>2. Swiftness!Persistent(x1[k]) <=> Strength!Persistent(x1[k])
      BY DEF Swiftness!Persistent, Strength!Persistent
    <3> HIDE DEF First
    <3> QED BY <3>1, <3>2, SameAddCondition, Zenon DEF LoadedOne
  <2> HIDE DEF L, One, Other
  <2>2. [k \in 0 .. L |-> One(k)] = [k \in 0 .. L |-> Other(k)]
    BY <2>1
  <2>3. Loading(f, x1, L) <=> f = [k \in 0 .. L |-> One(k)]
    BY Zenon DEF Loading, One
  <2>4. Load(f) = [k \in 0 .. L |-> Other(k)]
    BY Zenon DEF Other
  <2> HIDE DEF Load
  <2> QED BY <2>2, <2>3, <2>4, Zenon
<1> HIDE DEF L, Load
<1>5. Loading(loaded, x1, L)
  <2>1. PICK f : Loading(f, x1, L)
    BY <1>2, LoadingExists
  <2>2. f = Load(f)
    BY <1>4, <2>1
  <2>3. loaded = Load(loaded)
    BY <2>2, Zenon
  <2> HIDE DEF loaded
  <2> QED BY <1>4, <2>3
<1> HIDE DEF loaded
<1>6. SoundPerson(loaded[L], ty)
  BY <1>5, LoadedIsSound DEF L
<1> QED BY <1>1, <1>3, <1>6, BecomingKeeps

(* The steps, whatever is cast, and on whatever types.                     *)
CondNext(castable, ty, looks) ==
  \/ \E c \in castable : Strength!Cast(c)
  \/ Strength!TimePasses
  \/ Strength!ExecuteConditions
  \/ \E type : \/ Strength!RemoveCondition(type) \/ Strength!RemoveItemCondition(type)
               \/ Strength!Dispel(type)
  \/ \E types \in SUBSET ty : Strength!SetSuppressions(types)
  \/ \E look \in looks : Strength!ChangeOutfit(look)
  \/ "fight" \in ty /\ Strength!AttackPlayer
  \/ Strength!KillPlayer
  \/ Strength!Relog
  \/ Strength!DieInArena

LEMMA CondNextKeeps ==
  ASSUME NEW ty, NEW looks, CondInv(ty, looks), NEW castable, \A c \in castable : Fits(c, ty),
         CondNext(castable, ty, looks)
  PROVE  CondInv(ty, looks)'
<1>1. ASSUME NEW c \in castable, Strength!Cast(c) PROVE CondInv(ty, looks)'
  BY <1>1, CastKeeps
<1>2. ASSUME Strength!TimePasses PROVE CondInv(ty, looks)'
  BY <1>2, TimePassesKeeps
<1>3. ASSUME Strength!ExecuteConditions PROVE CondInv(ty, looks)'
  BY <1>3, ExecuteKeeps
<1>4. ASSUME NEW type, \/ Strength!RemoveCondition(type) \/ Strength!RemoveItemCondition(type)
                       \/ Strength!Dispel(type)
      PROVE  CondInv(ty, looks)'
  BY <1>4, RemoveKeeps, DispelKeeps
<1>5. ASSUME NEW types \in SUBSET ty, Strength!SetSuppressions(types) PROVE CondInv(ty, looks)'
  BY <1>5, SuppressKeeps
<1>6. ASSUME NEW look \in looks, Strength!ChangeOutfit(look) PROVE CondInv(ty, looks)'
  BY <1>6, ChangeLookKeeps
<1>7. ASSUME "fight" \in ty, Strength!AttackPlayer PROVE CondInv(ty, looks)'
  BY <1>7, AttackKeeps
<1>8. ASSUME Strength!KillPlayer PROVE CondInv(ty, looks)'
  BY <1>8, KillKeeps
<1>9. ASSUME Strength!Relog PROVE CondInv(ty, looks)'
  BY <1>9, CondRelogKeeps
<1>10. ASSUME Strength!DieInArena PROVE CondInv(ty, looks)'
  BY <1>10, DieKeeps
<1> QED BY <1>1, <1>2, <1>3, <1>4, <1>5, <1>6, <1>7, <1>8, <1>9, <1>10 DEF CondNext

(* The invariants of the two instances.                                    *)
SwiftTypes == {"haste", "paralyze"}
StrongTypes == {"attributes", "outfit", "fight"}
SwiftInv == CondInv(SwiftTypes, {"citizen"})
StrengthInv == CondInv(StrongTypes, Looks)

LEMMA CastablesFit ==
  /\ \A c \in Hastes : Fits(c, SwiftTypes)
  /\ \A c \in Boosts : Fits(c, StrongTypes)
<1>1. ASSUME NEW c \in Hastes PROVE Fits(c, SwiftTypes)
  <2>1. /\ c.type \in SwiftTypes \ {"fight"} /\ c.id \in Swiftness!ConditionIds
        /\ c.ticks \in Nat \cup {-1} /\ c.delta \in Int
    BY WorldAssumption, Zenon DEF WorldAssumption, Swiftness!ConditionAssumption, SwiftTypes
  <2>2. c.look \in AnyLook /\ Swiftness!ConditionIds = Strength!ConditionIds
    BY DEF AnyLook, Swiftness!ConditionIds, Strength!ConditionIds
  <2> QED BY <2>1, <2>2 DEF Fits, SwiftTypes
<1>2. ASSUME NEW c \in Boosts PROVE Fits(c, StrongTypes)
  <2>1. /\ c.type \in StrongTypes \ {"fight"} /\ c.id \in Strength!ConditionIds
        /\ c.ticks \in Nat \cup {-1} /\ c.delta \in Int
        /\ c.type = "outfit" => c.look # None
    BY WorldAssumption, Zenon DEF WorldAssumption, Strength!ConditionAssumption, StrongTypes
  <2>2. c.look \in AnyLook
    BY DEF AnyLook
  <2> QED BY <2>1, <2>2 DEF Fits, StrongTypes
<1> QED BY <1>1, <1>2

LEMMA SwiftnessInit == Swiftness!Init => SwiftInv
<1>1. {"citizen"} \subseteq AnyLook
  BY DEF AnyLook
<1>2. Swiftness!Init => CondStart({"citizen"})
  BY DEF Swiftness!Init, CondStart
<1> QED BY <1>1, <1>2, CondStartIsSound DEF SwiftInv

LEMMA StrengthInit == Strength!Init => StrengthInv
<1>1. Looks \subseteq AnyLook
  BY DEF AnyLook
<1>2. Strength!Init => CondStart(Looks)
  BY DEF Strength!Init, CondStart
<1> QED BY <1>1, <1>2, CondStartIsSound DEF StrengthInv

LEMMA SwiftnessStepKeeps == SwiftInv /\ Swiftness!Next => SwiftInv'
<1> SUFFICES ASSUME SwiftInv, Swiftness!Next PROVE SwiftInv'
  OBVIOUS
<1> DEFINE looks == {"citizen"}
<1>1. CondInv(SwiftTypes, looks)
  BY DEF SwiftInv
<1>2. CondNext(Hastes, SwiftTypes, looks) \/ Swiftness!Relog
  <2>1. /\ \A types \in {{}, SwiftTypes \cap Swiftness!SpeedTypes} : types \in SUBSET SwiftTypes
    OBVIOUS
  <2>2. \/ \E c \in Hastes : Swiftness!Cast(c)
        \/ Swiftness!TimePasses
        \/ Swiftness!ExecuteConditions
        \/ \E type : \/ Swiftness!RemoveCondition(type) \/ Swiftness!RemoveItemCondition(type)
                     \/ Swiftness!Dispel(type)
        \/ \E types \in {{}, SwiftTypes \cap Swiftness!SpeedTypes} : Swiftness!SetSuppressions(types)
        \/ \E look \in looks : Swiftness!ChangeOutfit(look)
        \/ Swiftness!AttackPlayer
        \/ Swiftness!KillPlayer
        \/ Swiftness!Relog
        \/ Swiftness!DieInArena
    BY Zenon DEF Swiftness!Next, SwiftTypes
  <2> HIDE DEF looks
  <2> QED BY <2>1, <2>2, SameSteps, SameOtherSteps, Zenon DEF CondNext
<1> HIDE DEF looks
<1>3. CASE CondNext(Hastes, SwiftTypes, looks)
  <2>1. CondInv(SwiftTypes, looks)'
    BY <1>1, <1>3, CastablesFit, CondNextKeeps
  <2> QED BY <2>1 DEF SwiftInv, looks
<1>4. CASE Swiftness!Relog
  <2>1. CondInv(SwiftTypes, looks)'
    BY <1>1, <1>4, SameRelog
  <2> QED BY <2>1 DEF SwiftInv, looks
<1> QED BY <1>2, <1>3, <1>4

LEMMA StrengthStepKeeps == StrengthInv /\ Strength!Next => StrengthInv'
<1> SUFFICES ASSUME StrengthInv, Strength!Next PROVE StrengthInv'
  OBVIOUS
<1>1. CondInv(StrongTypes, Looks)
  BY DEF StrengthInv
<1>2. CondNext(Boosts, StrongTypes, Looks)
  <2>1. \A types \in {{}, StrongTypes \cap Strength!SpeedTypes} : types \in SUBSET StrongTypes
    OBVIOUS
  <2>2. "fight" \in StrongTypes
    BY DEF StrongTypes
  <2>3. \/ \E c \in Boosts : Strength!Cast(c)
        \/ Strength!TimePasses
        \/ Strength!ExecuteConditions
        \/ \E type : \/ Strength!RemoveCondition(type) \/ Strength!RemoveItemCondition(type)
                     \/ Strength!Dispel(type)
        \/ \E types \in {{}, StrongTypes \cap Strength!SpeedTypes} : Strength!SetSuppressions(types)
        \/ \E look \in Looks : Strength!ChangeOutfit(look)
        \/ Strength!AttackPlayer
        \/ Strength!KillPlayer
        \/ Strength!Relog
        \/ Strength!DieInArena
    BY Zenon DEF Strength!Next, StrongTypes
  <2> QED BY <2>1, <2>2, <2>3, Zenon DEF CondNext
<1>3. CondInv(StrongTypes, Looks)'
  BY <1>1, <1>2, CastablesFit, CondNextKeeps
<1> QED BY <1>3 DEF StrengthInv

LEMMA ConditionStutters ==
  ASSUME Untouched
  PROVE  (SwiftInv => SwiftInv') /\ (StrengthInv => StrengthInv')
<1>1. /\ x1' = x1 /\ x2' = x2 /\ x3' = x3 /\ x4' = x4 /\ x5' = x5 /\ x6' = x6 /\ x7' = x7
      /\ x8' = x8 /\ x9' = x9 /\ x10' = x10
  BY DEF Untouched
<1>2. Strength!Become(Strength!Player)
  BY <1>1 DEF Strength!Become, Strength!Player
<1>3. ASSUME NEW ty, NEW looks, CondInv(ty, looks) PROVE CondInv(ty, looks)'
  <2>1. SoundPerson(Strength!Player, ty) /\ x8' \in BOOLEAN
    BY <1>1, <1>3 DEF CondInv
  <2> QED BY <1>1, <1>2, <1>3, <2>1, BecomingKeeps
<1>4. SwiftInv => SwiftInv'
  BY <1>3 DEF SwiftInv
<1>5. StrengthInv => StrengthInv'
  BY <1>3 DEF StrengthInv
<1> QED BY <1>4, <1>5

LEMMA SwiftInvIsEnough ==
  SwiftInv => /\ Swiftness!TypeOK /\ Swiftness!DeltasAddUp /\ Swiftness!HasteOrParalysis
              /\ Swiftness!LookIsExplained
<1> SUFFICES ASSUME SwiftInv
             PROVE  /\ Swiftness!TypeOK /\ Swiftness!DeltasAddUp /\ Swiftness!HasteOrParalysis
                    /\ Swiftness!LookIsExplained
  OBVIOUS
<1> DEFINE looks == {"citizen"}
<1>1. CondInv(SwiftTypes, looks) /\ SwiftTypes \subseteq AllTypes
  BY DEF SwiftInv, SwiftTypes, AllTypes, Strength!SpeedTypes
<1> HIDE DEF looks
<1>2. /\ Strength!DeltasAddUp /\ Strength!HasteOrParalysis /\ Strength!LookIsExplained
      /\ (\A c \in Strength!Listed(Strength!Player) :
            /\ c.type \in SwiftTypes /\ c.id \in Strength!ConditionIds
            /\ c.ticks \in Nat \cup {-1} /\ c.left \in Nat \cup {Strength!Past, Strength!Unset})
      /\ x2 \in Int /\ x3 \in Int /\ x4 \in looks
      /\ x6 \subseteq {"locked", "attacked", "white"} /\ x7 \subseteq SwiftTypes
      /\ x8 \in BOOLEAN /\ x9 \in BOOLEAN /\ x10 \in BOOLEAN
  BY <1>1, CondInvIsEnough
<1>3. Swiftness!Listed(Swiftness!Player) = Strength!Listed(Strength!Player)
  BY SameListed, SamePlayer, Zenon
<1>4. Swiftness!TypeOK
  BY <1>2, <1>3 DEF Swiftness!TypeOK, Swiftness!ConditionIds, Strength!ConditionIds,
                    Swiftness!Past, Swiftness!Unset, Strength!Past, Strength!Unset, SwiftTypes, looks
<1> QED BY <1>2, <1>4, SameProperties

LEMMA StrengthInvIsEnough ==
  StrengthInv => /\ Strength!TypeOK /\ Strength!DeltasAddUp /\ Strength!LookIsExplained
                 /\ Strength!MarksEnd
<1> SUFFICES ASSUME StrengthInv
             PROVE  /\ Strength!TypeOK /\ Strength!DeltasAddUp /\ Strength!LookIsExplained
                    /\ Strength!MarksEnd
  OBVIOUS
<1>1. CondInv(StrongTypes, Looks) /\ StrongTypes \subseteq AllTypes
  BY DEF StrengthInv, StrongTypes, AllTypes
<1>2. /\ Strength!DeltasAddUp /\ Strength!LookIsExplained /\ Strength!MarksEnd
      /\ (\A c \in Strength!Listed(Strength!Player) :
            /\ c.type \in StrongTypes /\ c.id \in Strength!ConditionIds
            /\ c.ticks \in Nat \cup {-1} /\ c.left \in Nat \cup {Strength!Past, Strength!Unset})
      /\ x2 \in Int /\ x3 \in Int /\ x4 \in Looks
      /\ x6 \subseteq {"locked", "attacked", "white"} /\ x7 \subseteq StrongTypes
      /\ x8 \in BOOLEAN /\ x9 \in BOOLEAN /\ x10 \in BOOLEAN
  BY <1>1, CondInvIsEnough
<1>3. Strength!TypeOK
  BY <1>2 DEF Strength!TypeOK, StrongTypes
<1> QED BY <1>2, <1>3
-----------------------------------------------------------------------------
(* A recursion from one number to the next, with a step for each number.   *)
Solves(f, first, step, n) ==
  f = [k \in 0 .. n |-> IF k = 0 THEN first ELSE step[<<k, f[k - 1]>>]]

LEMMA SolutionExists ==
  ASSUME NEW first, NEW step, NEW n \in Nat
  PROVE  \E f : Solves(f, first, step, n)
<1> DEFINE Bad == {m \in Nat : ~\E f : Solves(f, first, step, m)}
<1>1. ASSUME Bad # {} PROVE FALSE
  <2>1. PICK m \in Bad : \A l \in Bad : m <= l
    BY <1>1, LeastNumber
  <2>2. CASE m = 0
    <3> DEFINE f == [k \in 0 .. 0 |-> first]
    <3>1. Solves(f, first, step, 0)
      BY DEF Solves
    <3> QED BY <2>1, <2>2, <3>1
  <2>3. CASE m # 0
    <3>1. m \in Nat /\ m - 1 \in Nat /\ ~(m <= m - 1)
      BY <2>1, <2>3
    <3>2. PICK g : Solves(g, first, step, m - 1)
      BY <2>1, <3>1
    <3> DEFINE last == step[<<m, g[m - 1]>>]
               f == [k \in 0 .. m |-> IF k = m THEN last ELSE g[k]]
    <3>3. \A k \in 0 .. m - 1 : g[k] = IF k = 0 THEN first ELSE step[<<k, g[k - 1]>>]
      BY <3>2 DEF Solves
    <3> HIDE DEF last
    <3>4. (\A k \in 0 .. m - 1 : f[k] = g[k]) /\ f[m] = last
      BY <3>1
    <3>5. f = [k \in 0 .. m |-> f[k]]
      OBVIOUS
    <3> HIDE DEF f
    <3>6. ASSUME NEW k \in 0 .. m PROVE f[k] = IF k = 0 THEN first ELSE step[<<k, f[k - 1]>>]
      <4>1. CASE k = m
        <5>1. m - 1 \in 0 .. m - 1
          BY <3>1
        <5> QED BY <2>3, <3>4, <4>1, <5>1 DEF last
      <4>2. CASE k # m
        <5>1. k \in 0 .. m - 1 /\ (k # 0 => k - 1 \in 0 .. m - 1)
          BY <3>1, <4>2
        <5> QED BY <3>3, <3>4, <5>1
      <4> QED BY <4>1, <4>2
    <3>7. Solves(f, first, step, m)
      BY <3>5, <3>6, Zenon DEF Solves
    <3> QED BY <2>1, <3>7
  <2> QED BY <2>2, <2>3
<1> QED BY <1>1

LEMMA Counting ==
  ASSUME NEW n \in Nat, NEW T, 0 \in T, \A k \in 1 .. n : k - 1 \in T => k \in T
  PROVE  \A k \in 0 .. n : k \in T
<1> DEFINE Bad == (0 .. n) \ T
<1>1. ASSUME Bad # {} PROVE FALSE
  <2>0. Bad \subseteq Nat
    OBVIOUS
  <2>1. PICK k \in Bad : \A l \in Bad : k <= l
    BY <1>1, <2>0, LeastNumber
  <2>2. k # 0 /\ k \in 0 .. n /\ k \notin T
    BY <2>1
  <2>3. k - 1 \in 0 .. n /\ ~(k <= k - 1) /\ k \in 1 .. n
    BY <2>2
  <2>4. k - 1 \in T
    BY <2>1, <2>3
  <2> QED BY <2>2, <2>3, <2>4
<1> QED BY <1>1

(* What takes the values of a set to values of the set can be repeated.    *)
Closed(step, n, All) == \A k \in 1 .. n : \A q \in All : step[<<k, q>>] \in All
Repeats(f, first, step, n, All) ==
  /\ Solves(f, first, step, n)
  /\ \A k \in 0 .. n : k # 0 => k \in 1 .. n /\ f[k - 1] \in All

LEMMA RepeatingExists ==
  ASSUME NEW n \in Nat, NEW All, NEW first \in All, NEW step, Closed(step, n, All)
  PROVE  \E f : Repeats(f, first, step, n, All)
<1>1. PICK f : Solves(f, first, step, n)
  BY SolutionExists
<1>2. f = [k \in 0 .. n |-> IF k = 0 THEN first ELSE step[<<k, f[k - 1]>>]]
  BY <1>1 DEF Solves
<1> DEFINE T == {k \in 0 .. n : f[k] \in All}
<1>3. 0 \in T
  BY <1>2
<1>4. ASSUME NEW k \in 1 .. n, k - 1 \in T PROVE k \in T
  <2>1. f[k - 1] \in All
    BY <1>4
  <2>2. k \in 0 .. n /\ k # 0
    OBVIOUS
  <2>3. f[k] = step[<<k, f[k - 1]>>]
    BY <1>2, <2>2
  <2> QED BY <2>1, <2>2, <2>3 DEF Closed
<1> HIDE DEF T
<1>5. \A k \in 0 .. n : k \in T
  BY <1>3, <1>4, Counting
<1>6. ASSUME NEW k \in 0 .. n, k # 0 PROVE k \in 1 .. n /\ f[k - 1] \in All
  <2>1. k \in 1 .. n /\ k - 1 \in 0 .. n
    BY <1>6
  <2> QED BY <1>5, <2>1 DEF T
<1> QED BY <1>1, <1>6 DEF Repeats
-----------------------------------------------------------------------------
(* Coins.  Items, and what they are worth at a price for each kind.        *)
CoinKinds == Coins!KindSet \cup {"bag"}
CoinItems == [kind : CoinKinds, count : Nat]
ItemLists == Seq(CoinItems)
PriceLists == [CoinKinds -> Nat]
AtPrice(item, price) == price[item.kind] * item.count
Amounts(items, price) == [k \in 1 .. Len(items) |-> AtPrice(items[k], price)]
SumAt(items, price) == Total(Amounts(items, price), Len(items))

LEMMA CoinsAreAssumed ==
  /\ StackSize \in Nat /\ StackSize # 0 /\ PackSize \in Nat /\ PackSize # 0 /\ BagSize \in Nat
  /\ MaxWorth \in Nat /\ MaxFloor \in Nat
  /\ Kinds \in Seq(Coins!KindSet) /\ Kinds # <<>> /\ "bag" \notin Coins!KindSet
  /\ Worth \in [Coins!KindSet -> Nat \ {0}] /\ Worth[Kinds[Len(Kinds)]] = 1
BY WorldAssumption DEF WorldAssumption, Coins!CoinsAssumption

LEMMA AtPriceIs ==
  ASSUME NEW item \in CoinItems, NEW price \in PriceLists
  PROVE  AtPrice(item, price) \in Nat /\ AtPrice(item, price) = price[item.kind] * item.count
<1>1. price[item.kind] \in Nat /\ item.count \in Nat
  BY DEF CoinItems, PriceLists
<1>2. \A m, n \in Nat : m * n \in Nat
  OBVIOUS
<1> QED BY <1>1, <1>2 DEF AtPrice

LEMMA AmountsAre ==
  ASSUME NEW items \in ItemLists, NEW price \in PriceLists
  PROVE  /\ Len(items) \in Nat /\ items = [k \in 1 .. Len(items) |-> items[k]]
         /\ \A k \in 1 .. Len(items) : /\ items[k] \in CoinItems
                                       /\ Amounts(items, price)[k] = AtPrice(items[k], price)
         /\ Numbers(Amounts(items, price), Len(items))
<1>1. Len(items) \in Nat /\ \A k \in 1 .. Len(items) : items[k] \in CoinItems
  BY DEF ItemLists
<1>2. items = [k \in 1 .. Len(items) |-> items[k]]
  BY DEF ItemLists
<1>3. \A k \in 1 .. Len(items) : Amounts(items, price)[k] = AtPrice(items[k], price)
  BY DEF Amounts
<1> QED BY <1>1, <1>2, <1>3, AtPriceIs DEF Numbers

LEMMA SumIsSumAt ==
  ASSUME NEW items \in ItemLists, NEW price \in PriceLists
  PROVE  Coins!Sum(items, price) = SumAt(items, price)
<1> DEFINE n == Len(items)
           w == Amounts(items, price)
           sum == CHOOSE f : f = [k \in 0 .. n |->
                    IF k = 0 THEN 0 ELSE f[k - 1] + price[items[k].kind] * items[k].count]
<1>1. Coins!Sum(items, price) = sum[n]
  BY Zenon DEF Coins!Sum
<1>2. n \in Nat /\ Numbers(w, n) /\ \A k \in 1 .. n : w[k] = AtPrice(items[k], price)
  BY AmountsAre
<1>3. ASSUME NEW f
      PROVE  Totals(f, w, n) <=>
               f = [k \in 0 .. n |-> IF k = 0 THEN 0
                                     ELSE f[k - 1] + price[items[k].kind] * items[k].count]
  <2> HIDE DEF w
  <2>1. \A k \in 0 .. n : k # 0 => k \in 1 .. n
    BY <1>2
  <2>2. [k \in 0 .. n |-> IF k = 0 THEN 0 ELSE f[k - 1] + w[k]]
          = [k \in 0 .. n |-> IF k = 0 THEN 0 ELSE f[k - 1] + price[items[k].kind] * items[k].count]
    <3> HIDE DEF n
    <3>1. \A k \in 0 .. n : k # 0 => w[k] = price[items[k].kind] * items[k].count
      BY <1>2, <2>1, Zenon DEF AtPrice
    <3> QED BY <3>1, Zenon
  <2> QED BY <2>2, Zenon DEF Totals
<1>4. \E f : Totals(f, w, n)
  BY <1>2, TotalsExist
<1>5. Totals(sum, w, n)
  <2> HIDE DEF w, n
  <2> QED BY <1>3, <1>4, Zenon
<1> HIDE DEF sum, w, n
<1>6. sum[n] = Total(w, n)
  BY <1>2, <1>5, TotalIs
<1> QED BY <1>1, <1>6 DEF SumAt, w, n

(* One number more in front.                                               *)
LEMMA TotalOfPrefixed ==
  ASSUME NEW n \in Nat, NEW w, NEW v, Numbers(w, n), v[1] \in Int,
         \A k \in 1 .. n : v[k + 1] = w[k]
  PROVE  Total(v, n + 1) = v[1] + Total(w, n)
<1>1. PICK f : Totals(f, w, n) /\ Total(w, n) = f[n]
  BY TotalIsOf
<1>2. PICK g : Totals(g, v, n + 1) /\ Total(v, n + 1) = g[n + 1]
  BY TotalIsOf
<1> DEFINE T == {k \in 0 .. n : f[k] \in Int /\ g[k + 1] = v[1] + f[k]}
<1>3. \A k \in 0 .. n : f[k] = IF k = 0 THEN 0 ELSE f[k - 1] + w[k]
  BY <1>1 DEF Totals
<1>4. \A k \in 0 .. n + 1 : g[k] = IF k = 0 THEN 0 ELSE g[k - 1] + v[k]
  BY <1>2 DEF Totals
<1>5. 0 \in T
  <2>1. 0 \in 0 .. n + 1 /\ 1 \in 0 .. n + 1 /\ 0 \in 0 .. n
    OBVIOUS
  <2>2. f[0] = 0 /\ g[0] = 0 /\ g[1] = g[0] + v[1]
    BY <1>3, <1>4, <2>1
  <2> QED BY <2>1, <2>2
<1>6. ASSUME NEW k \in 1 .. n, k - 1 \in T PROVE k \in T
  <2>1. /\ k \in 0 .. n /\ k # 0 /\ k + 1 \in 0 .. n + 1 /\ k + 1 # 0
        /\ (k + 1) - 1 = k /\ (k - 1) + 1 = k
    OBVIOUS
  <2>2. f[k] = f[k - 1] + w[k] /\ g[k + 1] = g[k] + w[k] /\ w[k] \in Int
    BY <1>3, <1>4, <2>1 DEF Numbers
  <2>3. f[k - 1] \in Int /\ g[k] = v[1] + f[k - 1]
    BY <1>6, <2>1
  <2> QED BY <2>1, <2>2, <2>3
<1> HIDE DEF T
<1>7. n \in T
  BY <1>5, <1>6, Counting
<1> QED BY <1>1, <1>2, <1>7 DEF T

LEMMA SumPrepends ==
  ASSUME NEW items \in ItemLists, NEW item \in CoinItems, NEW price \in PriceLists
  PROVE  LET more == <<item>> \o items IN
         /\ more \in ItemLists /\ Len(more) = Len(items) + 1 /\ more[1] = item
         /\ \A k \in 1 .. Len(items) : more[k + 1] = items[k]
         /\ SumAt(more, price) = AtPrice(item, price) + SumAt(items, price)
<1> DEFINE more == <<item>> \o items
           n == Len(items)
<1>1. n \in Nat /\ (\A k \in 1 .. n : items[k] \in CoinItems)
  BY DEF ItemLists
<1>2. more \in ItemLists /\ Len(more) = n + 1 /\ more[1] = item
  BY DEF ItemLists
<1>3. \A k \in 1 .. n : more[k + 1] = items[k]
  BY DEF ItemLists
<1> HIDE DEF more, n
<1>4. \A k \in 1 .. n : k + 1 \in 1 .. n + 1
  BY <1>1
<1>5. 1 \in 1 .. n + 1
  BY <1>1
<1> DEFINE w == Amounts(items, price)
           v == Amounts(more, price)
<1>6. Numbers(w, n) /\ \A k \in 1 .. n : w[k] = AtPrice(items[k], price)
  BY AmountsAre DEF n
<1>7. \A k \in 1 .. n + 1 : v[k] = AtPrice(more[k], price)
  BY <1>2, AmountsAre
<1>8. v[1] = AtPrice(item, price) /\ v[1] \in Int
  BY <1>2, <1>5, <1>7, AtPriceIs
<1>9. \A k \in 1 .. n : v[k + 1] = w[k]
  BY <1>3, <1>4, <1>6, <1>7
<1> HIDE DEF w, v
<1>10. Total(v, n + 1) = v[1] + Total(w, n)
  BY <1>1, <1>6, <1>8, <1>9, TotalOfPrefixed
<1> QED BY <1>2, <1>3, <1>8, <1>10 DEF SumAt, w, v, n, more

(* Another number of the same coins in one place.                          *)
Recount(items, i, m) == [items EXCEPT ![i] = [items[i] EXCEPT !.count = m]]

LEMMA SumRecounts ==
  ASSUME NEW items \in ItemLists, NEW i \in 1 .. Len(items), NEW m \in Nat,
         NEW price \in PriceLists
  PROVE  LET other == Recount(items, i, m) IN
         /\ other \in ItemLists /\ Len(other) = Len(items)
         /\ other[i].kind = items[i].kind /\ other[i].count = m
         /\ \A k \in 1 .. Len(items) : k # i => other[k] = items[k]
         /\ SumAt(other, price)
              = SumAt(items, price) + price[items[i].kind] * m - AtPrice(items[i], price)
         /\ SumAt(items, price) \in Int
<1> DEFINE item == [items[i] EXCEPT !.count = m]
           other == [items EXCEPT ![i] = item]
           n == Len(items)
           w == Amounts(items, price)
           v == Amounts(other, price)
<1>1. n \in Nat /\ (\A k \in 1 .. n : items[k] \in CoinItems) /\ i \in 1 .. n /\ i \in Int
  BY DEF ItemLists
<1>2. item \in CoinItems /\ item.kind = items[i].kind /\ item.count = m
  BY <1>1 DEF CoinItems
<1> HIDE DEF item
<1>3. /\ other \in ItemLists /\ Len(other) = n /\ other[i] = item
      /\ \A k \in 1 .. n : k # i => other[k] = items[k]
  BY <1>2 DEF ItemLists
<1> HIDE DEF other
<1>4. Numbers(w, n) /\ Numbers(v, n) /\ \A k \in 1 .. n : /\ w[k] = AtPrice(items[k], price)
                                                         /\ v[k] = AtPrice(other[k], price)
  BY <1>3, AmountsAre
<1> HIDE DEF w, v, n
<1>5. AlikeBut(w, v, n, i)
  BY <1>3, <1>4 DEF AlikeBut
<1>6. Total(w, n) \in Int /\ Total(v, n) = Total(w, n) + (v[i] - w[i])
  BY <1>1, <1>4, <1>5, TotalOfChanged
<1>7. v[i] = price[items[i].kind] * m /\ w[i] = AtPrice(items[i], price)
  BY <1>1, <1>2, <1>3, <1>4, AtPriceIs
<1>8. w[i] \in Int /\ v[i] \in Int
  BY <1>1, <1>4 DEF Numbers
<1>9. SumAt(other, price) = Total(v, n) /\ SumAt(items, price) = Total(w, n)
  BY <1>3 DEF SumAt, w, v, n
<1>10. SumAt(other, price) = SumAt(items, price) + price[items[i].kind] * m
                               - AtPrice(items[i], price)
  <2> DEFINE a == price[items[i].kind] * m
             b == AtPrice(items[i], price)
  <2>1. v[i] = a /\ w[i] = b
    BY <1>7
  <2> HIDE DEF a, b
  <2>2. a \in Int /\ b \in Int
    BY <1>8, <2>1
  <2>3. SumAt(other, price) = SumAt(items, price) + a - b
    BY <1>6, <1>9, <2>1, <2>2
  <2> QED BY <2>3 DEF a, b
<1>11. Recount(items, i, m) = other
  BY DEF Recount, other, item
<1> QED BY <1>2, <1>3, <1>6, <1>9, <1>10, <1>11 DEF n

(* Nothing is worth less than nothing; what is worth something has coins.  *)
LEMMA SumIsNat ==
  ASSUME NEW items \in ItemLists, NEW price \in PriceLists
  PROVE  /\ SumAt(items, price) \in Nat
         /\ SumAt(items, price) > 0 => \E k \in 1 .. Len(items) : AtPrice(items[k], price) > 0
<1> DEFINE n == Len(items)
           w == Amounts(items, price)
<1>1. n \in Nat /\ \A k \in 1 .. n : w[k] = AtPrice(items[k], price) /\ w[k] \in Nat
  BY AmountsAre, AtPriceIs
<1> HIDE DEF w, n
<1>2. PICK f : Totals(f, w, n) /\ Total(w, n) = f[n]
  BY <1>1, TotalIsOf
<1>3. \A k \in 0 .. n : f[k] = IF k = 0 THEN 0 ELSE f[k - 1] + w[k]
  BY <1>2 DEF Totals
<1> DEFINE T == {k \in 0 .. n : f[k] \in Nat /\ (f[k] > 0 => \E j \in 1 .. n : w[j] > 0)}
<1>4. 0 \in T
  BY <1>1, <1>3
<1>5. ASSUME NEW k \in 1 .. n, k - 1 \in T PROVE k \in T
  <2>1. k \in 0 .. n /\ k # 0
    BY <1>1
  <2>2. f[k] = f[k - 1] + w[k] /\ w[k] \in Nat /\ f[k - 1] \in Nat
    BY <1>1, <1>3, <1>5, <2>1
  <2>3. f[k] > 0 => \E j \in 1 .. n : w[j] > 0
    BY <1>5, <2>2
  <2> QED BY <2>1, <2>2, <2>3
<1> HIDE DEF T
<1>6. n \in T
  BY <1>1, <1>4, <1>5, Counting
<1> QED BY <1>1, <1>2, <1>6 DEF T, SumAt, n, w

LEMMA SumAppends ==
  ASSUME NEW items \in ItemLists, NEW item \in CoinItems, NEW price \in PriceLists
  PROVE  LET more == Append(items, item) IN
         /\ more \in ItemLists /\ Len(more) = Len(items) + 1 /\ more[Len(items) + 1] = item
         /\ \A k \in 1 .. Len(items) : more[k] = items[k]
         /\ SumAt(more, price) = SumAt(items, price) + AtPrice(item, price)
<1> DEFINE more == Append(items, item)
           n == Len(items)
           w == Amounts(items, price)
           v == Amounts(more, price)
<1>1. n \in Nat
  BY DEF ItemLists
<1>2. /\ more \in ItemLists /\ Len(more) = n + 1 /\ more[n + 1] = item
      /\ \A k \in 1 .. n : more[k] = items[k]
  BY DEF ItemLists
<1> HIDE DEF more, n
<1>3. Numbers(w, n) /\ \A k \in 1 .. n : w[k] = AtPrice(items[k], price)
  BY AmountsAre DEF n
<1>4. Numbers(v, n + 1) /\ \A k \in 1 .. n + 1 : v[k] = AtPrice(more[k], price)
  BY <1>2, AmountsAre
<1> HIDE DEF w, v
<1>5. n + 1 \in 1 .. n + 1 /\ \A k \in 1 .. n : k \in 1 .. n + 1
  BY <1>1
<1>6. v[n + 1] \in Int /\ v[n + 1] = AtPrice(item, price)
  BY <1>2, <1>4, <1>5 DEF Numbers
<1>7. \A k \in 1 .. n : w[k] \in Int /\ v[k] = w[k]
  BY <1>2, <1>3, <1>4, <1>5 DEF Numbers
<1>8. Total(v, n + 1) = Total(w, n) + v[n + 1]
  BY <1>1, <1>6, <1>7, TotalGrows
<1> QED BY <1>2, <1>6, <1>8 DEF SumAt, w, v, n, more

(* The recursion of Rest has a solution.                                   *)
RestOne(q, item) == IF item.count = 0 THEN q ELSE Append(q, item)
Resting(f, items, n) ==
  f = [k \in 0 .. n |-> IF k = 0 THEN <<>> ELSE RestOne(f[k - 1], items[k])]

LEMMA RestingExists ==
  ASSUME NEW items \in ItemLists
  PROVE  \E f : Resting(f, items, Len(items))
<1> DEFINE n == Len(items)
           step == [y \in (1 .. n) \X ItemLists |-> RestOne(y[2], items[y[1]])]
           none == <<>>
<1>1. n \in Nat /\ \A k \in 1 .. n : items[k] \in CoinItems
  BY DEF ItemLists
<1>2. none \in ItemLists /\ \A q \in ItemLists, item \in CoinItems : RestOne(q, item) \in ItemLists
  BY DEF ItemLists, RestOne
<1> HIDE DEF n, none
<1>3. \A k \in 1 .. n : \A q \in ItemLists : step[<<k, q>>] = RestOne(q, items[k])
  BY DEF step
<1> HIDE DEF step
<1>4. PICK f : Repeats(f, none, step, n, ItemLists)
  <2>1. ASSUME NEW k \in 1 .. n, NEW q \in ItemLists PROVE step[<<k, q>>] \in ItemLists
    <3>1. step[<<k, q>>] = RestOne(q, items[k]) /\ items[k] \in CoinItems
      BY <1>1, <1>3
    <3> QED BY <1>2, <3>1
  <2>2. Closed(step, n, ItemLists)
    BY <2>1, Zenon DEF Closed
  <2> QED BY <1>1, <1>2, <2>2, RepeatingExists
<1>5. \A k \in 0 .. n : k # 0 => step[<<k, f[k - 1]>>] = RestOne(f[k - 1], items[k])
  BY <1>3, <1>4, Zenon DEF Repeats
<1>6. Resting(f, items, n)
  BY <1>4, <1>5, Zenon DEF Resting, Repeats, Solves, none
<1> QED BY <1>6 DEF n

(* Without the empty stacks a list is worth the same.                      *)
LEMMA RestIs ==
  ASSUME NEW items \in ItemLists, NEW price \in PriceLists
  PROVE  LET rest == Coins!Rest(items) IN
         /\ rest \in ItemLists /\ Len(rest) <= Len(items)
         /\ SumAt(rest, price) = SumAt(items, price)
         /\ \A k \in 1 .. Len(rest) : /\ rest[k].count # 0
                                      /\ \E j \in 1 .. Len(items) : rest[k] = items[j]
<1> DEFINE n == Len(items)
           r == CHOOSE f : f = [k \in 0 .. n |->
                  IF k = 0 THEN <<>>
                  ELSE IF items[k].count = 0 THEN f[k - 1] ELSE Append(f[k - 1], items[k])]
           w == Amounts(items, price)
<1>1. Coins!Rest(items) = r[n]
  BY Zenon DEF Coins!Rest
<1>2. n \in Nat /\ Numbers(w, n)
      /\ \A k \in 1 .. n : w[k] = AtPrice(items[k], price) /\ items[k] \in CoinItems
  BY AmountsAre
<1>3. Resting(r, items, n)
  <2>1. \E f : Resting(f, items, n)
    BY RestingExists
  <2>2. r = CHOOSE f : Resting(f, items, n)
    BY Zenon DEF Resting, RestOne
  <2> HIDE DEF r, n
  <2> QED BY <2>1, <2>2, Zenon
<1> HIDE DEF r
<1>4. PICK f : Totals(f, w, n) /\ SumAt(items, price) = f[n]
  BY <1>2, TotalIsOf DEF SumAt
<1> HIDE DEF n, w
<1>5. \A k \in 0 .. n : /\ r[k] = IF k = 0 THEN <<>> ELSE RestOne(r[k - 1], items[k])
                        /\ f[k] = IF k = 0 THEN 0 ELSE f[k - 1] + w[k]
  BY <1>3, <1>4 DEF Resting, Totals
<1> DEFINE T == {k \in 0 .. n :
                   /\ r[k] \in ItemLists /\ Len(r[k]) <= k /\ SumAt(r[k], price) = f[k]
                   /\ \A l \in 1 .. Len(r[k]) : /\ r[k][l].count # 0
                                                /\ \E j \in 1 .. n : r[k][l] = items[j]}
<1>6. 0 \in T
  <2>1. r[0] = <<>> /\ f[0] = 0 /\ 0 \in 0 .. n
    BY <1>2, <1>5
  <2>2. <<>> \in ItemLists /\ Len(<<>>) = 0 /\ Len(<<>>) <= 0 /\ 1 .. 0 = {}
    BY DEF ItemLists
  <2>3. SumAt(<<>>, price) = 0
    BY <2>2, TotalOfNone DEF SumAt
  <2> QED BY <2>1, <2>2, <2>3
<1>7. ASSUME NEW k \in 1 .. n, k - 1 \in T PROVE k \in T
  <2> DEFINE q == r[k - 1]
             item == items[k]
  <2>1. k \in 0 .. n /\ k # 0 /\ k \in Nat
    BY <1>2
  <2>2. /\ q \in ItemLists /\ Len(q) <= k - 1 /\ SumAt(q, price) = f[k - 1]
        /\ \A l \in 1 .. Len(q) : q[l].count # 0 /\ \E j \in 1 .. n : q[l] = items[j]
    BY <1>7
  <2>3. r[k] = RestOne(q, item) /\ f[k] = f[k - 1] + AtPrice(item, price) /\ item \in CoinItems
    BY <1>2, <1>5, <2>1
  <2>4. Len(q) \in Nat
    BY <2>2 DEF ItemLists
  <2>5. SumAt(q, price) \in Nat /\ AtPrice(item, price) \in Nat
    BY <2>2, <2>3, AtPriceIs, SumIsNat
  <2> HIDE DEF q
  <2>6. CASE item.count = 0
    <3>1. r[k] = q
      BY <2>3, <2>6 DEF RestOne
    <3>2. AtPrice(item, price) = 0
      <4>1. price[item.kind] \in Nat
        BY <2>3 DEF PriceLists, CoinItems
      <4>2. \A m \in Nat : m * 0 = 0
        OBVIOUS
      <4> QED BY <2>6, <4>1, <4>2 DEF AtPrice
    <3>3. f[k] = f[k - 1] /\ Len(q) <= k
      BY <2>1, <2>2, <2>3, <2>4, <2>5, <3>2
    <3> QED BY <2>1, <2>2, <3>1, <3>3
  <2>7. CASE item.count # 0
    <3> DEFINE more == Append(q, item)
    <3>1. r[k] = more
      BY <2>3, <2>7 DEF RestOne
    <3>2. /\ more \in ItemLists /\ Len(more) = Len(q) + 1 /\ more[Len(q) + 1] = item
          /\ \A l \in 1 .. Len(q) : more[l] = q[l]
          /\ SumAt(more, price) = SumAt(q, price) + AtPrice(item, price)
      BY <2>2, <2>3, SumAppends
    <3> HIDE DEF more
    <3>3. \A l \in 1 .. Len(more) : l = Len(q) + 1 \/ l \in 1 .. Len(q)
      BY <2>4, <3>2
    <3>4. \A l \in 1 .. Len(more) : more[l].count # 0 /\ \E j \in 1 .. n : more[l] = items[j]
      BY <2>2, <2>7, <3>2, <3>3
    <3>5. Len(more) <= k
      BY <2>1, <2>2, <2>4, <3>2
    <3>6. SumAt(more, price) = f[k]
      BY <2>2, <2>3, <3>2
    <3> QED BY <2>1, <3>1, <3>2, <3>4, <3>5, <3>6
  <2> QED BY <2>6, <2>7
<1> HIDE DEF T
<1>8. n \in T /\ n \in Nat
  BY <1>2, <1>6, <1>7, Counting
<1> QED BY <1>1, <1>4, <1>8 DEF T, n
-----------------------------------------------------------------------------
(* Where the coins are.                                                    *)
CoinStates == [Coins!Cylinders -> ItemLists]
CarriedAt(s, price) ==
  SumAt(s["slot"], price) + SumAt(s["pack"], price) + SumAt(s["bag"], price)
AllAt(s, price) == CarriedAt(s, price) + SumAt(s["floor"], price)

FitsIn(s) == \A c \in Coins!Cylinders \ {"floor"} : Len(s[c]) <= Coins!Size(c)
NoneOver(s) == \A c \in Coins!Cylinders : \A i \in 1 .. Len(s[c]) : s[c][i].count <= StackSize
NoneEmpty(s) == \A c \in Coins!Cylinders : \A i \in 1 .. Len(s[c]) : s[c][i].count # 0

CoinsSound(s) == s \in CoinStates /\ FitsIn(s) /\ NoneOver(s) /\ NoneEmpty(s)

LEMMA SumsAre ==
  ASSUME NEW s \in CoinStates, NEW price \in PriceLists
  PROVE  /\ \A c \in Coins!Cylinders : s[c] \in ItemLists /\ SumAt(s[c], price) \in Nat
         /\ CarriedAt(s, price) \in Nat /\ AllAt(s, price) \in Nat
         /\ CarriedAt(s, price) <= AllAt(s, price)
<1>1. \A c \in Coins!Cylinders : s[c] \in ItemLists /\ SumAt(s[c], price) \in Nat
  BY SumIsNat DEF CoinStates
<1>2. {"slot", "pack", "bag", "floor"} = Coins!Cylinders
  BY DEF Coins!Cylinders
<1> QED BY <1>1, <1>2 DEF CarriedAt, AllAt

(* Another list in one cylinder.                                           *)
Relaid(s, c, l) == [s EXCEPT ![c] = l]

LEMMA CellChanges ==
  ASSUME NEW s \in CoinStates, NEW price \in PriceLists, NEW c \in Coins!Cylinders,
         NEW l \in ItemLists
  PROVE  LET t == Relaid(s, c, l) IN
         /\ t \in CoinStates /\ t[c] = l
         /\ \A d \in Coins!Cylinders : d # c => t[d] = s[d]
         /\ AllAt(t, price) = AllAt(s, price) + SumAt(l, price) - SumAt(s[c], price)
         /\ CarriedAt(t, price) = CarriedAt(s, price)
              + IF c = "floor" THEN 0 ELSE SumAt(l, price) - SumAt(s[c], price)
<1> DEFINE t == [s EXCEPT ![c] = l]
<1>1. t \in CoinStates /\ t[c] = l /\ \A d \in Coins!Cylinders : d # c => t[d] = s[d]
  BY DEF CoinStates
<1> HIDE DEF t
<1>2. \A d \in Coins!Cylinders : SumAt(s[d], price) \in Nat
  BY SumsAre
<1>3. SumAt(l, price) \in Nat
  BY SumIsNat
<1>4. {"slot", "pack", "bag", "floor"} = Coins!Cylinders
  BY DEF Coins!Cylinders
<1>5. /\ AllAt(t, price) = AllAt(s, price) + SumAt(l, price) - SumAt(s[c], price)
      /\ CarriedAt(t, price) = CarriedAt(s, price)
              + IF c = "floor" THEN 0 ELSE SumAt(l, price) - SumAt(s[c], price)
  <2>1. CASE c = "slot" BY <1>1, <1>2, <1>3, <1>4, <2>1 DEF CarriedAt, AllAt
  <2>2. CASE c = "pack" BY <1>1, <1>2, <1>3, <1>4, <2>2 DEF CarriedAt, AllAt
  <2>3. CASE c = "bag" BY <1>1, <1>2, <1>3, <1>4, <2>3 DEF CarriedAt, AllAt
  <2>4. CASE c = "floor" BY <1>1, <1>2, <1>3, <1>4, <2>4 DEF CarriedAt, AllAt
  <2> QED BY <1>4, <2>1, <2>2, <2>3, <2>4
<1>6. Relaid(s, c, l) = t
  BY DEF Relaid, t
<1> QED BY <1>1, <1>5, <1>6

LEMMA Products ==
  ASSUME NEW a \in Nat, NEW b \in Nat, NEW m \in Nat
  PROVE  /\ a * b \in Nat /\ a * m \in Nat /\ a * (b + m) = a * b + a * m
         /\ m <= b => a * (b - m) = a * b - a * m
OBVIOUS

Recounted(s, c, at, m) == Relaid(s, c, Recount(s[c], at, m))

HasRecounted(s, t, c, at, m, price) ==
  /\ t \in CoinStates /\ \A d \in Coins!Cylinders : Len(t[d]) = Len(s[d])
  /\ t[c][at].kind = s[c][at].kind /\ t[c][at].count = m
  /\ \A d \in Coins!Cylinders : d # c => t[d] = s[d]
  /\ \A k \in 1 .. Len(s[c]) : k # at => t[c][k] = s[c][k]
  /\ AllAt(t, price) = AllAt(s, price) + price[s[c][at].kind] * m - AtPrice(s[c][at], price)
  /\ CarriedAt(t, price) = CarriedAt(s, price)
       + IF c = "floor" THEN 0 ELSE price[s[c][at].kind] * m - AtPrice(s[c][at], price)

LEMMA RecountedIs ==
  ASSUME NEW s \in CoinStates, NEW price \in PriceLists, NEW c \in Coins!Cylinders,
         NEW at \in 1 .. Len(s[c]), NEW m \in Nat
  PROVE  HasRecounted(s, Recounted(s, c, at, m), c, at, m, price)
<1> DEFINE items == s[c]
           l == Recount(items, at, m)
           t == Relaid(s, c, l)
           a == price[s[c][at].kind] * m
           b == AtPrice(s[c][at], price)
<1>1. items \in ItemLists
  BY SumsAre
<1>2. /\ l \in ItemLists /\ Len(l) = Len(items)
      /\ l[at].kind = items[at].kind /\ l[at].count = m
      /\ \A k \in 1 .. Len(items) : k # at => l[k] = items[k]
      /\ SumAt(l, price)
           = SumAt(items, price) + price[items[at].kind] * m - AtPrice(items[at], price)
      /\ SumAt(items, price) \in Int
  <2> HIDE DEF items
  <2>1. at \in 1 .. Len(items)
    BY DEF items
  <2> QED BY <1>1, <2>1, SumRecounts
<1> HIDE DEF l
<1>3. /\ t \in CoinStates /\ t[c] = l
      /\ \A d \in Coins!Cylinders : d # c => t[d] = s[d]
      /\ AllAt(t, price) = AllAt(s, price) + SumAt(l, price) - SumAt(s[c], price)
      /\ CarriedAt(t, price) = CarriedAt(s, price)
              + IF c = "floor" THEN 0 ELSE SumAt(l, price) - SumAt(s[c], price)
  BY <1>2, CellChanges
<1>4. t = Recounted(s, c, at, m)
  BY DEF Recounted, l
<1> HIDE DEF t
<1>5. a \in Nat /\ b \in Nat
  <2>1. items[at] \in CoinItems
    BY <1>1 DEF ItemLists
  <2>2. price[items[at].kind] \in Nat
    BY <2>1 DEF CoinItems, PriceLists
  <2>3. b \in Nat
    BY <2>1, AtPriceIs
  <2> QED BY <2>2, <2>3, Products
<1>6. SumAt(l, price) = SumAt(items, price) + a - b
  BY <1>2
<1> HIDE DEF a, b
<1>7. AllAt(s, price) \in Int /\ CarriedAt(s, price) \in Int
  BY SumsAre
<1>8. /\ AllAt(t, price) = AllAt(s, price) + a - b
      /\ CarriedAt(t, price) = CarriedAt(s, price) + IF c = "floor" THEN 0 ELSE a - b
  BY <1>2, <1>3, <1>5, <1>6, <1>7
<1>9. HasRecounted(s, t, c, at, m, price)
  BY <1>2, <1>3, <1>8 DEF HasRecounted, a, b
<1> QED BY <1>4, <1>9

LEMMA TakenIs ==
  ASSUME NEW s \in CoinStates, NEW c \in Coins!Cylinders, NEW at \in 1 .. Len(s[c]), NEW m
  PROVE  Coins!Taken(s, c, at, m) = Recounted(s, c, at, s[c][at].count - m)
<1>1. s[c] \in ItemLists
  BY DEF CoinStates
<1>2. s[c][at] \in CoinItems /\ at \in DOMAIN s[c]
  BY <1>1 DEF ItemLists
<1> QED BY <1>2 DEF Coins!Taken, Recounted, Relaid, Recount, CoinItems, CoinStates

(* A stack is put in a cylinder: it merges with what is at the place, and  *)
(* what is too much is a new stack in front.                               *)
HasPut(s, t, c, at, item, price) ==
  /\ t \in CoinStates /\ NoneOver(t) /\ (NoneEmpty(s) => NoneEmpty(t))
  /\ \A d \in Coins!Cylinders : d # c => t[d] = s[d]
  /\ Len(s[c]) \in Nat /\ Len(t[c]) \in {Len(s[c]), Len(s[c]) + 1}
  /\ item.count = 0 => Len(t[c]) = Len(s[c])
  /\ (/\ at \in 1 .. Len(s[c]) /\ s[c][at].kind = item.kind
      /\ item.count <= StackSize - s[c][at].count) => Len(t[c]) = Len(s[c])
  /\ \A k \in 1 .. Len(s[c]) : k # at => t[c][k + (Len(t[c]) - Len(s[c]))] = s[c][k]
  /\ AllAt(t, price) = AllAt(s, price) + AtPrice(item, price)

LEMMA PutIs ==
  ASSUME NEW s \in CoinStates, NoneOver(s), NEW price \in PriceLists, NEW c \in Coins!Cylinders,
         NEW at \in Int, NEW item \in CoinItems, item.count <= StackSize
  PROVE  HasPut(s, Coins!Put(s, c, at, item), c, at, item, price)
<1> DEFINE same == at \in DOMAIN s[c] /\ s[c][at].kind = item.kind
           merged == IF same THEN Coins!Least(StackSize - s[c][at].count, item.count) ELSE 0
           kept == IF same THEN [s EXCEPT ![c][at].count = @ + merged] ELSE s
           new == Coins!Stack(item.kind, item.count - merged)
           more == [kept EXCEPT ![c] = <<new>> \o kept[c]]
           t == Coins!Put(s, c, at, item)
           p == price[item.kind]
<1>1. t = IF merged = item.count THEN kept ELSE more
  BY DEF Coins!Put
<1>2. /\ s[c] \in ItemLists /\ Len(s[c]) \in Nat /\ DOMAIN s[c] = 1 .. Len(s[c])
      /\ (\A k \in 1 .. Len(s[c]) : s[c][k] \in CoinItems)
      /\ item.kind \in CoinKinds /\ item.count \in Nat /\ p \in Nat /\ StackSize \in Nat
  <2>1. s[c] \in ItemLists
    BY DEF CoinStates
  <2>2. /\ Len(s[c]) \in Nat /\ DOMAIN s[c] = 1 .. Len(s[c])
        /\ \A k \in 1 .. Len(s[c]) : s[c][k] \in CoinItems
    BY <2>1 DEF ItemLists
  <2>3. item.kind \in CoinKinds /\ item.count \in Nat /\ StackSize \in Nat
    BY CoinsAreAssumed DEF CoinItems
  <2>4. p \in Nat
    BY <2>3 DEF PriceLists
  <2> QED BY <2>1, <2>2, <2>3, <2>4
<1> HIDE DEF p
<1>3. /\ merged \in Nat /\ merged <= item.count
      /\ same => /\ s[c][at].count + merged <= StackSize /\ s[c][at].count \in Nat
                 /\ s[c][at].count + merged \in Nat
                 /\ item.count <= StackSize - s[c][at].count => merged = item.count
      /\ item.count = 0 => merged = 0
  <2>1. CASE same
    <3>1. at \in 1 .. Len(s[c]) /\ s[c][at].count \in Nat
      BY <1>2, <2>1 DEF CoinItems
    <3>2. s[c][at].count <= StackSize
      BY <3>1 DEF NoneOver
    <3>3. merged = IF StackSize - s[c][at].count < item.count THEN StackSize - s[c][at].count
                   ELSE item.count
      BY <2>1, Zenon DEF Coins!Least
    <3> DEFINE room == StackSize - s[c][at].count
    <3>4. room \in Nat /\ s[c][at].count + room = StackSize
      BY <1>2, <3>1, <3>2
    <3> HIDE DEF merged, same, room
    <3>5. merged = IF room < item.count THEN room ELSE item.count
      BY <3>3 DEF room
    <3>6. /\ merged \in Nat /\ merged <= item.count
          /\ s[c][at].count + merged <= StackSize /\ s[c][at].count + merged \in Nat
          /\ item.count <= room => merged = item.count
          /\ item.count = 0 => merged = 0
      <4> DEFINE held == s[c][at].count
                 wanted == item.count
      <4>1. /\ held \in Nat /\ wanted \in Nat /\ room \in Nat /\ held + room = StackSize
            /\ merged = IF room < wanted THEN room ELSE wanted
        BY <1>2, <3>1, <3>4, <3>5
      <4> HIDE DEF held, wanted
      <4>2. /\ merged \in Nat /\ merged <= wanted
            /\ held + merged <= StackSize /\ held + merged \in Nat
            /\ wanted <= room => merged = wanted
            /\ wanted = 0 => merged = 0
        <5>1. StackSize \in Nat
          BY <1>2
        <5> QED BY <4>1, <5>1
      <4> QED BY <4>2 DEF held, wanted
    <3> QED BY <3>1, <3>6 DEF room
  <2>2. CASE ~same
    BY <1>2, <2>2
  <2> QED BY <2>1, <2>2
<1> HIDE DEF merged
<1> DEFINE extra == item.count - merged
<1>30. /\ item.count \in Nat /\ StackSize \in Nat /\ merged \in Nat
       /\ merged <= item.count /\ item.count <= StackSize
  BY <1>2, <1>3
<1>31. /\ extra \in Nat /\ merged + extra = item.count /\ extra <= StackSize
       /\ merged # item.count => extra # 0
  BY <1>30
<1> HIDE DEF extra
<1>4. /\ kept \in CoinStates /\ \A d \in Coins!Cylinders : d # c => kept[d] = s[d]
      /\ Len(kept[c]) = Len(s[c]) /\ \A k \in 1 .. Len(s[c]) : k # at => kept[c][k] = s[c][k]
      /\ \A k \in 1 .. Len(s[c]) : kept[c][k].count <= StackSize
                                   /\ (s[c][k].count # 0 => kept[c][k].count # 0)
      /\ AllAt(kept, price) = AllAt(s, price) + p * merged
  <2>1. CASE same
    <3> DEFINE n == s[c][at].count
               k1 == Recounted(s, c, at, n + merged)
    <3>1. at \in 1 .. Len(s[c]) /\ n \in Nat /\ n + merged \in Nat /\ s[c][at].kind = item.kind
      BY <1>2, <1>3, <2>1
    <3>2. kept = k1
      BY <1>2, <2>1, <3>1 DEF Recounted, Relaid, Recount, CoinItems, CoinStates
    <3> HIDE DEF kept
    <3>3. /\ k1 \in CoinStates /\ \A d \in Coins!Cylinders : Len(k1[d]) = Len(s[d])
          /\ k1[c][at].kind = s[c][at].kind /\ k1[c][at].count = n + merged
          /\ \A d \in Coins!Cylinders : d # c => k1[d] = s[d]
          /\ \A k \in 1 .. Len(s[c]) : k # at => k1[c][k] = s[c][k]
          /\ AllAt(k1, price)
               = AllAt(s, price) + price[s[c][at].kind] * (n + merged) - AtPrice(s[c][at], price)
      <4> DEFINE m == n + merged
      <4>1. m \in Nat
        BY <3>1
      <4> HIDE DEF m
      <4>2. k1 = Recounted(s, c, at, m)
        BY DEF m
      <4> HIDE DEF k1
      <4>3. /\ k1 \in CoinStates /\ \A d \in Coins!Cylinders : Len(k1[d]) = Len(s[d])
            /\ k1[c][at].kind = s[c][at].kind /\ k1[c][at].count = m
            /\ \A d \in Coins!Cylinders : d # c => k1[d] = s[d]
            /\ \A k \in 1 .. Len(s[c]) : k # at => k1[c][k] = s[c][k]
            /\ AllAt(k1, price)
                 = AllAt(s, price) + price[s[c][at].kind] * m - AtPrice(s[c][at], price)
        BY <3>1, <4>1, <4>2, RecountedIs DEF HasRecounted
      <4> QED BY <4>3 DEF m
    <3> HIDE DEF k1, n
    <3>4. AtPrice(s[c][at], price) = p * n
      BY <3>1 DEF AtPrice, p, n
    <3>5. p * n \in Nat /\ p * merged \in Nat /\ p * (n + merged) = p * n + p * merged
      BY <1>2, <1>3, <3>1, Products
    <3>6. AllAt(k1, price) = AllAt(s, price) + p * merged
      <4> DEFINE a == p * n
                 b == p * merged
      <4>1. price[s[c][at].kind] * (n + merged) = a + b /\ AtPrice(s[c][at], price) = a
        BY <3>1, <3>4, <3>5 DEF p
      <4>2. a \in Nat /\ b \in Nat /\ AllAt(s, price) \in Nat
        BY <3>5, SumsAre
      <4> HIDE DEF a, b
      <4>3. AllAt(k1, price) = AllAt(s, price) + b
        BY <3>3, <4>1, <4>2
      <4> QED BY <4>3 DEF b
    <3>7. \A k \in 1 .. Len(s[c]) : s[c][k].count <= StackSize
      BY DEF NoneOver
    <3>8. n + merged <= StackSize /\ (n # 0 => n + merged # 0)
      BY <1>3, <2>1, <3>1 DEF n
    <3>9. \A k \in 1 .. Len(s[c]) : k1[c][k].count <= StackSize
                                    /\ (s[c][k].count # 0 => k1[c][k].count # 0)
      <4>1. ASSUME NEW k \in 1 .. Len(s[c])
            PROVE  k1[c][k].count <= StackSize /\ (s[c][k].count # 0 => k1[c][k].count # 0)
        <5>1. CASE k = at
          <6>1. k1[c][k].count = n + merged /\ s[c][k].count = n
            BY <3>3, <5>1 DEF n
          <6> QED BY <3>8, <6>1
        <5>2. CASE k # at
          <6>1. k1[c][k] = s[c][k]
            BY <3>3, <5>2
          <6> QED BY <3>7, <6>1
        <5> QED BY <5>1, <5>2
      <4> QED BY <4>1
    <3> QED BY <3>2, <3>3, <3>6, <3>9
  <2>2. CASE ~same
    <3>1. kept = s /\ merged = 0
      BY <2>2 DEF merged
    <3> HIDE DEF kept
    <3>2. p * 0 = 0
      BY <1>2
    <3>3. AllAt(s, price) \in Nat
      BY SumsAre
    <3> QED BY <3>1, <3>2, <3>3 DEF NoneOver
  <2> QED BY <2>1, <2>2
<1> HIDE DEF kept
<1>5. CASE merged = item.count
  <2>1. t = kept
    BY <1>1, <1>5
  <2>2. AtPrice(item, price) = p * merged
    BY <1>5 DEF AtPrice, p
  <2>3. NoneOver(kept) /\ (NoneEmpty(s) => NoneEmpty(kept))
    BY <1>4 DEF NoneOver, NoneEmpty
  <2>4. \A k \in 1 .. Len(s[c]) : k + (Len(kept[c]) - Len(s[c])) = k
    BY <1>2, <1>4
  <2> HIDE DEF t
  <2>5. AllAt(t, price) = AllAt(s, price) + AtPrice(item, price)
    BY <1>4, <2>1, <2>2
  <2>6. HasPut(s, t, c, at, item, price)
    BY <1>2, <1>4, <2>1, <2>3, <2>4, <2>5 DEF HasPut
  <2> QED BY <2>6 DEF t
<1>6. CASE merged # item.count
  <2> DEFINE l == kept[c]
             longer == <<new>> \o l
             n == Len(s[c])
  <2>1. /\ new \in CoinItems /\ new.count # 0 /\ new.count <= StackSize
        /\ new.kind = item.kind /\ new.count = extra
    <3>1. new = [kind |-> item.kind, count |-> extra]
      BY DEF Coins!Stack, extra
    <3> HIDE DEF new
    <3>2. item.kind \in CoinKinds /\ extra \in Nat /\ extra # 0 /\ extra <= StackSize
      BY <1>2, <1>6, <1>31
    <3> QED BY <3>1, <3>2 DEF CoinItems
  <2> HIDE DEF new
  <2>2. l \in ItemLists /\ Len(l) = n
    BY <1>4 DEF CoinStates
  <2> HIDE DEF l
  <2>3. /\ longer \in ItemLists /\ Len(longer) = n + 1 /\ longer[1] = new
        /\ \A k \in 1 .. n : longer[k + 1] = l[k]
        /\ SumAt(longer, price) = AtPrice(new, price) + SumAt(l, price)
    BY <2>1, <2>2, SumPrepends
  <2> HIDE DEF longer
  <2>4. t = Relaid(kept, c, longer)
    BY <1>1, <1>6 DEF longer, l, Relaid
  <2>5. /\ t \in CoinStates /\ t[c] = longer
        /\ \A d \in Coins!Cylinders : d # c => t[d] = kept[d]
        /\ AllAt(t, price) = AllAt(kept, price) + SumAt(longer, price) - SumAt(kept[c], price)
    <3> HIDE DEF t
    <3>1. kept \in CoinStates /\ longer \in ItemLists
      BY <1>4, <2>3
    <3> QED BY <2>4, <3>1, CellChanges
  <2> HIDE DEF t
  <2>6. \A k \in 1 .. n + 1 : k = 1 \/ (k - 1 \in 1 .. n /\ longer[k] = l[k - 1])
    BY <1>2, <2>3
  <2>7. \A k \in 1 .. n + 1 : longer[k].count <= StackSize
    BY <1>4, <2>1, <2>3, <2>6 DEF l
  <2>8. NoneEmpty(s) => \A k \in 1 .. n + 1 : longer[k].count # 0
    BY <1>4, <2>1, <2>3, <2>6 DEF l, NoneEmpty
  <2>9. NoneOver(t)
    BY <1>4, <2>3, <2>5, <2>7 DEF NoneOver
  <2>10. NoneEmpty(s) => NoneEmpty(t)
    BY <1>4, <2>3, <2>5, <2>8 DEF NoneEmpty
  <2>11. AllAt(t, price) = AllAt(s, price) + AtPrice(item, price)
    <3> DEFINE a == p * merged
               b == p * extra
    <3>1. AtPrice(new, price) = b /\ AllAt(kept, price) = AllAt(s, price) + a
      BY <1>4, <2>1 DEF AtPrice, p
    <3>2. AtPrice(item, price) = a + b /\ a \in Nat /\ b \in Nat
      <4>1. a \in Nat /\ b \in Nat /\ p * (merged + extra) = a + b
        BY <1>2, <1>30, <1>31, Products
      <4> QED BY <1>31, <4>1 DEF AtPrice, p
    <3> HIDE DEF a, b
    <3>3. SumAt(l, price) \in Nat /\ AllAt(s, price) \in Nat
      BY <2>2, SumIsNat, SumsAre
    <3> QED BY <2>3, <2>5, <3>1, <3>2, <3>3 DEF l
  <2>12. Len(t[c]) = n + 1 /\ \A k \in 1 .. n : k # at => t[c][k + (Len(t[c]) - n)] = s[c][k]
    <3>1. Len(t[c]) = n + 1 /\ (n + 1) - n = 1
      BY <1>2, <2>3, <2>5
    <3> QED BY <1>4, <2>3, <2>5, <3>1 DEF l
  <2>13. item.count # 0 /\ ~(/\ at \in 1 .. n /\ s[c][at].kind = item.kind
                             /\ item.count <= StackSize - s[c][at].count)
    BY <1>2, <1>3, <1>6
  <2>14. HasPut(s, t, c, at, item, price)
    BY <1>2, <1>4, <2>5, <2>9, <2>10, <2>11, <2>12, <2>13 DEF HasPut
  <2> QED BY <2>14 DEF t
<1> QED BY <1>5, <1>6
-----------------------------------------------------------------------------
(* Coins that are paid out.                                                *)
LEMMA CarriedAre ==
  /\ DOMAIN Coins!Carried = 1 .. 3
  /\ Coins!Carried[1] = "slot" /\ Coins!Carried[2] = "pack" /\ Coins!Carried[3] = "bag"
  /\ \A n \in 1 .. 3 : Coins!Carried[n] \in Coins!Cylinders \ {"floor"}
  /\ \A c \in Coins!Cylinders \ {"floor"} : \E n \in 1 .. 3 : Coins!Carried[n] = c
BY DEF Coins!Carried, Coins!Cylinders

LEMMA SizesAre ==
  /\ \A c \in Coins!Cylinders \ {"floor"} : Coins!Size(c) \in Nat
  /\ Coins!Size("slot") = 1 /\ Coins!Size("pack") = PackSize /\ Coins!Size("bag") = BagSize
BY CoinsAreAssumed DEF Coins!Size, Coins!Cylinders

LEMMA SearchFinds ==
  ASSUME NEW s, Coins!Search(s) # "none"
  PROVE  Coins!Search(s) \in Coins!Cylinders \ {"floor"} /\ ~Coins!Full(s, Coins!Search(s))
<1> DEFINE free == {i \in DOMAIN Coins!Carried : ~Coins!Full(s, Coins!Carried[i])}
           i == CHOOSE i \in free : \A j \in free : i <= j
<1>1. free \subseteq 1 .. 3 /\ free \subseteq Nat
  BY CarriedAre
<1>2. free # {} /\ Coins!Search(s) = Coins!Carried[i]
  BY Zenon DEF Coins!Search
<1>3. i \in free
  <2> HIDE DEF free
  <2>1. \E k \in free : \A j \in free : k <= j
    BY <1>1, <1>2, LeastNumber
  <2> QED BY <2>1
<1> HIDE DEF i
<1> QED BY <1>1, <1>2, <1>3, CarriedAre

LEMMA InternalAddKeeps ==
  ASSUME NEW s, CoinsSound(s), NEW price \in PriceLists, NEW able,
         NEW item \in CoinItems, item.count \in 1 .. StackSize
  PROVE  LET t == Coins!InternalAddItem(s, able, item) IN
         CoinsSound(t) /\ AllAt(t, price) = AllAt(s, price) + AtPrice(item, price)
<1> DEFINE t == Coins!InternalAddItem(s, able, item)
<1>1. s \in CoinStates /\ FitsIn(s) /\ NoneOver(s) /\ NoneEmpty(s) /\ item.count <= StackSize
  BY CoinsAreAssumed DEF CoinsSound
<1>2. PICK c \in Coins!Cylinders, at \in Int :
        t = Coins!Put(s, c, at, item) /\ ~Coins!Full(s, c)
  <2>1. CASE Coins!Search(s) # "none" /\ item.kind \in able
    <3>1. t = Coins!Put(s, Coins!Search(s), 0, item)
      BY <2>1, Zenon DEF Coins!InternalAddItem
    <3> QED BY <2>1, <3>1, SearchFinds
  <2>2. CASE ~(Coins!Search(s) # "none" /\ item.kind \in able)
    <3>1. t = Coins!Put(s, "floor", 1, item)
      BY <2>2, Zenon DEF Coins!InternalAddItem
    <3> QED BY <3>1 DEF Coins!Full, Coins!Cylinders
  <2> QED BY <2>1, <2>2
<1> HIDE DEF t
<1>3. /\ t \in CoinStates /\ NoneOver(t) /\ NoneEmpty(t)
      /\ \A d \in Coins!Cylinders : d # c => t[d] = s[d]
      /\ Len(s[c]) \in Nat /\ Len(t[c]) \in {Len(s[c]), Len(s[c]) + 1}
      /\ AllAt(t, price) = AllAt(s, price) + AtPrice(item, price)
  <2>1. HasPut(s, t, c, at, item, price)
    BY <1>1, <1>2, PutIs
  <2> QED BY <1>1, <2>1 DEF HasPut
<1>4. FitsIn(t)
  <2> SUFFICES ASSUME NEW d \in Coins!Cylinders \ {"floor"} PROVE Len(t[d]) <= Coins!Size(d)
    BY DEF FitsIn
  <2>1. CASE d = c
    <3>1. ~(Len(s[c]) >= Coins!Size(c)) /\ Coins!Size(c) \in Nat
      BY <1>2, <2>1, SizesAre DEF Coins!Full
    <3> QED BY <1>3, <2>1, <3>1
  <2>2. CASE d # c
    BY <1>1, <1>3, <2>2 DEF FitsIn
  <2> QED BY <2>1, <2>2
<1> QED BY <1>3, <1>4 DEF CoinsSound, t

Payments == [s : {s \in CoinStates : CoinsSound(s)}, left : Nat]
PaidOne(q, able, kind) ==
  LET m == Coins!Least(StackSize, q.left) IN
  IF q.left = 0 THEN q
  ELSE [s |-> Coins!InternalAddItem(q.s, able, Coins!Stack(kind, m)), left |-> q.left - m]

LEMMA LeastIs ==
  ASSUME NEW a \in Nat, NEW b \in Nat
  PROVE  LET m == Coins!Least(a, b) IN
         m \in Nat /\ m <= a /\ m <= b /\ (m = a \/ m = b) /\ a - m \in Nat /\ b - m \in Nat
BY DEF Coins!Least

LEMMA PaidOneKeeps ==
  ASSUME NEW q \in Payments, NEW able, NEW kind \in CoinKinds, NEW price \in PriceLists
  PROVE  LET r == PaidOne(q, able, kind) IN
         /\ r \in Payments /\ (q.left = 0 => r.left = 0) /\ (q.left # 0 => r.left < q.left)
         /\ AllAt(r.s, price) + price[kind] * r.left = AllAt(q.s, price) + price[kind] * q.left
<1> DEFINE r == PaidOne(q, able, kind)
           m == Coins!Least(StackSize, q.left)
           item == Coins!Stack(kind, m)
           p == price[kind]
<1>1. q.s \in CoinStates /\ CoinsSound(q.s) /\ q.left \in Nat
  BY DEF Payments
<1>2. p \in Nat
  BY DEF PriceLists
<1>3. CASE q.left = 0
  <2>1. r = q
    BY <1>3 DEF PaidOne
  <2> HIDE DEF r
  <2> QED BY <1>3, <2>1 DEF r
<1>4. CASE q.left # 0
  <2>1. /\ m \in 1 .. StackSize /\ q.left - m \in Nat /\ q.left - m < q.left
        /\ m \in Nat /\ m <= q.left
    <3> HIDE DEF m
    <3>1. m \in Nat /\ m <= StackSize /\ m <= q.left /\ (m = StackSize \/ m = q.left)
      BY <1>1, LeastIs, CoinsAreAssumed DEF m
    <3> QED BY <1>1, <1>4, <3>1, CoinsAreAssumed
  <2> HIDE DEF m
  <2>2. item \in CoinItems /\ item.count = m /\ item.kind = kind
    BY <2>1 DEF Coins!Stack, CoinItems
  <2> HIDE DEF item
  <2> DEFINE t == Coins!InternalAddItem(q.s, able, item)
  <2>3. CoinsSound(t) /\ AllAt(t, price) = AllAt(q.s, price) + AtPrice(item, price)
    BY <1>1, <2>1, <2>2, InternalAddKeeps
  <2>4. r = [s |-> t, left |-> q.left - m]
    BY <1>4 DEF PaidOne, m, item
  <2> HIDE DEF t, r
  <2>5. t \in CoinStates
    BY <2>3 DEF CoinsSound
  <2>6. r \in Payments /\ r.s = t /\ r.left = q.left - m
    BY <2>1, <2>3, <2>4, <2>5 DEF Payments
  <2>7. AtPrice(item, price) = p * m
    BY <2>2 DEF AtPrice
  <2> HIDE DEF p
  <2>8. p * m \in Nat /\ p * q.left \in Nat /\ p * (q.left - m) = p * q.left - p * m
    BY <1>1, <1>2, <2>1, Products
  <2>9. AllAt(q.s, price) \in Nat
    BY <1>1, SumsAre
  <2>10. AllAt(r.s, price) + p * r.left = AllAt(q.s, price) + p * q.left
    <3> DEFINE a == p * m
               b == p * q.left
    <3>1. AllAt(r.s, price) = AllAt(q.s, price) + a /\ p * r.left = b - a
      BY <2>3, <2>6, <2>7, <2>8
    <3>2. a \in Nat /\ b \in Nat
      BY <2>8
    <3> HIDE DEF a, b
    <3>3. AllAt(r.s, price) + p * r.left = AllAt(q.s, price) + b
      BY <2>9, <3>1, <3>2
    <3> QED BY <3>3 DEF b
  <2> QED BY <1>4, <2>1, <2>6, <2>10 DEF r, p
<1> QED BY <1>3, <1>4

Paying(f, s, able, kind, n) ==
  f = [k \in 0 .. n |-> IF k = 0 THEN [s |-> s, left |-> n] ELSE PaidOne(f[k - 1], able, kind)]

LEMMA PayingExists ==
  ASSUME NEW s, CoinsSound(s), NEW able, NEW kind \in CoinKinds, NEW n \in Nat,
         NEW price \in PriceLists
  PROVE  \E f : Paying(f, s, able, kind, n)
<1> DEFINE first == [s |-> s, left |-> n]
           step == [y \in (1 .. n) \X Payments |-> PaidOne(y[2], able, kind)]
<1>1. first \in Payments
  BY DEF Payments, CoinsSound
<1>2. \A q \in Payments : PaidOne(q, able, kind) \in Payments
  BY PaidOneKeeps
<1> HIDE DEF first
<1>3. \A k \in 1 .. n : \A q \in Payments : step[<<k, q>>] = PaidOne(q, able, kind)
  OBVIOUS
<1> HIDE DEF step
<1>4. Closed(step, n, Payments)
  BY <1>2, <1>3, Zenon DEF Closed
<1>5. PICK f : Repeats(f, first, step, n, Payments)
  BY <1>1, <1>4, RepeatingExists
<1>6. \A k \in 0 .. n : k # 0 => step[<<k, f[k - 1]>>] = PaidOne(f[k - 1], able, kind)
  BY <1>3, <1>5, Zenon DEF Repeats
<1> QED BY <1>5, <1>6, Zenon DEF Paying, Repeats, Solves, first

(* Coins of a kind that are paid out are there, in stacks that have room.  *)
LEMMA PaidKeeps ==
  ASSUME NEW s, CoinsSound(s), NEW able, NEW kind \in CoinKinds, NEW n \in Nat,
         NEW price \in PriceLists
  PROVE  LET t == Coins!Paid(s, able, kind, n) IN
         CoinsSound(t) /\ AllAt(t, price) = AllAt(s, price) + price[kind] * n
<1> DEFINE p == price[kind]
           f == CHOOSE f : f = [k \in 0 .. n |->
                  IF k = 0 THEN [s |-> s, left |-> n]
                  ELSE LET q == f[k - 1]
                           m == Coins!Least(StackSize, q.left)
                       IN IF q.left = 0 THEN q
                          ELSE [s |-> Coins!InternalAddItem(q.s, able, Coins!Stack(kind, m)),
                                left |-> q.left - m]]
<1>1. Coins!Paid(s, able, kind, n) = f[n].s
  BY Zenon DEF Coins!Paid
<1>2. Paying(f, s, able, kind, n)
  <2>1. \E g : Paying(g, s, able, kind, n)
    BY PayingExists
  <2>2. f = CHOOSE g : Paying(g, s, able, kind, n)
    BY Zenon DEF Paying, PaidOne
  <2> HIDE DEF f
  <2> QED BY <2>1, <2>2, Zenon
<1> HIDE DEF f
<1>3. \A k \in 0 .. n : f[k] = IF k = 0 THEN [s |-> s, left |-> n]
                              ELSE PaidOne(f[k - 1], able, kind)
  BY <1>2, Zenon DEF Paying
<1>4. p \in Nat
  BY DEF PriceLists
<1> DEFINE all == AllAt(s, price) + p * n
           T == {k \in 0 .. n : /\ f[k] \in Payments /\ (f[k].left + k <= n \/ f[k].left = 0)
                                /\ AllAt(f[k].s, price) + p * f[k].left = all}
<1> HIDE DEF p, all
<1>5. 0 \in T
  <2>1. f[0] = [s |-> s, left |-> n]
    BY <1>3
  <2>2. f[0] \in Payments /\ f[0].s = s /\ f[0].left = n
    BY <2>1 DEF Payments, CoinsSound
  <2> QED BY <2>2 DEF all
<1>6. ASSUME NEW k \in 1 .. n, k - 1 \in T PROVE k \in T
  <2> DEFINE q == f[k - 1]
             r == f[k]
  <2>1. /\ q \in Payments /\ (q.left + (k - 1) <= n \/ q.left = 0)
        /\ AllAt(q.s, price) + p * q.left = all
    BY <1>6
  <2>2. k \in 0 .. n /\ k # 0
    OBVIOUS
  <2>3. r = PaidOne(q, able, kind)
    BY <1>3, <2>2
  <2>4. /\ r \in Payments /\ (q.left = 0 => r.left = 0) /\ (q.left # 0 => r.left < q.left)
        /\ AllAt(r.s, price) + p * r.left = AllAt(q.s, price) + p * q.left
    BY <2>1, <2>3, PaidOneKeeps DEF p
  <2> HIDE DEF q, r
  <2>5. r.left \in Nat /\ q.left \in Nat
    BY <2>1, <2>4 DEF Payments
  <2>6. r.left + k <= n \/ r.left = 0
    BY <2>1, <2>4, <2>5
  <2>7. AllAt(r.s, price) + p * r.left = all
    BY <2>1, <2>4, Zenon
  <2> QED BY <2>2, <2>4, <2>6, <2>7 DEF r
<1> HIDE DEF T
<1>7. n \in T
  BY <1>5, <1>6, Counting
<1>8. /\ f[n] \in Payments /\ (f[n].left + n <= n \/ f[n].left = 0)
      /\ AllAt(f[n].s, price) + p * f[n].left = all
  BY <1>7 DEF T
<1>9. f[n].left = 0 /\ CoinsSound(f[n].s) /\ f[n].s \in CoinStates
  BY <1>8 DEF Payments
<1>10. p * 0 = 0 /\ AllAt(f[n].s, price) \in Nat
  BY <1>4, <1>9, SumsAre
<1>11. AllAt(f[n].s, price) = all
  BY <1>8, <1>9, <1>10
<1> QED BY <1>1, <1>9, <1>11 DEF all, p

LEMMA Division ==
  ASSUME NEW a \in Nat, NEW b \in Nat, b # 0
  PROVE  /\ a \div b \in Nat /\ a % b \in Nat /\ a = b * (a \div b) + (a % b)
         /\ b = 1 => a % b = 0
<1>1. a \div b \in Nat /\ a % b \in 0 .. b - 1
  OBVIOUS
<1>2. a \div b \in Int /\ a % b \in Int
  BY <1>1
<1>3. a = b * (a \div b) + (a % b)
  BY <1>2, Z3
<1>4. a % b \in Nat /\ (b = 1 => a % b = 0)
  BY <1>1
<1> QED BY <1>1, <1>3, <1>4

LEMMA PricesAre ==
  /\ Coins!Prices \in PriceLists
  /\ \A kind \in Coins!KindSet : /\ Coins!Prices[kind] = Worth[kind]
                                 /\ Worth[kind] \in Nat /\ Worth[kind] # 0
<1>1. \A kind \in Coins!KindSet : kind # "bag" /\ Worth[kind] \in Nat /\ Worth[kind] # 0
  BY CoinsAreAssumed
<1>2. Coins!Prices = [k \in CoinKinds |-> IF k = "bag" THEN 0 ELSE Worth[k]]
  BY DEF Coins!Prices, CoinKinds
<1>3. \A k \in CoinKinds : k \in Coins!KindSet \/ k = "bag"
  BY DEF CoinKinds
<1>4. \A k \in CoinKinds : (IF k = "bag" THEN 0 ELSE Worth[k]) \in Nat
  BY <1>1, <1>3
<1>5. \A k \in CoinKinds : Coins!Prices[k] = IF k = "bag" THEN 0 ELSE Worth[k]
  BY <1>2
<1>6. Coins!Prices \in PriceLists
  BY <1>2, <1>4 DEF PriceLists
<1>7. \A kind \in Coins!KindSet : kind \in CoinKinds
  BY DEF CoinKinds
<1> QED BY <1>1, <1>5, <1>6, <1>7

LEMMA KindsAre ==
  /\ Len(Kinds) \in Nat /\ Len(Kinds) # 0
  /\ \A n \in 1 .. Len(Kinds) : Kinds[n] \in Coins!KindSet /\ Kinds[n] \in CoinKinds
BY CoinsAreAssumed DEF CoinKinds

PaidKind(q, able, kind) ==
  [s |-> Coins!Paid(q.s, able, kind, q.left \div Worth[kind]), left |-> q.left % Worth[kind]]

LEMMA PaidKindKeeps ==
  ASSUME NEW q \in Payments, NEW able, NEW kind \in Coins!KindSet
  PROVE  LET r == PaidKind(q, able, kind) IN
         /\ r \in Payments /\ (Worth[kind] = 1 => r.left = 0)
         /\ AllAt(r.s, Coins!Prices) + r.left = AllAt(q.s, Coins!Prices) + q.left
<1> DEFINE n == q.left \div Worth[kind]
           m == q.left % Worth[kind]
           t == Coins!Paid(q.s, able, kind, n)
           r == PaidKind(q, able, kind)
           a == Worth[kind] * n
<1>1. q.s \in CoinStates /\ CoinsSound(q.s) /\ q.left \in Nat /\ AllAt(q.s, Coins!Prices) \in Nat
  BY PricesAre, SumsAre DEF Payments
<1>2. Worth[kind] \in Nat /\ Worth[kind] # 0 /\ Coins!Prices[kind] = Worth[kind]
      /\ kind \in CoinKinds
  BY PricesAre DEF CoinKinds
<1>3. n \in Nat /\ m \in Nat /\ q.left = a + m /\ (Worth[kind] = 1 => m = 0)
  BY <1>1, <1>2, Division
<1>4. r = [s |-> t, left |-> m]
  BY DEF PaidKind
<1> HIDE DEF r, m, n
<1>5. a \in Nat
  BY <1>2, <1>3, Products
<1>6. CoinsSound(t) /\ AllAt(t, Coins!Prices) = AllAt(q.s, Coins!Prices) + a
  BY <1>1, <1>2, <1>3, PaidKeeps, PricesAre
<1> HIDE DEF t, a
<1>7. r \in Payments /\ r.s = t /\ r.left = m
  BY <1>3, <1>4, <1>6 DEF Payments, CoinsSound
<1>8. AllAt(r.s, Coins!Prices) + r.left = AllAt(q.s, Coins!Prices) + q.left
  BY <1>1, <1>3, <1>5, <1>6, <1>7
<1> QED BY <1>3, <1>7, <1>8 DEF r

Adding(f, s, able, money, n) ==
  f = [k \in 0 .. n |-> IF k = 0 THEN [s |-> s, left |-> money]
                        ELSE PaidKind(f[k - 1], able, Kinds[k])]

LEMMA AddingExists ==
  ASSUME NEW s, CoinsSound(s), NEW able, NEW money \in Nat
  PROVE  \E f : Adding(f, s, able, money, Len(Kinds))
<1> DEFINE n == Len(Kinds)
           first == [s |-> s, left |-> money]
           step == [y \in (1 .. n) \X Payments |-> PaidKind(y[2], able, Kinds[y[1]])]
<1>1. first \in Payments /\ n \in Nat
  BY KindsAre DEF Payments, CoinsSound
<1>2. \A q \in Payments, kind \in Coins!KindSet : PaidKind(q, able, kind) \in Payments
  BY PaidKindKeeps
<1> HIDE DEF first
<1>3. \A k \in 1 .. n : \A q \in Payments : step[<<k, q>>] = PaidKind(q, able, Kinds[k])
  OBVIOUS
<1>4. \A k \in 1 .. n : Kinds[k] \in Coins!KindSet
  BY KindsAre
<1> HIDE DEF step, n
<1>5. Closed(step, n, Payments)
  BY <1>2, <1>3, <1>4, Zenon DEF Closed
<1>6. PICK f : Repeats(f, first, step, n, Payments)
  BY <1>1, <1>5, RepeatingExists
<1>7. \A k \in 0 .. n : k # 0 => step[<<k, f[k - 1]>>] = PaidKind(f[k - 1], able, Kinds[k])
  BY <1>3, <1>6, Zenon DEF Repeats
<1> QED BY <1>6, <1>7, Zenon DEF Adding, Repeats, Solves, first, n

(* Money that is paid out is there, to the last coin.                      *)
LEMMA AddedKeeps ==
  ASSUME NEW s, CoinsSound(s), NEW able, NEW money \in Nat
  PROVE  LET t == Coins!MoneyAdded(s, able, money) IN
         CoinsSound(t) /\ AllAt(t, Coins!Prices) = AllAt(s, Coins!Prices) + money
<1> DEFINE n == Len(Kinds)
           f == CHOOSE f : f = [k \in 0 .. n |->
                  IF k = 0 THEN [s |-> s, left |-> money]
                  ELSE LET q == f[k - 1]
                           kind == Kinds[k]
                       IN [s |-> Coins!Paid(q.s, able, kind, q.left \div Worth[kind]),
                           left |-> q.left % Worth[kind]]]
<1>1. Coins!MoneyAdded(s, able, money) = f[n].s
  BY Zenon DEF Coins!MoneyAdded
<1>2. Adding(f, s, able, money, n)
  <2>1. \E g : Adding(g, s, able, money, n)
    BY AddingExists
  <2>2. f = CHOOSE g : Adding(g, s, able, money, n)
    BY Zenon DEF Adding, PaidKind
  <2> HIDE DEF f, n
  <2> QED BY <2>1, <2>2, Zenon
<1> HIDE DEF f
<1>3. /\ n \in Nat /\ n # 0 /\ Worth[Kinds[n]] = 1
      /\ \A k \in 1 .. n : Kinds[k] \in Coins!KindSet
  BY KindsAre, CoinsAreAssumed
<1> HIDE DEF n
<1>4. \A k \in 0 .. n : f[k] = IF k = 0 THEN [s |-> s, left |-> money]
                               ELSE PaidKind(f[k - 1], able, Kinds[k])
  BY <1>2, Zenon DEF Adding
<1> DEFINE all == AllAt(s, Coins!Prices) + money
           T == {k \in 0 .. n : /\ f[k] \in Payments
                                /\ AllAt(f[k].s, Coins!Prices) + f[k].left = all}
<1> HIDE DEF all
<1>5. 0 \in T
  <2>1. f[0] = [s |-> s, left |-> money]
    BY <1>3, <1>4
  <2>2. f[0] \in Payments /\ f[0].s = s /\ f[0].left = money
    BY <2>1 DEF Payments, CoinsSound
  <2> QED BY <1>3, <2>2 DEF all
<1>6. ASSUME NEW k \in 1 .. n, k - 1 \in T PROVE k \in T
  <2> DEFINE q == f[k - 1]
             r == f[k]
  <2>1. q \in Payments /\ AllAt(q.s, Coins!Prices) + q.left = all
    BY <1>6
  <2>2. k \in 0 .. n /\ k # 0
    BY <1>3
  <2>3. r = PaidKind(q, able, Kinds[k]) /\ Kinds[k] \in Coins!KindSet
    BY <1>3, <1>4, <2>2
  <2>4. r \in Payments /\ AllAt(r.s, Coins!Prices) + r.left = AllAt(q.s, Coins!Prices) + q.left
    BY <2>1, <2>3, PaidKindKeeps
  <2> QED BY <2>1, <2>2, <2>4
<1> HIDE DEF T
<1>7. \A k \in 0 .. n : k \in T
  BY <1>3, <1>5, <1>6, Counting
<1>8. n \in 0 .. n /\ n - 1 \in 0 .. n /\ n \in 1 .. n
  BY <1>3
<1>9. /\ f[n] \in Payments /\ AllAt(f[n].s, Coins!Prices) + f[n].left = all
      /\ f[n - 1] \in Payments
  BY <1>7, <1>8 DEF T
<1>10. f[n].left = 0
  <2>1. f[n] = PaidKind(f[n - 1], able, Kinds[n]) /\ Kinds[n] \in Coins!KindSet
    BY <1>3, <1>4, <1>8
  <2> QED BY <1>3, <1>9, <2>1, PaidKindKeeps
<1>11. f[n].s \in CoinStates /\ CoinsSound(f[n].s) /\ AllAt(f[n].s, Coins!Prices) \in Nat
  BY <1>9, PricesAre, SumsAre DEF Payments
<1>12. AllAt(f[n].s, Coins!Prices) = all
  BY <1>9, <1>10, <1>11
<1> QED BY <1>1, <1>11, <1>12 DEF all
-----------------------------------------------------------------------------
(* Coins that are taken.                                                   *)
HasTaken(s, t, c, at, m, price) ==
  /\ t \in CoinStates /\ (FitsIn(s) => FitsIn(t)) /\ (NoneOver(s) => NoneOver(t))
  /\ price[s[c][at].kind] * m \in Nat
  /\ AllAt(t, price) = AllAt(s, price) - price[s[c][at].kind] * m
  /\ c # "floor" => CarriedAt(t, price) = CarriedAt(s, price) - price[s[c][at].kind] * m

LEMMA TakingIs ==
  ASSUME NEW s \in CoinStates, NEW price \in PriceLists, NEW c \in Coins!Cylinders,
         NEW at \in 1 .. Len(s[c]), NEW m \in Nat, m <= s[c][at].count
  PROVE  HasTaken(s, Coins!Taken(s, c, at, m), c, at, m, price)
<1> DEFINE n == s[c][at].count
           t == Recounted(s, c, at, n - m)
           p == price[s[c][at].kind]
<1>1. Coins!Taken(s, c, at, m) = t
  BY TakenIs
<1>2. s[c][at] \in CoinItems
  <2>1. s[c] \in ItemLists
    BY DEF CoinStates
  <2> QED BY <2>1 DEF ItemLists
<1>3. n \in Nat /\ p \in Nat
  BY <1>2 DEF CoinItems, PriceLists
<1>4. AtPrice(s[c][at], price) = p * n
  BY DEF AtPrice
<1> DEFINE r == n - m
<1>5. r \in Nat /\ r <= n
  <2>1. n \in Nat /\ m \in Nat /\ m <= n
    BY <1>3
  <2> HIDE DEF n
  <2> QED BY <2>1
<1> HIDE DEF r
<1>6. /\ t \in CoinStates /\ \A d \in Coins!Cylinders : Len(t[d]) = Len(s[d])
      /\ t[c][at].count = r
      /\ \A d \in Coins!Cylinders : d # c => t[d] = s[d]
      /\ \A k \in 1 .. Len(s[c]) : k # at => t[c][k] = s[c][k]
      /\ AllAt(t, price) = AllAt(s, price) + price[s[c][at].kind] * r - AtPrice(s[c][at], price)
      /\ CarriedAt(t, price) = CarriedAt(s, price)
           + IF c = "floor" THEN 0 ELSE price[s[c][at].kind] * r - AtPrice(s[c][at], price)
  <2>1. t = Recounted(s, c, at, r)
    BY DEF r
  <2>2. r \in Nat
    BY <1>5
  <2> HIDE DEF t
  <2>3. HasRecounted(s, Recounted(s, c, at, r), c, at, r, price)
    BY <2>2, RecountedIs
  <2> QED BY <2>1, <2>3 DEF HasRecounted
<1> HIDE DEF t
<1>7. FitsIn(s) => FitsIn(t)
  BY <1>6 DEF FitsIn
<1>8. NoneOver(s) => NoneOver(t)
  <2> SUFFICES ASSUME NoneOver(s), NEW d \in Coins!Cylinders, NEW k \in 1 .. Len(t[d])
               PROVE  t[d][k].count <= StackSize
    BY DEF NoneOver
  <2>1. k \in 1 .. Len(s[d])
    BY <1>6
  <2>2. s[d][k].count <= StackSize
    BY <2>1 DEF NoneOver
  <2>3. CASE d = c /\ k = at
    <3>1. t[d][k].count = r /\ n <= StackSize /\ StackSize \in Nat
      BY <1>6, <2>2, <2>3, CoinsAreAssumed
    <3> HIDE DEF n
    <3> QED BY <1>3, <1>5, <3>1
  <2>4. CASE ~(d = c /\ k = at)
    <3>1. t[d][k] = s[d][k]
      BY <1>6, <2>1, <2>4
    <3> QED BY <2>2, <3>1
  <2> QED BY <2>3, <2>4
<1> DEFINE a == p * n
           b == p * m
<1>9. a \in Nat /\ b \in Nat /\ p * r = a - b
  <2> HIDE DEF p, n
  <2> QED BY <1>3, Products DEF r
<1> HIDE DEF a, b
<1>10. AllAt(s, price) \in Nat /\ CarriedAt(s, price) \in Nat
  BY SumsAre
<1>11. price[s[c][at].kind] * r = a - b /\ AtPrice(s[c][at], price) = a
  BY <1>4, <1>9 DEF a
<1>12. /\ AllAt(t, price) = AllAt(s, price) - b
       /\ c # "floor" => CarriedAt(t, price) = CarriedAt(s, price) - b
  <2> DEFINE x == AllAt(s, price)
             y == CarriedAt(s, price)
             z == price[s[c][at].kind] * r
  <2>1. x \in Nat /\ y \in Nat /\ a \in Nat /\ b \in Nat /\ z = a - b
    BY <1>9, <1>10, <1>11
  <2>2. AllAt(t, price) = x + z - a /\ (c # "floor" => CarriedAt(t, price) = y + (z - a))
    BY <1>6, <1>11
  <2> HIDE DEF x, y, z
  <2>3. AllAt(t, price) = x - b /\ (c # "floor" => CarriedAt(t, price) = y - b)
    BY <2>1, <2>2
  <2> QED BY <2>3 DEF x, y
<1>13. HasTaken(s, t, c, at, m, price)
  BY <1>6, <1>7, <1>8, <1>9, <1>12 DEF HasTaken, b
<1> QED BY <1>1, <1>13

LEMMA SweptIs ==
  ASSUME NEW s \in CoinStates, FitsIn(s), NoneOver(s), NEW price \in PriceLists
  PROVE  LET t == Coins!Swept(s) IN
         CoinsSound(t) /\ AllAt(t, price) = AllAt(s, price)
<1> DEFINE t == Coins!Swept(s)
<1>1. t = [c \in Coins!Cylinders |-> Coins!Rest(s[c])]
  BY DEF Coins!Swept
<1> HIDE DEF t
<1>2. ASSUME NEW c \in Coins!Cylinders
      PROVE  /\ t[c] \in ItemLists /\ Len(t[c]) <= Len(s[c])
             /\ Len(t[c]) \in Nat /\ Len(s[c]) \in Nat
             /\ SumAt(t[c], price) = SumAt(s[c], price)
             /\ \A k \in 1 .. Len(t[c]) : t[c][k].count # 0 /\ t[c][k].count <= StackSize
  <2> DEFINE rest == Coins!Rest(s[c])
  <2>1. t[c] = rest /\ s[c] \in ItemLists
    BY <1>1 DEF CoinStates
  <2>2. /\ rest \in ItemLists /\ Len(rest) <= Len(s[c])
        /\ SumAt(rest, price) = SumAt(s[c], price)
        /\ \A k \in 1 .. Len(rest) : /\ rest[k].count # 0
                                     /\ \E j \in 1 .. Len(s[c]) : rest[k] = s[c][j]
    BY <2>1, RestIs
  <2> HIDE DEF rest
  <2>3. Len(rest) \in Nat /\ Len(s[c]) \in Nat
    BY <2>1, <2>2 DEF ItemLists
  <2>4. \A j \in 1 .. Len(s[c]) : s[c][j].count <= StackSize
    BY DEF NoneOver
  <2> QED BY <2>1, <2>2, <2>3, <2>4
<1>3. t \in CoinStates
  <2>1. t = [c \in Coins!Cylinders |-> t[c]]
    BY <1>1
  <2> QED BY <1>2, <2>1 DEF CoinStates
<1>4. NoneOver(t) /\ NoneEmpty(t)
  BY <1>2 DEF NoneOver, NoneEmpty
<1>5. FitsIn(t)
  <2> SUFFICES ASSUME NEW c \in Coins!Cylinders \ {"floor"} PROVE Len(t[c]) <= Coins!Size(c)
    BY DEF FitsIn
  <2>1. Len(s[c]) <= Coins!Size(c) /\ Coins!Size(c) \in Nat
    BY SizesAre DEF FitsIn
  <2> QED BY <1>2, <2>1
<1>6. AllAt(t, price) = AllAt(s, price)
  <2>1. {"slot", "pack", "bag", "floor"} = Coins!Cylinders
    BY DEF Coins!Cylinders
  <2> QED BY <1>2, <2>1 DEF AllAt, CarriedAt
<1> QED BY <1>3, <1>4, <1>5, <1>6 DEF CoinsSound, t

(* What a player carries is found.                                         *)
LEMMA StacksAre ==
  ASSUME NEW s \in CoinStates
  PROVE  /\ \A e \in Coins!Stacks(s) :
              LET c == Coins!Carried[e.in] IN
              /\ e.in \in Nat /\ e.at \in Nat /\ c \in Coins!Cylinders \ {"floor"}
              /\ e.at \in 1 .. Len(s[c]) /\ Coins!ItemAt(s, e) = s[c][e.at]
              /\ Coins!ItemAt(s, e) \in CoinItems
         /\ \A c \in Coins!Cylinders \ {"floor"} : \A i \in 1 .. Len(s[c]) :
              \E e \in Coins!Stacks(s) : Coins!ItemAt(s, e) = s[c][i]
<1>1. \A c \in Coins!Cylinders : /\ DOMAIN s[c] = 1 .. Len(s[c])
                                 /\ \A i \in 1 .. Len(s[c]) : s[c][i] \in CoinItems
  BY DEF CoinStates, ItemLists
<1>2. ASSUME NEW e \in Coins!Stacks(s)
      PROVE  LET c == Coins!Carried[e.in] IN
             /\ e.in \in Nat /\ e.at \in Nat /\ c \in Coins!Cylinders \ {"floor"}
             /\ e.at \in 1 .. Len(s[c]) /\ Coins!ItemAt(s, e) = s[c][e.at]
             /\ Coins!ItemAt(s, e) \in CoinItems
  <2>1. PICK n \in 1 .. 3 : \E i \in DOMAIN s[Coins!Carried[n]] : e = [in |-> n, at |-> i]
    BY CarriedAre DEF Coins!Stacks
  <2>2. PICK i \in DOMAIN s[Coins!Carried[n]] : e = [in |-> n, at |-> i]
    BY <2>1
  <2>3. e.in = n /\ e.at = i /\ Coins!Carried[n] \in Coins!Cylinders \ {"floor"}
    BY <2>2, CarriedAre
  <2>4. i \in 1 .. Len(s[Coins!Carried[n]])
    BY <1>1, <2>3
  <2> QED BY <1>1, <2>3, <2>4 DEF Coins!ItemAt
<1>3. ASSUME NEW c \in Coins!Cylinders \ {"floor"}, NEW i \in 1 .. Len(s[c])
      PROVE  \E e \in Coins!Stacks(s) : Coins!ItemAt(s, e) = s[c][i]
  <2>1. PICK n \in 1 .. 3 : Coins!Carried[n] = c
    BY CarriedAre
  <2> DEFINE e == [in |-> n, at |-> i]
             At(k) == {[in |-> k, at |-> j] : j \in DOMAIN s[Coins!Carried[k]]}
             all == {At(k) : k \in DOMAIN Coins!Carried}
  <2>2. e \in At(n)
    BY <1>1, <2>1
  <2>20. At(n) \in all
    BY CarriedAre
  <2>21. Coins!Stacks(s) = UNION all
    BY Zenon DEF Coins!Stacks
  <2>3. e \in Coins!Stacks(s)
    <3> HIDE DEF e, At, all
    <3> QED BY <2>2, <2>20, <2>21
  <2>4. Coins!ItemAt(s, e) = s[c][i]
    BY <2>1 DEF Coins!ItemAt
  <2> QED BY <2>3, <2>4
<1> QED BY <1>2, <1>3

LEMMA FirstIsOf ==
  ASSUME NEW s \in CoinStates, NEW S, S \subseteq Coins!Stacks(s), S # {}
  PROVE  Coins!FirstOf(S) \in S
<1>1. \A e \in S : e.in \in Nat /\ e.at \in Nat
  BY StacksAre
<1>2. PICK n \in {e.in : e \in S} : \A m \in {e.in : e \in S} : n <= m
  <2>1. {e.in : e \in S} \subseteq Nat /\ {e.in : e \in S} # {}
    BY <1>1
  <2> QED BY <2>1, LeastNumber
<1> DEFINE Q == {e \in S : e.in = n}
<1>3. PICK i \in {e.at : e \in Q} : \A m \in {e.at : e \in Q} : i <= m
  <2>1. {e.at : e \in Q} \subseteq Nat /\ {e.at : e \in Q} # {}
    BY <1>1, <1>2
  <2> QED BY <2>1, LeastNumber
<1>4. PICK e \in Q : e.at = i
  BY <1>3
<1>5. ASSUME NEW f \in S PROVE e.in < f.in \/ (e.in = f.in /\ e.at <= f.at)
  <2>1. e.in = n /\ n <= f.in /\ n \in Nat /\ f.in \in Nat
    BY <1>1, <1>2, <1>4
  <2>2. CASE f.in = n
    BY <1>3, <1>4, <2>1, <2>2
  <2>3. CASE f.in # n
    BY <2>1, <2>3
  <2> QED BY <2>2, <2>3
<1>6. \E g \in S : \A f \in S : g.in < f.in \/ (g.in = f.in /\ g.at <= f.at)
  BY <1>4, <1>5
<1> QED BY <1>6, Zenon DEF Coins!FirstOf

LEMMA CheapestIs ==
  ASSUME NEW s \in CoinStates, CarriedAt(s, Coins!Prices) # 0
  PROVE  LET e == Coins!Cheapest(s) IN
         e \in Coins!Stacks(s) /\ AtPrice(Coins!ItemAt(s, e), Coins!Prices) > 0
<1> DEFINE stacks == Coins!Stacks(s)
           Value(e) == Coins!Prices[Coins!ItemAt(s, e).kind] * Coins!ItemAt(s, e).count
           coins == {e \in stacks : Value(e) > 0}
           least == {e \in coins : \A f \in coins : Value(e) <= Value(f)}
<1>1. Coins!Cheapest(s) = Coins!FirstOf(least)
  BY Zenon DEF Coins!Cheapest
<1>2. \A e : AtPrice(Coins!ItemAt(s, e), Coins!Prices) = Value(e)
  BY Zenon DEF AtPrice
<1>3. \A e \in stacks : Value(e) \in Nat
  <2>1. \A e \in stacks : Coins!ItemAt(s, e) \in CoinItems
    BY StacksAre
  <2> HIDE DEF stacks, Value
  <2> QED BY <1>2, <2>1, AtPriceIs, PricesAre
<1>4. coins # {}
  <2>1. PICK c \in Coins!Cylinders \ {"floor"} : SumAt(s[c], Coins!Prices) # 0
    <3>1. /\ {"slot", "pack", "bag"} = Coins!Cylinders \ {"floor"}
          /\ \A c \in Coins!Cylinders : SumAt(s[c], Coins!Prices) \in Nat
      BY SumsAre, PricesAre DEF Coins!Cylinders
    <3> QED BY <3>1 DEF CarriedAt
  <2>2. s[c] \in ItemLists /\ SumAt(s[c], Coins!Prices) \in Nat
    BY SumsAre, PricesAre
  <2>3. PICK k \in 1 .. Len(s[c]) : AtPrice(s[c][k], Coins!Prices) > 0
    <3>1. SumAt(s[c], Coins!Prices) > 0
      BY <2>1, <2>2
    <3> QED BY <2>2, <3>1, SumIsNat, PricesAre
  <2>4. PICK e \in stacks : Coins!ItemAt(s, e) = s[c][k]
    BY StacksAre
  <2> HIDE DEF stacks, Value
  <2>5. Value(e) > 0
    BY <1>2, <2>3, <2>4
  <2> QED BY <2>5
<1>5. least # {}
  <2> HIDE DEF Value, stacks
  <2>1. {Value(e) : e \in coins} \subseteq Nat /\ {Value(e) : e \in coins} # {}
    BY <1>3, <1>4
  <2>2. PICK v \in {Value(e) : e \in coins} : \A w \in {Value(e) : e \in coins} : v <= w
    BY <2>1, LeastNumber
  <2>3. PICK e \in coins : v = Value(e)
    BY <2>2
  <2>4. \A f \in coins : Value(e) <= Value(f)
    BY <2>2, <2>3
  <2> QED BY <2>3, <2>4
<1>6. least \subseteq coins /\ coins \subseteq stacks /\ \A e \in coins : Value(e) > 0
  OBVIOUS
<1> HIDE DEF least, coins, Value
<1>7. Coins!FirstOf(least) \in least
  BY <1>5, <1>6, FirstIsOf
<1> HIDE DEF stacks
<1>8. Coins!Cheapest(s) \in stacks /\ Value(Coins!Cheapest(s)) > 0
  BY <1>1, <1>6, <1>7
<1> QED BY <1>2, <1>8 DEF stacks

(* What is left to do in n steps that each do some of it is done then.     *)
LEMMA Exhausts ==
  ASSUME NEW n \in Nat, NEW f, NEW All, \A q \in All : q.left \in Nat,
         f[0] \in All, f[0].left <= n,
         \A k \in 1 .. n : f[k - 1] \in All =>
           /\ f[k] \in All
           /\ IF f[k - 1].left = 0 THEN f[k].left = 0 ELSE f[k].left < f[k - 1].left
  PROVE  f[n] \in All /\ f[n].left = 0
<1> DEFINE T == {k \in 0 .. n : f[k] \in All /\ (f[k].left + k <= n \/ f[k].left = 0)}
<1>1. 0 \in T
  OBVIOUS
<1>2. ASSUME NEW k \in 1 .. n, k - 1 \in T PROVE k \in T
  <2> DEFINE q == f[k - 1]
             r == f[k]
  <2>1. q \in All /\ (q.left + (k - 1) <= n \/ q.left = 0)
    BY <1>2
  <2>2. r \in All /\ IF q.left = 0 THEN r.left = 0 ELSE r.left < q.left
    BY <2>1
  <2> HIDE DEF q, r
  <2>3. q.left \in Nat /\ r.left \in Nat /\ k \in 0 .. n
    BY <2>1, <2>2
  <2>4. r.left + k <= n \/ r.left = 0
    BY <2>1, <2>2, <2>3
  <2> QED BY <2>2, <2>3, <2>4 DEF r
<1> HIDE DEF T
<1>3. n \in T
  BY <1>1, <1>2, Counting
<1> QED BY <1>3 DEF T

(* Money that is collected, with the change that is left of the last stack.*)
Balance(q) == AllAt(q.s, Coins!Prices) + q.change - q.left
Collections ==
  {q \in [s : CoinStates, left : Nat, change : Nat] :
     /\ FitsIn(q.s) /\ NoneOver(q.s) /\ q.left <= CarriedAt(q.s, Coins!Prices)
     /\ q.left # 0 => q.change = 0}
CollectOne(t) ==
  LET e == Coins!Cheapest(t.s)
      item == Coins!ItemAt(t.s, e)
      worth == Coins!Prices[item.kind] * item.count
      m == Coins!Least(t.left, worth)
  IN IF t.left = 0 THEN t
     ELSE [s |-> Coins!Taken(t.s, Coins!Carried[e.in], e.at, item.count),
           left |-> t.left - m, change |-> worth - m]

LEMMA CollectOneKeeps ==
  ASSUME NEW q \in Collections
  PROVE  LET r == CollectOne(q) IN
         /\ r \in Collections /\ Balance(r) = Balance(q)
         /\ IF q.left = 0 THEN r.left = 0 ELSE r.left < q.left
<1> DEFINE e == Coins!Cheapest(q.s)
           item == Coins!ItemAt(q.s, e)
           worth == Coins!Prices[item.kind] * item.count
           m == Coins!Least(q.left, worth)
           r == CollectOne(q)
           c == Coins!Carried[e.in]
           t == Coins!Taken(q.s, c, e.at, item.count)
<1>1. /\ q.s \in CoinStates /\ FitsIn(q.s) /\ NoneOver(q.s) /\ q.left \in Nat /\ q.change \in Nat
      /\ q.left <= CarriedAt(q.s, Coins!Prices) /\ (q.left # 0 => q.change = 0)
  BY DEF Collections
<1>2. CASE q.left = 0
  <2>1. r = q
    BY <1>2 DEF CollectOne
  <2> HIDE DEF r
  <2> QED BY <1>2, <2>1 DEF r
<1>3. CASE q.left # 0
  <2>0. r = [s |-> t, left |-> q.left - m, change |-> worth - m]
    BY <1>3 DEF CollectOne
  <2> HIDE DEF r
  <2>1. /\ CarriedAt(q.s, Coins!Prices) \in Nat /\ AllAt(q.s, Coins!Prices) \in Nat
        /\ CarriedAt(q.s, Coins!Prices) # 0
    <3>1. CarriedAt(q.s, Coins!Prices) \in Nat /\ AllAt(q.s, Coins!Prices) \in Nat
      BY <1>1, SumsAre, PricesAre
    <3> QED BY <1>1, <1>3, <3>1
  <2>2. e \in Coins!Stacks(q.s) /\ AtPrice(item, Coins!Prices) > 0
    BY <1>1, <2>1, CheapestIs
  <2>3. /\ c \in Coins!Cylinders \ {"floor"} /\ e.at \in 1 .. Len(q.s[c])
        /\ item = q.s[c][e.at] /\ item \in CoinItems
    <3> HIDE DEF e
    <3> QED BY <1>1, <2>2, StacksAre
  <2>4. worth \in Nat /\ worth > 0
    <3>1. AtPrice(item, Coins!Prices) = worth
      BY Zenon DEF AtPrice
    <3> HIDE DEF item, worth
    <3>2. AtPrice(item, Coins!Prices) \in Nat
      BY <2>3, AtPriceIs, PricesAre
    <3> QED BY <2>2, <3>1, <3>2
  <2>5. HasTaken(q.s, t, c, e.at, item.count, Coins!Prices)
    <3> DEFINE k == item.count
    <3>1. k \in Nat /\ k <= q.s[c][e.at].count
      <4>1. item.count \in Nat /\ q.s[c][e.at].count = item.count
        BY <2>3 DEF CoinItems
      <4> HIDE DEF item, c, e
      <4> QED BY <4>1
    <3> HIDE DEF k, c, e
    <3>2. HasTaken(q.s, Coins!Taken(q.s, c, e.at, k), c, e.at, k, Coins!Prices)
      BY <1>1, <2>3, <3>1, TakingIs, PricesAre
    <3> QED BY <3>2 DEF k
  <2> HIDE DEF t, c
  <2>6. /\ t \in CoinStates /\ FitsIn(t) /\ NoneOver(t)
        /\ AllAt(t, Coins!Prices) = AllAt(q.s, Coins!Prices) - worth
        /\ CarriedAt(t, Coins!Prices) = CarriedAt(q.s, Coins!Prices) - worth
    BY <1>1, <2>3, <2>5, Zenon DEF HasTaken
  <2> HIDE DEF item, worth
  <2>7. m \in Nat /\ m <= q.left /\ m <= worth /\ (m = q.left \/ m = worth)
        /\ q.left - m \in Nat /\ worth - m \in Nat
    BY <1>1, <2>4, LeastIs
  <2> HIDE DEF m
  <2>8. CarriedAt(t, Coins!Prices) \in Nat
    BY <2>6, SumsAre, PricesAre
  <2>9. r.s = t /\ r.left = q.left - m /\ r.change = worth - m
        /\ r \in [s : CoinStates, left : Nat, change : Nat]
    BY <2>0, <2>6, <2>7
  <2> DEFINE C == CarriedAt(q.s, Coins!Prices)
             D == CarriedAt(t, Coins!Prices)
             A == AllAt(q.s, Coins!Prices)
             left == q.left
  <2>10. /\ C \in Nat /\ D \in Nat /\ A \in Nat /\ left \in Nat /\ left <= C /\ D = C - worth
         /\ m \in Nat /\ worth \in Nat /\ worth > 0 /\ m <= left /\ m <= worth
         /\ (m = left \/ m = worth) /\ left # 0
    BY <1>1, <1>3, <2>1, <2>4, <2>6, <2>7, <2>8
  <2> HIDE DEF C, D, A, left
  <2>11. /\ left - m <= D /\ (left - m # 0 => worth - m = 0) /\ left - m < left
         /\ (A - worth) + (worth - m) - (left - m) = A + 0 - left
    BY <2>10
  <2>12. r \in Collections
    BY <2>6, <2>9, <2>11 DEF Collections, C, D, left
  <2>13. Balance(r) = Balance(q)
    BY <1>1, <1>3, <2>6, <2>9, <2>11 DEF Balance, A, left
  <2>14. r.left < q.left
    BY <2>9, <2>11 DEF left
  <2> QED BY <1>3, <2>12, <2>13, <2>14 DEF r
<1> QED BY <1>2, <1>3

Collecting(f, s, n) ==
  f = [k \in 0 .. n |-> IF k = 0 THEN [s |-> s, left |-> n, change |-> 0]
                        ELSE CollectOne(f[k - 1])]

LEMMA CollectedIs ==
  ASSUME NEW s, CoinsSound(s), NEW n \in Nat, n <= CarriedAt(s, Coins!Prices)
  PROVE  LET t == Coins!Collected(s, n) IN
         /\ t.s \in CoinStates /\ FitsIn(t.s) /\ NoneOver(t.s) /\ t.change \in Nat
         /\ AllAt(t.s, Coins!Prices) + t.change = AllAt(s, Coins!Prices) - n
<1> DEFINE first == [s |-> s, left |-> n, change |-> 0]
           f == CHOOSE f : f = [k \in 0 .. n |->
                  IF k = 0 THEN [s |-> s, left |-> n, change |-> 0]
                  ELSE LET t == f[k - 1]
                           e == Coins!Cheapest(t.s)
                           item == Coins!ItemAt(t.s, e)
                           worth == Coins!Prices[item.kind] * item.count
                           m == Coins!Least(t.left, worth)
                       IN IF t.left = 0 THEN t
                          ELSE [s |-> Coins!Taken(t.s, Coins!Carried[e.in], e.at, item.count),
                                left |-> t.left - m, change |-> worth - m]]
           All == {q \in Collections : Balance(q) = Balance(first)}
           step == [y \in (1 .. n) \X All |-> CollectOne(y[2])]
<1>1. Coins!Collected(s, n) = f[n]
  BY Zenon DEF Coins!Collected
<1>2. /\ first \in All /\ first.s = s /\ first.left = n /\ first.change = 0
  BY DEF Collections, CoinsSound
<1>3. \A q \in All : CollectOne(q) \in All
  BY CollectOneKeeps
<1>4. \E g : Collecting(g, s, n)
  <2> HIDE DEF All
  <2>1. \A k \in 1 .. n : \A q \in All : step[<<k, q>>] = CollectOne(q)
    OBVIOUS
  <2> HIDE DEF step
  <2>2. Closed(step, n, All)
    BY <1>3, <2>1, Zenon DEF Closed
  <2> HIDE DEF first
  <2>3. PICK g : Repeats(g, first, step, n, All)
    BY <1>2, <2>2, RepeatingExists
  <2>4. \A k \in 0 .. n : k # 0 => step[<<k, g[k - 1]>>] = CollectOne(g[k - 1])
    BY <2>1, <2>3, Zenon DEF Repeats
  <2> QED BY <2>3, <2>4, Zenon DEF Collecting, Repeats, Solves, first
<1>5. Collecting(f, s, n)
  <2>1. f = CHOOSE g : Collecting(g, s, n)
    BY Zenon DEF Collecting, CollectOne
  <2> HIDE DEF f
  <2> QED BY <1>4, <2>1, Zenon
<1> HIDE DEF f
<1>6. \A k \in 0 .. n : f[k] = IF k = 0 THEN first ELSE CollectOne(f[k - 1])
  BY <1>5, Zenon DEF Collecting
<1>7. f[n] \in All /\ f[n].left = 0
  <2>1. f[0] = first /\ f[0].left <= n
    BY <1>2, <1>6
  <2>2. ASSUME NEW k \in 1 .. n, f[k - 1] \in All
        PROVE  /\ f[k] \in All
               /\ IF f[k - 1].left = 0 THEN f[k].left = 0 ELSE f[k].left < f[k - 1].left
    <3>1. k \in 0 .. n /\ k # 0
      OBVIOUS
    <3>2. f[k] = CollectOne(f[k - 1])
      BY <1>6, <3>1
    <3> QED BY <1>3, <2>2, <3>2, CollectOneKeeps
  <2>3. \A q \in All : q.left \in Nat
    BY DEF Collections
  <2> HIDE DEF All, first
  <2>4. f[0] \in All
    BY <1>2, <2>1
  <2>5. \A k \in 1 .. n : f[k - 1] \in All =>
          /\ f[k] \in All
          /\ IF f[k - 1].left = 0 THEN f[k].left = 0 ELSE f[k].left < f[k - 1].left
    BY <2>2, Zenon
  <2> QED BY <2>1, <2>3, <2>4, <2>5, Exhausts, Zenon
<1> DEFINE t == f[n]
<1>8. /\ t.s \in CoinStates /\ FitsIn(t.s) /\ NoneOver(t.s) /\ t.change \in Nat /\ t.left = 0
      /\ Balance(t) = Balance(first)
  BY <1>7 DEF Collections
<1> HIDE DEF t, first
<1>9. AllAt(t.s, Coins!Prices) \in Nat /\ AllAt(s, Coins!Prices) \in Nat
  BY <1>8, SumsAre, PricesAre DEF CoinsSound
<1>10. AllAt(t.s, Coins!Prices) + t.change = AllAt(s, Coins!Prices) - n
  BY <1>2, <1>8, <1>9 DEF Balance
<1> QED BY <1>1, <1>8, <1>10 DEF t

(* Money that is collected is gone, and no more than that.                 *)
LEMMA RemovedKeeps ==
  ASSUME NEW s, CoinsSound(s), NEW able, NEW money \in Nat,
         money <= CarriedAt(s, Coins!Prices)
  PROVE  LET t == Coins!MoneyRemoved(s, able, money) IN
         CoinsSound(t) /\ AllAt(t, Coins!Prices) = AllAt(s, Coins!Prices) - money
<1> DEFINE q == Coins!Collected(s, money)
           r == Coins!Swept(q.s)
           t == Coins!MoneyAdded(r, able, q.change)
<1>1. Coins!MoneyRemoved(s, able, money) = t
  BY Zenon DEF Coins!MoneyRemoved
<1>2. /\ q.s \in CoinStates /\ FitsIn(q.s) /\ NoneOver(q.s) /\ q.change \in Nat
      /\ AllAt(q.s, Coins!Prices) + q.change = AllAt(s, Coins!Prices) - money
  BY CollectedIs
<1> HIDE DEF q
<1>3. CoinsSound(r) /\ AllAt(r, Coins!Prices) = AllAt(q.s, Coins!Prices)
  BY <1>2, SweptIs, PricesAre
<1> HIDE DEF r
<1>4. CoinsSound(t) /\ AllAt(t, Coins!Prices) = AllAt(r, Coins!Prices) + q.change
  BY <1>2, <1>3, AddedKeeps
<1> HIDE DEF t
<1> QED BY <1>1, <1>2, <1>3, <1>4 DEF t

(* Coins of one kind that are taken, wherever a player carries them.       *)
Ones(kind) == [k \in CoinKinds |-> IF k = kind THEN 1 ELSE 0]
OfKind(s, kind) ==
  {f \in Coins!Stacks(s) : Coins!ItemAt(s, f).kind = kind /\ Coins!ItemAt(s, f).count > 0}

LEMMA OnesAre ==
  ASSUME NEW kind \in CoinKinds
  PROVE  /\ Ones(kind) \in PriceLists /\ Ones(kind)[kind] = 1
         /\ \A k \in CoinKinds : k # kind => Ones(kind)[k] = 0
BY DEF Ones, PriceLists

LEMMA CountIs ==
  ASSUME NEW s \in CoinStates, NEW kind
  PROVE  Coins!CountOf(s, kind) = Coins!Total(s, Ones(kind))
BY Zenon DEF Coins!CountOf, Ones, CoinKinds

LEMMA TotalIsCarried ==
  ASSUME NEW s \in CoinStates, NEW price \in PriceLists
  PROVE  Coins!Total(s, price) = CarriedAt(s, price)
<1>1. s["slot"] \in ItemLists /\ s["pack"] \in ItemLists /\ s["bag"] \in ItemLists
  BY DEF CoinStates, Coins!Cylinders
<1>2. /\ Coins!Sum(s["slot"], price) = SumAt(s["slot"], price)
      /\ Coins!Sum(s["pack"], price) = SumAt(s["pack"], price)
      /\ Coins!Sum(s["bag"], price) = SumAt(s["bag"], price)
  BY <1>1, SumIsSumAt
<1> QED BY <1>2, Zenon DEF Coins!Total, CarriedAt

LEMMA OfKindIs ==
  ASSUME NEW s \in CoinStates, NEW kind \in CoinKinds, CarriedAt(s, Ones(kind)) # 0
  PROVE  Coins!FirstOf(OfKind(s, kind)) \in OfKind(s, kind)
<1> DEFINE ones == Ones(kind)
<1>1. ones \in PriceLists /\ \A k \in CoinKinds : k # kind => ones[k] = 0
  BY OnesAre
<1> HIDE DEF ones
<1>2. PICK c \in Coins!Cylinders \ {"floor"} : SumAt(s[c], ones) # 0
  <2>1. /\ {"slot", "pack", "bag"} = Coins!Cylinders \ {"floor"}
        /\ \A c \in Coins!Cylinders : SumAt(s[c], ones) \in Nat
    BY <1>1, SumsAre DEF Coins!Cylinders
  <2> QED BY <2>1 DEF CarriedAt, ones
<1>3. s[c] \in ItemLists /\ SumAt(s[c], ones) \in Nat
  BY <1>1, SumsAre
<1>4. PICK k \in 1 .. Len(s[c]) : AtPrice(s[c][k], ones) > 0
  <2>1. SumAt(s[c], ones) > 0
    BY <1>2, <1>3
  <2> QED BY <1>1, <1>3, <2>1, SumIsNat
<1> DEFINE item == s[c][k]
<1>5. item \in CoinItems
  BY <1>3 DEF ItemLists
<1>6. AtPrice(item, ones) > 0
  BY <1>4
<1>7. PICK e \in Coins!Stacks(s) : Coins!ItemAt(s, e) = item
  BY StacksAre
<1> HIDE DEF item
<1>8. item.kind = kind /\ item.count > 0
  <2>1. item.kind \in CoinKinds /\ item.count \in Nat /\ ones[item.kind] \in Nat
    BY <1>1, <1>5 DEF CoinItems, PriceLists
  <2>2. ones[item.kind] * item.count > 0
    BY <1>6 DEF AtPrice
  <2>3. \A m \in Nat : 0 * m = 0 /\ m * 0 = 0
    OBVIOUS
  <2>4. ones[item.kind] # 0 /\ item.count # 0
    BY <2>1, <2>2, <2>3
  <2> QED BY <1>1, <2>1, <2>4
<1>9. e \in OfKind(s, kind) /\ OfKind(s, kind) \subseteq Coins!Stacks(s)
  BY <1>7, <1>8 DEF OfKind
<1> QED BY <1>9, FirstIsOf

TypeBalance(q, kind) == AllAt(q.s, Coins!Prices) - Worth[kind] * q.left
Takings(kind) ==
  {q \in [s : CoinStates, left : Nat] :
     FitsIn(q.s) /\ NoneOver(q.s) /\ q.left <= CarriedAt(q.s, Ones(kind))}
TakeOne(t, kind) ==
  LET e == Coins!FirstOf({f \in Coins!Stacks(t.s) :
                 Coins!ItemAt(t.s, f).kind = kind /\ Coins!ItemAt(t.s, f).count > 0})
      m == Coins!Least(t.left, Coins!ItemAt(t.s, e).count)
  IN IF t.left = 0 THEN t
     ELSE [s |-> Coins!Taken(t.s, Coins!Carried[e.in], e.at, m), left |-> t.left - m]

LEMMA TakeOneKeeps ==
  ASSUME NEW kind \in Coins!KindSet, NEW q \in Takings(kind)
  PROVE  LET r == TakeOne(q, kind) IN
         /\ r \in Takings(kind) /\ TypeBalance(r, kind) = TypeBalance(q, kind)
         /\ IF q.left = 0 THEN r.left = 0 ELSE r.left < q.left
<1> DEFINE e == Coins!FirstOf(OfKind(q.s, kind))
           item == Coins!ItemAt(q.s, e)
           m == Coins!Least(q.left, item.count)
           r == TakeOne(q, kind)
           c == Coins!Carried[e.in]
           t == Coins!Taken(q.s, c, e.at, m)
           W == Worth[kind]
           ones == Ones(kind)
<1>1. /\ q.s \in CoinStates /\ FitsIn(q.s) /\ NoneOver(q.s) /\ q.left \in Nat
      /\ q.left <= CarriedAt(q.s, ones)
  BY DEF Takings
<1>2. CASE q.left = 0
  <2>1. r = q
    BY <1>2 DEF TakeOne
  <2> HIDE DEF r
  <2> QED BY <1>2, <2>1 DEF r
<1>3. CASE q.left # 0
  <2>0. r = [s |-> t, left |-> q.left - m]
    BY <1>3, Zenon DEF TakeOne, OfKind
  <2> HIDE DEF r
  <2>00. kind \in CoinKinds /\ W \in Nat /\ Coins!Prices[kind] = W
         /\ ones \in PriceLists /\ ones[kind] = 1
    <3>1. kind \in CoinKinds
      BY DEF CoinKinds
    <3> QED BY <3>1, PricesAre, OnesAre
  <2> HIDE DEF W
  <2>1. /\ CarriedAt(q.s, ones) \in Nat /\ AllAt(q.s, Coins!Prices) \in Nat
        /\ CarriedAt(q.s, ones) # 0
    <3>1. CarriedAt(q.s, ones) \in Nat /\ AllAt(q.s, Coins!Prices) \in Nat
      BY <1>1, <2>00, SumsAre, PricesAre
    <3> QED BY <1>1, <1>3, <3>1
  <2>2. e \in Coins!Stacks(q.s) /\ item.kind = kind /\ item.count > 0
    <3>1. e \in OfKind(q.s, kind)
      BY <1>1, <2>00, <2>1, OfKindIs
    <3> HIDE DEF e
    <3> QED BY <3>1 DEF OfKind
  <2> HIDE DEF ones
  <2>3. /\ c \in Coins!Cylinders \ {"floor"} /\ e.at \in 1 .. Len(q.s[c])
        /\ item = q.s[c][e.at] /\ item \in CoinItems
    <3> HIDE DEF e
    <3> QED BY <1>1, <2>2, StacksAre
  <2>4. item.count \in Nat
    BY <2>3 DEF CoinItems
  <2> HIDE DEF item
  <2>5. m \in Nat /\ m <= q.left /\ m <= item.count /\ m # 0 /\ q.left - m \in Nat
    <3> HIDE DEF m
    <3>1. m \in Nat /\ m <= q.left /\ m <= item.count /\ (m = q.left \/ m = item.count)
          /\ q.left - m \in Nat
      BY <1>1, <2>4, LeastIs DEF m
    <3> QED BY <1>3, <2>2, <2>4, <3>1
  <2> HIDE DEF m
  <2>6. /\ HasTaken(q.s, t, c, e.at, m, Coins!Prices)
        /\ HasTaken(q.s, t, c, e.at, m, ones)
    <3>1. m <= q.s[c][e.at].count
      BY <2>3, <2>5
    <3> HIDE DEF c, e
    <3> QED BY <1>1, <2>00, <2>3, <2>5, <3>1, TakingIs, PricesAre
  <2>7. q.s[c][e.at].kind = kind
    BY <2>2, <2>3
  <2> HIDE DEF t, c
  <2>8. /\ t \in CoinStates /\ FitsIn(t) /\ NoneOver(t) /\ W * m \in Nat
        /\ AllAt(t, Coins!Prices) = AllAt(q.s, Coins!Prices) - W * m
        /\ CarriedAt(t, ones) = CarriedAt(q.s, ones) - 1 * m
    BY <1>1, <2>00, <2>3, <2>6, <2>7, Zenon DEF HasTaken
  <2>9. 1 * m = m
    BY <2>5
  <2>10. r.s = t /\ r.left = q.left - m /\ r \in [s : CoinStates, left : Nat]
    BY <2>0, <2>5, <2>8
  <2> DEFINE A == AllAt(q.s, Coins!Prices)
             C == CarriedAt(q.s, ones)
             left == q.left
             a == W * m
             b == W * left
  <2>11. a \in Nat /\ b \in Nat /\ W * (left - m) = b - a
    BY <1>1, <2>00, <2>5, Products
  <2>12. /\ A \in Nat /\ C \in Nat /\ left \in Nat /\ left <= C /\ m \in Nat
         /\ m <= left /\ m # 0
    BY <1>1, <2>1, <2>5
  <2>13. CarriedAt(t, ones) = C - m /\ AllAt(t, Coins!Prices) = A - a
    BY <2>8, <2>9
  <2> HIDE DEF A, C, left, a, b
  <2>14. left - m <= C - m /\ left - m < left /\ (A - a) - (b - a) = A - b
    BY <2>11, <2>12
  <2>15. r \in Takings(kind)
    BY <2>8, <2>10, <2>13, <2>14 DEF Takings, ones, left
  <2>16. TypeBalance(r, kind) = TypeBalance(q, kind)
    <3>1. TypeBalance(r, kind) = (A - a) - (b - a)
      BY <2>10, <2>11, <2>13 DEF TypeBalance, W, left
    <3>2. TypeBalance(q, kind) = A - b
      BY DEF TypeBalance, W, left, A, b
    <3> QED BY <2>14, <3>1, <3>2
  <2>17. r.left < q.left
    BY <2>10, <2>14 DEF left
  <2> QED BY <1>3, <2>15, <2>16, <2>17 DEF r
<1> QED BY <1>2, <1>3

TakingAll(f, s, kind, n) ==
  f = [k \in 0 .. n |-> IF k = 0 THEN [s |-> s, left |-> n] ELSE TakeOne(f[k - 1], kind)]

LEMMA TypeTakenIs ==
  ASSUME NEW s, CoinsSound(s), NEW kind \in Coins!KindSet, NEW n \in Nat,
         n <= CarriedAt(s, Ones(kind))
  PROVE  LET t == Coins!TypeTaken(s, kind, n).s IN
         /\ t \in CoinStates /\ FitsIn(t) /\ NoneOver(t)
         /\ AllAt(t, Coins!Prices) = AllAt(s, Coins!Prices) - Worth[kind] * n
<1> DEFINE first == [s |-> s, left |-> n]
           f == CHOOSE f : f = [k \in 0 .. n |->
                  IF k = 0 THEN [s |-> s, left |-> n]
                  ELSE LET t == f[k - 1]
                           e == Coins!FirstOf({g \in Coins!Stacks(t.s) :
                                  Coins!ItemAt(t.s, g).kind = kind
                                  /\ Coins!ItemAt(t.s, g).count > 0})
                           m == Coins!Least(t.left, Coins!ItemAt(t.s, e).count)
                       IN IF t.left = 0 THEN t
                          ELSE [s |-> Coins!Taken(t.s, Coins!Carried[e.in], e.at, m),
                                left |-> t.left - m]]
           All == {q \in Takings(kind) : TypeBalance(q, kind) = TypeBalance(first, kind)}
           step == [y \in (1 .. n) \X All |-> TakeOne(y[2], kind)]
<1>1. Coins!TypeTaken(s, kind, n) = f[n]
  BY Zenon DEF Coins!TypeTaken
<1>2. first \in All /\ first.s = s /\ first.left = n
  BY DEF Takings, CoinsSound
<1>3. \A q \in All : TakeOne(q, kind) \in All
  BY TakeOneKeeps
<1>4. \E g : TakingAll(g, s, kind, n)
  <2> HIDE DEF All
  <2>1. \A k \in 1 .. n : \A q \in All : step[<<k, q>>] = TakeOne(q, kind)
    OBVIOUS
  <2> HIDE DEF step
  <2>2. Closed(step, n, All)
    BY <1>3, <2>1, Zenon DEF Closed
  <2> HIDE DEF first
  <2>3. PICK g : Repeats(g, first, step, n, All)
    BY <1>2, <2>2, RepeatingExists
  <2>4. \A k \in 0 .. n : k # 0 => step[<<k, g[k - 1]>>] = TakeOne(g[k - 1], kind)
    BY <2>1, <2>3, Zenon DEF Repeats
  <2> QED BY <2>3, <2>4, Zenon DEF TakingAll, Repeats, Solves, first
<1>5. TakingAll(f, s, kind, n)
  <2>1. f = CHOOSE g : TakingAll(g, s, kind, n)
    BY Zenon DEF TakingAll, TakeOne
  <2> HIDE DEF f
  <2> QED BY <1>4, <2>1, Zenon
<1> HIDE DEF f
<1>6. \A k \in 0 .. n : f[k] = IF k = 0 THEN first ELSE TakeOne(f[k - 1], kind)
  BY <1>5, Zenon DEF TakingAll
<1>7. f[n] \in All /\ f[n].left = 0
  <2>1. f[0] = first /\ f[0].left <= n
    BY <1>2, <1>6
  <2>2. ASSUME NEW k \in 1 .. n, f[k - 1] \in All
        PROVE  /\ f[k] \in All
               /\ IF f[k - 1].left = 0 THEN f[k].left = 0 ELSE f[k].left < f[k - 1].left
    <3>1. k \in 0 .. n /\ k # 0
      OBVIOUS
    <3>2. f[k] = TakeOne(f[k - 1], kind)
      BY <1>6, <3>1
    <3> QED BY <1>3, <2>2, <3>2, TakeOneKeeps
  <2>3. \A q \in All : q.left \in Nat
    BY DEF Takings
  <2> HIDE DEF All, first
  <2>4. f[0] \in All
    BY <1>2, <2>1
  <2>5. \A k \in 1 .. n : f[k - 1] \in All =>
          /\ f[k] \in All
          /\ IF f[k - 1].left = 0 THEN f[k].left = 0 ELSE f[k].left < f[k - 1].left
    BY <2>2, Zenon
  <2> QED BY <2>1, <2>3, <2>4, <2>5, Exhausts, Zenon
<1> DEFINE t == f[n]
<1>8. /\ t.s \in CoinStates /\ FitsIn(t.s) /\ NoneOver(t.s) /\ t.left = 0
      /\ TypeBalance(t, kind) = TypeBalance(first, kind)
  BY <1>7 DEF Takings
<1> HIDE DEF t, first
<1>9. AllAt(t.s, Coins!Prices) \in Nat /\ Worth[kind] * 0 = 0
  BY <1>8, SumsAre, PricesAre
<1>10. AllAt(t.s, Coins!Prices) = AllAt(s, Coins!Prices) - Worth[kind] * n
  BY <1>2, <1>8, <1>9 DEF TypeBalance
<1> QED BY <1>1, <1>8, <1>10 DEF t
-----------------------------------------------------------------------------
(* Coins that are moved.  A destination is the slot only if what is in it  *)
(* is met there.                                                           *)
RoomFor(s, d) ==
  /\ d.c \in Coins!Cylinders /\ d.at \in Nat
  /\ d.c = "slot" /\ d.at \notin 1 .. Len(s["slot"]) => Len(s["slot"]) = 0

LEMMA DestinationIs ==
  ASSUME NEW s, CoinsSound(s), NEW to \in Coins!Cylinders \cup {"player"}, NEW j \in Nat,
         Coins!QueryAdd(s, Coins!QueryDestination(s, to, j))
  PROVE  LET d == Coins!QueryDestination(s, to, j) IN
         RoomFor(s, d) /\ (d.c = "slot" /\ Len(s["slot"]) # 0 => d.at = 1)
<1> DEFINE d == Coins!QueryDestination(s, to, j)
<1>1. d.c # "none" /\ (d.at \in {0, 99} => ~Coins!Full(s, d.c))
  BY Zenon DEF Coins!QueryAdd, Coins!Wherever
<1>2. Len(s["slot"]) \in Nat
  BY DEF CoinsSound, CoinStates, ItemLists, Coins!Cylinders
<1>3. ~Coins!Full(s, "slot") => Len(s["slot"]) = 0
  BY <1>2, SizesAre DEF Coins!Full
<1>4. d.c \in Coins!Cylinders /\ d.at \in Nat /\ (d.c = "slot" => d.at \in {0, 1})
  <2>1. CASE to = "player"
    <3>1. d = [c |-> Coins!Search(s), at |-> 0]
      BY <2>1, Zenon DEF Coins!QueryDestination
    <3> HIDE DEF d
    <3>2. d.c = Coins!Search(s) /\ d.at = 0
      BY <3>1
    <3> QED BY <1>1, <3>2, SearchFinds
  <2>2. CASE to \in {"pack", "bag"}
    <3>0. to # "player"
      BY <2>2
    <3>1. d = [c |-> "bag", at |-> 0]
          \/ d = [c |-> to, at |-> IF j > Coins!Size(to) THEN Coins!Wherever ELSE j]
      BY <2>2, <3>0, Zenon DEF Coins!QueryDestination
    <3> HIDE DEF d
    <3>2. Coins!Wherever \in Nat
      BY DEF Coins!Wherever
    <3> QED BY <2>2, <3>1, <3>2 DEF Coins!Cylinders
  <2>3. CASE to \in {"slot", "floor"}
    <3>1. d = [c |-> to, at |-> 1]
      BY <2>3 DEF Coins!QueryDestination
    <3> HIDE DEF d
    <3> QED BY <2>3, <3>1 DEF Coins!Cylinders
  <2> QED BY <2>1, <2>2, <2>3 DEF Coins!Cylinders
<1> HIDE DEF d
<1>5. d.c = "slot" /\ d.at = 0 => Len(s["slot"]) = 0
  BY <1>1, <1>3
<1>6. d.c = "slot" /\ d.at = 1 /\ d.at \notin 1 .. Len(s["slot"]) => Len(s["slot"]) = 0
  BY <1>2
<1>7. RoomFor(s, d)
  BY <1>4, <1>5, <1>6 DEF RoomFor
<1>8. d.c = "slot" /\ Len(s["slot"]) # 0 => d.at = 1
  BY <1>4, <1>5
<1> QED BY <1>7, <1>8 DEF d

(* What is added fills a stack, finds a free place, or is nothing.         *)
LEMMA MaxCountIs ==
  ASSUME NEW s, CoinsSound(s), NEW d, RoomFor(s, d), NEW kind
  PROVE  LET max == Coins!QueryMaxCount(s, d, kind) IN
         /\ max \in Nat
         /\ \A m \in Nat : m <= max /\ d.c # "floor" =>
              \/ Len(s[d.c]) < Coins!Size(d.c)
              \/ m = 0
              \/ /\ d.at \in 1 .. Len(s[d.c]) /\ s[d.c][d.at].kind = kind
                 /\ m <= StackSize - s[d.c][d.at].count
<1> DEFINE c == d.c
           at == d.at
           n == Len(s[c])
           size == Coins!Size(c)
           there == at \in DOMAIN s[c]
           room == IF there /\ s[c][at].kind = kind THEN StackSize - s[c][at].count ELSE 0
           max == Coins!QueryMaxCount(s, d, kind)
<1>1. max = IF c = "floor" THEN StackSize
            ELSE IF c = "slot" THEN (IF there THEN room ELSE StackSize)
            ELSE (size - n) * StackSize + room
  BY Zenon DEF Coins!QueryMaxCount
<1>2. /\ c \in Coins!Cylinders /\ at \in Nat /\ s[c] \in ItemLists /\ StackSize \in Nat
      /\ c = "slot" /\ at \notin 1 .. Len(s["slot"]) => Len(s["slot"]) = 0
  BY CoinsAreAssumed DEF CoinsSound, CoinStates, RoomFor
<1>3. /\ n \in Nat /\ DOMAIN s[c] = 1 .. n
      /\ \A k \in 1 .. n : s[c][k] \in CoinItems
  BY <1>2 DEF ItemLists
<1>4. room \in Nat /\ (room # 0 => /\ at \in 1 .. n /\ s[c][at].kind = kind
                                   /\ room = StackSize - s[c][at].count)
  <2>1. CASE there
    <3>1. at \in 1 .. n /\ s[c][at].count \in Nat
      BY <1>3, <2>1 DEF CoinItems
    <3>2. s[c][at].count <= StackSize
      BY <1>2, <3>1 DEF CoinsSound, NoneOver
    <3>3. StackSize - s[c][at].count \in Nat
      BY <1>2, <3>1, <3>2
    <3> QED BY <3>1, <3>3
  <2>2. CASE ~there
    BY <2>2
  <2> QED BY <2>1, <2>2
<1>5. c # "floor" => size \in Nat /\ n <= size
  BY <1>2, SizesAre DEF CoinsSound, FitsIn
<1>6. c = "slot" /\ ~there => n = 0 /\ size = 1
  BY <1>2, <1>3, SizesAre
<1>7. there <=> at \in 1 .. n
  BY <1>3
<1> HIDE DEF room, there, max, n, size
<1>8. CASE c = "floor"
  <2>1. max = StackSize
    BY <1>1, <1>8
  <2> QED BY <1>2, <1>8, <2>1 DEF max
<1>9. CASE c = "slot" /\ ~there
  <2>1. max = StackSize /\ n < size
    BY <1>1, <1>6, <1>9
  <2> QED BY <1>2, <2>1 DEF n, size, max
<1>10. CASE c # "floor" /\ ~(c = "slot" /\ ~there) /\ (c = "slot" \/ n = size)
  <2>1. max = room
    <3>1. CASE c = "slot"
      BY <1>1, <1>10, <3>1
    <3>2. CASE c # "slot"
      <4>1. max = (size - n) * StackSize + room /\ size - n = 0
        BY <1>1, <1>3, <1>5, <1>10, <3>2
      <4>2. 0 * StackSize = 0
        BY <1>2
      <4> QED BY <1>4, <4>1, <4>2
    <3> QED BY <3>1, <3>2
  <2>2. ASSUME NEW m \in Nat, m <= max
        PROVE  m = 0 \/ (/\ at \in 1 .. n /\ s[c][at].kind = kind
                         /\ m <= StackSize - s[c][at].count)
    BY <1>4, <2>1, <2>2
  <2> QED BY <1>4, <2>1, <2>2 DEF n, max
<1>11. CASE c # "floor" /\ c # "slot" /\ n # size
  <2>1. n < size /\ size - n \in Nat
    BY <1>3, <1>5, <1>11
  <2>2. (size - n) * StackSize \in Nat
    <3> DEFINE k == size - n
    <3>1. k \in Nat
      BY <2>1
    <3> HIDE DEF k
    <3>2. k * StackSize \in Nat
      BY <1>2, <3>1, Products
    <3> QED BY <3>2 DEF k
  <2>3. max \in Nat
    BY <1>1, <1>4, <1>11, <2>2
  <2> QED BY <2>1, <2>3 DEF n, size, max
<1> QED BY <1>8, <1>9, <1>10, <1>11

LEMMA MovedCoinsKeep ==
  ASSUME NEW s, CoinsSound(s), NEW from \in Coins!Cylinders, NEW i \in 1 .. Len(s[from]),
         NEW d, RoomFor(s, d), d.c # from \/ d.at # i,
         NEW count \in Nat, count <= s[from][i].count
  PROVE  LET t == Coins!Moved(s, from, i, d, count) IN
         CoinsSound(t) /\ AllAt(t, Coins!Prices) = AllAt(s, Coins!Prices)
<1> DEFINE item == s[from][i]
           max == Coins!QueryMaxCount(s, d, item.kind)
           m == Coins!Least(count, max)
           new == Coins!Stack(item.kind, m)
           put == Coins!Put(s, d.c, d.at, new)
           shift == IF from = d.c THEN Len(put[from]) - Len(s[from]) ELSE 0
           rest == Coins!Taken(put, from, i + shift, m)
           price == Coins!Prices
<1>1. Coins!Moved(s, from, i, d, count) = Coins!Swept(rest)
  BY Zenon DEF Coins!Moved
<1>2. /\ s \in CoinStates /\ FitsIn(s) /\ NoneOver(s)
      /\ d.c \in Coins!Cylinders /\ d.at \in Int /\ StackSize \in Nat
      /\ s[from] \in ItemLists /\ s[d.c] \in ItemLists
  BY CoinsAreAssumed DEF CoinsSound, RoomFor, CoinStates
<1>3. /\ Len(s[from]) \in Nat /\ item \in CoinItems /\ item.kind \in CoinKinds
      /\ item.count \in Nat /\ item.count <= StackSize
  <2>1. Len(s[from]) \in Nat /\ item \in CoinItems
    BY <1>2 DEF ItemLists
  <2>2. item.count <= StackSize
    BY <1>2 DEF NoneOver
  <2> HIDE DEF item
  <2> QED BY <2>1, <2>2 DEF CoinItems
<1> HIDE DEF item
<1>4. count <= item.count
  BY DEF item
<1>5. max \in Nat
  BY MaxCountIs
<1>6. \A k \in Nat : k <= max /\ d.c # "floor" =>
              \/ Len(s[d.c]) < Coins!Size(d.c)
              \/ k = 0
              \/ /\ d.at \in 1 .. Len(s[d.c]) /\ s[d.c][d.at].kind = item.kind
                 /\ k <= StackSize - s[d.c][d.at].count
  BY MaxCountIs
<1> HIDE DEF max
<1>7. m \in Nat /\ m <= count /\ m <= max /\ m <= item.count /\ m <= StackSize
  <2> HIDE DEF m
  <2>1. m \in Nat /\ m <= count /\ m <= max
    BY <1>5, LeastIs DEF m
  <2> QED BY <1>2, <1>3, <1>4, <2>1
<1> HIDE DEF m
<1>8. new \in CoinItems /\ new.kind = item.kind /\ new.count = m
  BY <1>3, <1>7 DEF Coins!Stack, CoinItems
<1> HIDE DEF new, price
<1>80. price \in PriceLists
  BY PricesAre DEF price
<1>9. HasPut(s, put, d.c, d.at, new, price)
  <2>1. new.count <= StackSize
    BY <1>7, <1>8
  <2> QED BY <1>2, <1>8, <1>80, <2>1, PutIs
<1> HIDE DEF put
<1>10. /\ put \in CoinStates /\ NoneOver(put)
       /\ \A c \in Coins!Cylinders : c # d.c => put[c] = s[c]
       /\ Len(s[d.c]) \in Nat /\ Len(put[d.c]) \in {Len(s[d.c]), Len(s[d.c]) + 1}
       /\ m = 0 => Len(put[d.c]) = Len(s[d.c])
       /\ (/\ d.at \in 1 .. Len(s[d.c]) /\ s[d.c][d.at].kind = item.kind
           /\ m <= StackSize - s[d.c][d.at].count) => Len(put[d.c]) = Len(s[d.c])
       /\ \A k \in 1 .. Len(s[d.c]) : k # d.at =>
            put[d.c][k + (Len(put[d.c]) - Len(s[d.c]))] = s[d.c][k]
       /\ AllAt(put, price) = AllAt(s, price) + AtPrice(new, price)
  BY <1>8, <1>9 DEF HasPut
<1>11. FitsIn(put)
  <2> SUFFICES ASSUME NEW c \in Coins!Cylinders \ {"floor"} PROVE Len(put[c]) <= Coins!Size(c)
    BY DEF FitsIn
  <2>1. CASE c = d.c
    <3>1. Len(s[c]) <= Coins!Size(c) /\ Coins!Size(c) \in Nat
      BY <1>2, SizesAre DEF FitsIn
    <3>2. CASE Len(s[c]) < Coins!Size(c)
      BY <1>10, <2>1, <3>1, <3>2
    <3>3. CASE ~(Len(s[c]) < Coins!Size(c))
      <4>1. Len(put[c]) = Len(s[c])
        BY <1>6, <1>7, <1>10, <2>1, <3>3
      <4> QED BY <3>1, <4>1
    <3> QED BY <3>2, <3>3
  <2>2. CASE c # d.c
    BY <1>2, <1>10, <2>2 DEF FitsIn
  <2> QED BY <2>1, <2>2
<1>12. i + shift \in 1 .. Len(put[from]) /\ put[from][i + shift] = item
  <2>1. CASE from = d.c
    <3>1. shift = Len(put[from]) - Len(s[from])
      BY <2>1
    <3> HIDE DEF shift
    <3>2. shift \in {0, 1} /\ Len(put[from]) = Len(s[from]) + shift
      <4> DEFINE a == Len(put[from])
                 b == Len(s[from])
      <4>1. b \in Nat /\ a \in {b, b + 1} /\ shift = a - b
        BY <1>10, <2>1, <3>1
      <4> HIDE DEF a, b
      <4>2. shift \in {0, 1} /\ a = b + shift
        BY <4>1
      <4> QED BY <4>2 DEF a, b
    <3>3. i + shift \in 1 .. Len(put[from])
      BY <1>3, <3>2
    <3>4. put[from][i + shift] = s[from][i]
      BY <1>10, <2>1, <3>1
    <3> QED BY <3>3, <3>4 DEF item
  <2>2. CASE from # d.c
    <3>1. shift = 0 /\ put[from] = s[from]
      BY <1>10, <2>2
    <3> HIDE DEF shift
    <3>2. i + shift = i
      BY <3>1
    <3> QED BY <3>1, <3>2 DEF item
  <2> QED BY <2>1, <2>2
<1> DEFINE at == i + shift
<1> HIDE DEF shift, at
<1>13. HasTaken(put, Coins!Taken(put, from, at, m), from, at, m, price)
  <2>1. at \in 1 .. Len(put[from]) /\ m <= put[from][at].count
    BY <1>7, <1>12 DEF at
  <2> QED BY <1>7, <1>10, <1>80, <2>1, TakingIs
<1>14. rest = Coins!Taken(put, from, at, m)
  BY DEF at
<1> HIDE DEF rest
<1>15. /\ rest \in CoinStates /\ FitsIn(rest) /\ NoneOver(rest)
       /\ price[item.kind] * m \in Nat
       /\ AllAt(rest, price) = AllAt(put, price) - price[item.kind] * m
  <2>1. put[from][at] = item
    BY <1>12 DEF at
  <2> QED BY <1>10, <1>11, <1>13, <1>14, <2>1 DEF HasTaken
<1>16. CoinsSound(Coins!Swept(rest)) /\ AllAt(Coins!Swept(rest), price) = AllAt(rest, price)
  BY <1>15, <1>80, SweptIs
<1>17. AllAt(rest, price) = AllAt(s, price)
  <2> DEFINE a == price[item.kind] * m
  <2>1. AtPrice(new, price) = a
    BY <1>8 DEF AtPrice
  <2> HIDE DEF a
  <2>2. AllAt(s, price) \in Nat /\ a \in Nat
    BY <1>2, <1>15, <1>80, SumsAre DEF a
  <2>3. AllAt(rest, price) = AllAt(put, price) - a /\ AllAt(put, price) = AllAt(s, price) + a
    BY <1>10, <1>15, <2>1 DEF a
  <2> QED BY <2>2, <2>3
<1> QED BY <1>1, <1>16, <1>17 DEF price

(* What the slot held is where the new stack comes from.                   *)
Given(s, from) == [s EXCEPT !.slot = <<>>, ![from] = s.slot \o @]
IsGiven(s, t, from) ==
  /\ CoinsSound(t) /\ AllAt(t, Coins!Prices) = AllAt(s, Coins!Prices)
  /\ Len(t["slot"]) = 0
  /\ \A i \in 1 .. Len(s[from]) : i + 1 \in 1 .. Len(t[from]) /\ t[from][i + 1] = s[from][i]

LEMMA GivenKeeps ==
  ASSUME NEW s, CoinsSound(s), NEW from \in Coins!Cylinders, from # "slot",
         Len(s["slot"]) # 0, ~Coins!Full(s, from)
  PROVE  IsGiven(s, Given(s, from), from)
<1> DEFINE none == <<>>
           slot == s["slot"]
           item == slot[1]
           l == s[from]
           more == <<item>> \o l
           k == Relaid(s, "slot", none)
           t == Relaid(k, from, more)
           price == Coins!Prices
<1>1. /\ s \in CoinStates /\ FitsIn(s) /\ NoneOver(s) /\ NoneEmpty(s)
      /\ slot \in ItemLists /\ l \in ItemLists /\ "slot" \in Coins!Cylinders
  BY DEF CoinsSound, CoinStates, Coins!Cylinders
<1>2. Len(slot) = 1
  <2>1. Len(slot) <= 1
    <3>1. "slot" \in Coins!Cylinders \ {"floor"}
      BY DEF Coins!Cylinders
    <3>2. Len(s["slot"]) <= Coins!Size("slot")
      BY <1>1, <3>1, Zenon DEF FitsIn
    <3> QED BY <3>2, SizesAre
  <2>2. Len(slot) # 0
    OBVIOUS
  <2> HIDE DEF slot
  <2>3. Len(slot) \in Nat
    BY <1>1 DEF ItemLists
  <2>4. \A n \in Nat : n <= 1 /\ n # 0 => n = 1
    OBVIOUS
  <2> QED BY <2>1, <2>2, <2>3, <2>4, Zenon
<1>3. item \in CoinItems /\ item.count # 0 /\ item.count <= StackSize
  <2>1. 1 \in 1 .. Len(slot)
    BY <1>2
  <2>2. item \in CoinItems
    BY <1>1, <2>1 DEF ItemLists
  <2> QED BY <1>1, <2>1, <2>2 DEF NoneOver, NoneEmpty
<1>4. none \in ItemLists /\ Len(none) = 0 /\ SumAt(none, price) = 0
  <2>1. none \in ItemLists /\ Len(none) = 0
    BY DEF ItemLists
  <2> QED BY <2>1, TotalOfNone DEF SumAt
<1>5. slot = <<item>> /\ slot = <<item>> \o none
  <2>1. slot \in Seq(CoinItems)
    BY <1>1 DEF ItemLists
  <2> HIDE DEF slot
  <2>2. slot = <<slot[1]>>
    BY <1>2, <2>1
  <2>3. <<slot[1]>> = <<slot[1]>> \o <<>>
    OBVIOUS
  <2> QED BY <2>2, <2>3
<1>6. price \in PriceLists
  BY PricesAre
<1> HIDE DEF price, none
<1>7. SumAt(slot, price) = AtPrice(item, price)
  <2> HIDE DEF slot, item
  <2>1. SumAt(<<item>> \o none, price) = AtPrice(item, price) + SumAt(none, price)
    BY <1>3, <1>4, <1>6, SumPrepends
  <2>2. AtPrice(item, price) \in Nat
    BY <1>3, <1>6, AtPriceIs
  <2> QED BY <1>4, <1>5, <2>1, <2>2
<1>8. Given(s, from) = t
  <2>1. slot \o l = more
    BY <1>5
  <2>2. [s EXCEPT !["slot"] = none][from] = l
    BY <1>1
  <2> QED BY <2>1, <2>2, <1>1 DEF Given, Relaid, none, CoinStates
<1> HIDE DEF item, slot
<1>9. /\ more \in ItemLists /\ Len(more) = Len(l) + 1 /\ more[1] = item
      /\ \A j \in 1 .. Len(l) : more[j + 1] = l[j]
      /\ SumAt(more, price) = AtPrice(item, price) + SumAt(l, price)
  <2> HIDE DEF l
  <2> QED BY <1>1, <1>3, <1>6, SumPrepends
<1> HIDE DEF more
<1>10. /\ k \in CoinStates /\ k["slot"] = none
       /\ \A c \in Coins!Cylinders : c # "slot" => k[c] = s[c]
       /\ AllAt(k, price) = AllAt(s, price) + SumAt(none, price) - SumAt(slot, price)
  <2>1. /\ k \in CoinStates /\ k["slot"] = none
        /\ \A c \in Coins!Cylinders : c # "slot" => k[c] = s[c]
        /\ AllAt(k, price) = AllAt(s, price) + SumAt(none, price) - SumAt(s["slot"], price)
    BY <1>1, <1>4, <1>6, CellChanges
  <2> QED BY <2>1 DEF slot
<1> HIDE DEF k
<1>11. /\ t \in CoinStates /\ t[from] = more
       /\ \A c \in Coins!Cylinders : c # from => t[c] = k[c]
       /\ AllAt(t, price) = AllAt(k, price) + SumAt(more, price) - SumAt(k[from], price)
  BY <1>6, <1>9, <1>10, CellChanges
<1> HIDE DEF t
<1>12. AllAt(t, price) = AllAt(s, price)
  <2>1. SumAt(l, price) \in Nat /\ AllAt(s, price) \in Nat /\ AtPrice(item, price) \in Nat
    BY <1>1, <1>3, <1>6, SumIsNat, SumsAre, AtPriceIs
  <2>2. k[from] = l
    BY <1>10
  <2> QED BY <1>4, <1>7, <1>9, <1>10, <1>11, <2>1, <2>2
<1>13. Len(l) \in Nat
  BY <1>1 DEF ItemLists
<1>14. t["slot"] = none /\ \A c \in Coins!Cylinders : c # from /\ c # "slot" => t[c] = s[c]
  BY <1>1, <1>10, <1>11
<1>15. \A j \in 1 .. Len(more) : more[j].count <= StackSize /\ more[j].count # 0
  <2>1. \A j \in 1 .. Len(more) : j = 1 \/ (j - 1 \in 1 .. Len(l) /\ more[j] = l[j - 1])
    BY <1>9, <1>13
  <2>2. \A j \in 1 .. Len(l) : l[j].count <= StackSize /\ l[j].count # 0
    BY <1>1 DEF NoneOver, NoneEmpty
  <2> QED BY <1>3, <1>9, <2>1, <2>2
<1>16. NoneOver(t) /\ NoneEmpty(t)
  <2> SUFFICES ASSUME NEW c \in Coins!Cylinders, NEW j \in 1 .. Len(t[c])
               PROVE  t[c][j].count <= StackSize /\ t[c][j].count # 0
    BY DEF NoneOver, NoneEmpty
  <2>1. CASE c = from
    BY <1>11, <1>15, <2>1
  <2>2. CASE c = "slot" /\ c # from
    BY <1>4, <1>14, <2>2
  <2>3. CASE c # "slot" /\ c # from
    BY <1>1, <1>14, <2>3 DEF NoneOver, NoneEmpty
  <2> QED BY <2>1, <2>2, <2>3
<1>17. FitsIn(t)
  <2> SUFFICES ASSUME NEW c \in Coins!Cylinders \ {"floor"} PROVE Len(t[c]) <= Coins!Size(c)
    BY DEF FitsIn
  <2>0. Coins!Size(c) \in Nat
    BY SizesAre
  <2>1. CASE c = from
    <3>1. ~(Len(l) >= Coins!Size(c))
      BY <2>1 DEF Coins!Full
    <3> QED BY <1>9, <1>11, <1>13, <2>0, <2>1, <3>1
  <2>2. CASE c = "slot" /\ c # from
    BY <1>4, <1>14, <2>0, <2>2
  <2>3. CASE c # "slot" /\ c # from
    BY <1>1, <1>14, <2>3 DEF FitsIn
  <2> QED BY <2>1, <2>2, <2>3
<1>18. \A i \in 1 .. Len(l) : i + 1 \in 1 .. Len(t[from]) /\ t[from][i + 1] = l[i]
  BY <1>9, <1>11, <1>13
<1>19. Len(t["slot"]) = 0
  BY <1>4, <1>14
<1>20. IsGiven(s, t, from)
  BY <1>11, <1>12, <1>16, <1>17, <1>18, <1>19 DEF IsGiven, CoinsSound, price, l
<1> QED BY <1>8, <1>20

(* A move makes no money and loses none.                                   *)
LEMMA MovedByHandKeeps ==
  ASSUME CoinsSound(x1), NEW from \in Coins!Cylinders, NEW to \in Coins!Cylinders \cup {"player"},
         NEW i \in Nat, NEW j \in Nat, NEW count \in Nat,
         Coins!MoveItem(from, i, to, j, count)
  PROVE  CoinsSound(x1') /\ AllAt(x1', Coins!Prices) = AllAt(x1, Coins!Prices) /\ x2' = x2
<1> DEFINE item == x1[from][i]
           d == Coins!QueryDestination(x1, to, j)
           given == Given(x1, from)
<1>1. /\ i \in DOMAIN x1[from] /\ count <= item.count
      /\ Coins!QueryAdd(x1, d) /\ <<d.c, d.at>> # <<from, i>> /\ x2' = x2
      /\ \/ /\ ~Coins!NeedExchange(x1, d, item.kind)
            /\ x1' = Coins!Moved(x1, from, i, d, count)
         \/ /\ Coins!NeedExchange(x1, d, item.kind) /\ ~Coins!Full(x1, from)
            /\ x1' \in {given, Coins!Moved(given, from, i + 1, d, count)}
  BY Zenon DEF Coins!MoveItem, Given
<1>2. /\ x1[from] \in ItemLists /\ x1["slot"] \in ItemLists /\ i \in 1 .. Len(x1[from])
      /\ Len(x1["slot"]) \in Nat
  <2>1. x1[from] \in ItemLists /\ x1["slot"] \in ItemLists
    BY DEF CoinsSound, CoinStates, Coins!Cylinders
  <2> QED BY <1>1, <2>1 DEF ItemLists
<1>3. RoomFor(x1, d) /\ (d.c = "slot" /\ Len(x1["slot"]) # 0 => d.at = 1)
  BY <1>1, DestinationIs
<1>4. d.c # from \/ d.at # i
  BY <1>1
<1> HIDE DEF d, item, given
<1>5. CASE x1' = Coins!Moved(x1, from, i, d, count)
  BY <1>1, <1>2, <1>3, <1>4, <1>5, MovedCoinsKeep DEF item
<1>6. CASE /\ Coins!NeedExchange(x1, d, item.kind) /\ ~Coins!Full(x1, from)
           /\ x1' \in {given, Coins!Moved(given, from, i + 1, d, count)}
  <2>1. /\ d.c = "slot" /\ x1["slot"] # <<>> /\ x1["slot"][1].kind # item.kind
    BY <1>6, Zenon DEF Coins!NeedExchange
  <2>2. Len(x1["slot"]) # 0
    BY <1>2, <2>1 DEF ItemLists
  <2>3. from # "slot"
    <3>1. ASSUME from = "slot" PROVE FALSE
      <4>1. ~(Len(x1["slot"]) >= 1)
        BY <1>6, <3>1, SizesAre DEF Coins!Full
      <4> QED BY <1>2, <2>2, <4>1
    <3> QED BY <3>1
  <2>4. IsGiven(x1, given, from)
    BY <1>6, <2>2, <2>3, GivenKeeps DEF given
  <2>5. /\ CoinsSound(given) /\ AllAt(given, Coins!Prices) = AllAt(x1, Coins!Prices)
        /\ Len(given["slot"]) = 0
        /\ i + 1 \in 1 .. Len(given[from]) /\ given[from][i + 1] = item
    BY <1>2, <2>4 DEF IsGiven, item
  <2>6. RoomFor(given, d)
    BY <1>3, <2>5 DEF RoomFor
  <2>7. CASE x1' = given
    BY <1>1, <2>5, <2>7
  <2>8. CASE x1' = Coins!Moved(given, from, i + 1, d, count)
    <3> DEFINE n == i + 1
    <3>1. n \in 1 .. Len(given[from]) /\ given[from][n] = item
      BY <2>5
    <3>2. x1' = Coins!Moved(given, from, n, d, count)
      BY <2>8
    <3> HIDE DEF n
    <3>3. d.c # from
      BY <2>1, <2>3
    <3>4. count <= given[from][n].count
      BY <1>1, <3>1
    <3>5. CoinsSound(x1') /\ AllAt(x1', Coins!Prices) = AllAt(given, Coins!Prices)
      BY <2>5, <2>6, <3>1, <3>2, <3>3, <3>4, MovedCoinsKeep
    <3> QED BY <1>1, <2>5, <3>5
  <2> QED BY <1>6, <2>7, <2>8
<1> QED BY <1>1, <1>5, <1>6
-----------------------------------------------------------------------------
(* What holds of the coins.                                                *)
CoinInv == CoinsSound(x1) /\ AllAt(x1, Coins!Prices) = x2

LEMMA CoinsStart == Coins!Init => CoinInv
<1> SUFFICES ASSUME Coins!Init PROVE CoinInv
  OBVIOUS
<1> DEFINE none == <<>>
           pack == <<Coins!Bag>>
           price == Coins!Prices
<1>1. x1 = [c \in Coins!Cylinders |-> IF c = "pack" THEN pack ELSE none] /\ x2 = 0
  BY DEF Coins!Init
<1>2. price \in PriceLists /\ price["bag"] = 0
  BY PricesAre DEF Coins!Prices
<1>3. none \in ItemLists /\ Len(none) = 0 /\ SumAt(none, price) = 0
  <2>1. none \in ItemLists /\ Len(none) = 0
    BY DEF ItemLists
  <2> QED BY <2>1, TotalOfNone DEF SumAt
<1>4. Coins!Bag \in CoinItems /\ Coins!Bag.count = 1 /\ Coins!Bag.kind = "bag"
  BY DEF Coins!Bag, CoinItems, CoinKinds
<1>5. pack = <<Coins!Bag>> \o none
  OBVIOUS
<1> HIDE DEF none, price, pack
<1>6. /\ pack \in ItemLists /\ Len(pack) = 1 /\ pack[1] = Coins!Bag
      /\ SumAt(pack, price) = AtPrice(Coins!Bag, price) + SumAt(none, price)
  <2> DEFINE more == <<Coins!Bag>> \o none
  <2>1. /\ more \in ItemLists /\ Len(more) = Len(none) + 1 /\ more[1] = Coins!Bag
        /\ SumAt(more, price) = AtPrice(Coins!Bag, price) + SumAt(none, price)
    BY <1>2, <1>3, <1>4, SumPrepends
  <2>2. pack = more
    BY <1>5
  <2> HIDE DEF more
  <2> QED BY <1>3, <2>1, <2>2
<1>7. AtPrice(Coins!Bag, price) = 0
  <2>1. 0 * 1 = 0
    OBVIOUS
  <2> QED BY <1>2, <1>4, <2>1 DEF AtPrice
<1>8. {"slot", "pack", "bag", "floor"} = Coins!Cylinders
  BY DEF Coins!Cylinders
<1>9. \A c \in Coins!Cylinders : x1[c] = IF c = "pack" THEN pack ELSE none
  BY <1>1
<1>10. x1 \in CoinStates
  BY <1>1, <1>3, <1>6 DEF CoinStates
<1>11. FitsIn(x1)
  <2> SUFFICES ASSUME NEW c \in Coins!Cylinders \ {"floor"} PROVE Len(x1[c]) <= Coins!Size(c)
    BY DEF FitsIn
  <2>1. CASE c = "pack"
    <3>1. Len(x1[c]) = 1 /\ Coins!Size(c) = PackSize
      BY <1>6, <1>9, <2>1, SizesAre
    <3> QED BY <3>1, CoinsAreAssumed
  <2>2. CASE c # "pack"
    <3>1. Len(x1[c]) = 0 /\ Coins!Size(c) \in Nat
      BY <1>3, <1>9, <2>2, SizesAre
    <3> QED BY <3>1
  <2> QED BY <2>1, <2>2
<1>12. NoneOver(x1) /\ NoneEmpty(x1)
  <2> SUFFICES ASSUME NEW c \in Coins!Cylinders, NEW i \in 1 .. Len(x1[c])
               PROVE  x1[c][i].count <= StackSize /\ x1[c][i].count # 0
    BY DEF NoneOver, NoneEmpty
  <2>1. CASE c = "pack"
    <3>1. x1[c] = pack /\ i \in 1 .. 1
      BY <1>6, <1>9, <2>1
    <3>2. x1[c][i].count = 1
      BY <1>4, <1>6, <3>1
    <3> QED BY <3>2, CoinsAreAssumed
  <2>2. CASE c # "pack"
    BY <1>3, <1>9, <2>2
  <2> QED BY <2>1, <2>2
<1>13. AllAt(x1, price) = 0
  <2>1. /\ SumAt(x1["slot"], price) = 0 /\ SumAt(x1["pack"], price) = 0
        /\ SumAt(x1["bag"], price) = 0 /\ SumAt(x1["floor"], price) = 0
    BY <1>3, <1>6, <1>7, <1>8, <1>9
  <2> QED BY <2>1 DEF AllAt, CarriedAt
<1> QED BY <1>1, <1>10, <1>11, <1>12, <1>13 DEF CoinInv, CoinsSound, price

LEMMA CoinsStayWhile == CoinInv /\ Untouched => CoinInv'
BY DEF CoinInv, Untouched, CoinsSound, AllAt, CarriedAt, SumAt, FitsIn, NoneOver, NoneEmpty

LEMMA AddMoneyKeeps ==
  ASSUME CoinInv, NEW money \in Nat, Coins!AddMoney(money) PROVE CoinInv'
<1>1. PICK able : x1' = Coins!MoneyAdded(x1, able, money)
  BY DEF Coins!AddMoney
<1>2. x2' = x2 + money
  BY DEF Coins!AddMoney
<1>3. CoinsSound(x1') /\ AllAt(x1', Coins!Prices) = AllAt(x1, Coins!Prices) + money
  BY <1>1, AddedKeeps DEF CoinInv
<1> QED BY <1>2, <1>3 DEF CoinInv

LEMMA RemoveMoneyKeeps ==
  ASSUME CoinInv, NEW money \in Nat, Coins!RemoveMoney(money) PROVE CoinInv'
<1>1. PICK able : x1' = Coins!MoneyRemoved(x1, able, money)
  BY DEF Coins!RemoveMoney
<1>2. x2' = x2 - money /\ Coins!Total(x1, Coins!Prices) >= money
  BY DEF Coins!RemoveMoney
<1>3. x1 \in CoinStates /\ CoinsSound(x1)
  BY DEF CoinInv, CoinsSound
<1>4. money <= CarriedAt(x1, Coins!Prices)
  <2>1. Coins!Total(x1, Coins!Prices) = CarriedAt(x1, Coins!Prices)
        /\ CarriedAt(x1, Coins!Prices) \in Nat
    BY <1>3, TotalIsCarried, PricesAre, SumsAre
  <2> QED BY <1>2, <2>1
<1>5. CoinsSound(x1') /\ AllAt(x1', Coins!Prices) = AllAt(x1, Coins!Prices) - money
  BY <1>1, <1>3, <1>4, RemovedKeeps
<1> QED BY <1>2, <1>5 DEF CoinInv

LEMMA RemoveItemOfTypeKeeps ==
  ASSUME CoinInv, NEW kind \in Coins!KindSet, NEW n \in Nat, Coins!RemoveItemOfType(kind, n)
  PROVE  CoinInv'
<1> DEFINE t == Coins!TypeTaken(x1, kind, n).s
<1>1. x1' = Coins!Swept(t) /\ x2' = x2 - n * Worth[kind] /\ Coins!CountOf(x1, kind) >= n
  BY DEF Coins!RemoveItemOfType
<1>2. x1 \in CoinStates /\ CoinsSound(x1) /\ kind \in CoinKinds
  BY DEF CoinInv, CoinsSound, CoinKinds
<1>3. n <= CarriedAt(x1, Ones(kind))
  <2>1. Coins!CountOf(x1, kind) = CarriedAt(x1, Ones(kind)) /\ CarriedAt(x1, Ones(kind)) \in Nat
    BY <1>2, CountIs, TotalIsCarried, OnesAre, SumsAre
  <2> QED BY <1>1, <2>1
<1>4. /\ t \in CoinStates /\ FitsIn(t) /\ NoneOver(t)
      /\ AllAt(t, Coins!Prices) = AllAt(x1, Coins!Prices) - Worth[kind] * n
  BY <1>2, <1>3, TypeTakenIs
<1> HIDE DEF t
<1>5. CoinsSound(x1') /\ AllAt(x1', Coins!Prices) = AllAt(t, Coins!Prices)
  BY <1>1, <1>4, SweptIs, PricesAre
<1>6. n * Worth[kind] = Worth[kind] * n
  BY PricesAre
<1> QED BY <1>1, <1>4, <1>5, <1>6 DEF CoinInv

LEMMA CoinStepKeeps == CoinInv /\ Coins!Next => CoinInv'
<1> SUFFICES ASSUME CoinInv, Coins!Next PROVE CoinInv'
  OBVIOUS
<1>1. CASE \E money \in 1 .. MaxWorth : Coins!AddMoney(money) \/ Coins!RemoveMoney(money)
  <2>1. PICK money \in 1 .. MaxWorth : Coins!AddMoney(money) \/ Coins!RemoveMoney(money)
    BY <1>1
  <2>2. money \in Nat
    BY CoinsAreAssumed
  <2> QED BY <2>1, <2>2, AddMoneyKeeps, RemoveMoneyKeeps
<1>2. CASE \E kind \in Coins!KindSet, count \in 1 .. MaxWorth : Coins!RemoveItemOfType(kind, count)
  <2>1. PICK kind \in Coins!KindSet, count \in 1 .. MaxWorth : Coins!RemoveItemOfType(kind, count)
    BY <1>2
  <2>2. count \in Nat
    BY CoinsAreAssumed
  <2> QED BY <2>1, <2>2, RemoveItemOfTypeKeeps
<1>3. CASE \E from, to \in Coins!Cylinders \cup {"player"} :
             \E i, j \in 1 .. PackSize + MaxFloor, count \in 1 .. StackSize :
               from # "player" /\ Coins!MoveItem(from, i, to, j, count)
  <2>1. PICK from \in Coins!Cylinders \cup {"player"}, to \in Coins!Cylinders \cup {"player"} :
          \E i, j \in 1 .. PackSize + MaxFloor, count \in 1 .. StackSize :
            from # "player" /\ Coins!MoveItem(from, i, to, j, count)
    BY <1>3
  <2>2. PICK i \in 1 .. PackSize + MaxFloor, j \in 1 .. PackSize + MaxFloor,
             count \in 1 .. StackSize :
          from # "player" /\ Coins!MoveItem(from, i, to, j, count)
    BY <2>1
  <2>3. i \in Nat /\ j \in Nat /\ count \in Nat /\ from \in Coins!Cylinders
    BY <2>2, CoinsAreAssumed
  <2>4. CoinsSound(x1') /\ AllAt(x1', Coins!Prices) = AllAt(x1, Coins!Prices) /\ x2' = x2
    BY <2>2, <2>3, MovedByHandKeeps DEF CoinInv
  <2> QED BY <2>4 DEF CoinInv
<1> QED BY <1>1, <1>2, <1>3 DEF Coins!Next

LEMMA CoinInvSays == CoinInv => Coins!TypeOK /\ Coins!CoinsAddUp
<1> SUFFICES ASSUME CoinInv PROVE Coins!TypeOK /\ Coins!CoinsAddUp
  OBVIOUS
<1>1. /\ x1 \in CoinStates /\ FitsIn(x1) /\ NoneOver(x1) /\ NoneEmpty(x1)
      /\ AllAt(x1, Coins!Prices) = x2
  BY DEF CoinInv, CoinsSound
<1>2. DOMAIN x1 = Coins!Cylinders /\ \A c \in Coins!Cylinders : x1[c] \in ItemLists
  BY <1>1 DEF CoinStates
<1>3. \A c \in Coins!Cylinders : \A i \in DOMAIN x1[c] :
        /\ x1[c][i].kind \in Coins!KindSet \cup {"bag"}
        /\ x1[c][i].count \in 1 .. StackSize
  <2> SUFFICES ASSUME NEW c \in Coins!Cylinders, NEW i \in DOMAIN x1[c]
               PROVE  /\ x1[c][i].kind \in Coins!KindSet \cup {"bag"}
                      /\ x1[c][i].count \in 1 .. StackSize
    OBVIOUS
  <2>1. i \in 1 .. Len(x1[c]) /\ x1[c][i] \in CoinItems
    BY <1>2 DEF ItemLists
  <2> DEFINE item == x1[c][i]
  <2>2. item.count <= StackSize /\ item.count # 0
    BY <1>1, <2>1 DEF NoneOver, NoneEmpty
  <2>3. item.kind \in CoinKinds /\ item.count \in Nat
    BY <2>1 DEF CoinItems
  <2> HIDE DEF item
  <2>4. item.count \in 1 .. StackSize
    BY <2>2, <2>3, CoinsAreAssumed
  <2> QED BY <2>3, <2>4 DEF item, CoinKinds
<1>4. x2 \in Nat
  BY <1>1, SumsAre, PricesAre
<1>5. Coins!TypeOK
  BY <1>2, <1>3, <1>4 DEF Coins!TypeOK
<1>6. Coins!Total(x1, Coins!Prices) + Coins!Sum(x1["floor"], Coins!Prices) = x2
  <2>1. Coins!Total(x1, Coins!Prices) = CarriedAt(x1, Coins!Prices)
    BY <1>1, TotalIsCarried, PricesAre
  <2>2. Coins!Sum(x1["floor"], Coins!Prices) = SumAt(x1["floor"], Coins!Prices)
    BY <1>2, SumIsSumAt, PricesAre DEF Coins!Cylinders
  <2> QED BY <1>1, <2>1, <2>2 DEF AllAt
<1>7. Coins!CoinsAddUp
  BY <1>1, <1>3, <1>6 DEF Coins!CoinsAddUp, FitsIn
<1> QED BY <1>5, <1>7
-----------------------------------------------------------------------------
LEMMA EquipIsAssumed == Equip!EquipAssumption
BY WorldAssumption DEF WorldAssumption

(* The books of what gives abilities, what it should add up to, and what   *)
(* is at a slot that gives some; one slot may be out of the books while    *)
(* the item that was there is on its way.                                  *)
GearBooks == [Equip!Sources -> WornTypes \cup Outfits \cup {None}]
Wearers == [enabled : [Equip!SlotSet -> BOOLEAN], speed : Int,
            shields : SUBSET (Equip!SlotSet \cup {"outfit", "spell"}), suppressed : BOOLEAN,
            type : [WornItems -> WornTypes], at : [WornItems -> Equip!SlotSet \cup {"away", "gone"}]]
WorthIn(what) == IF what = None THEN 0 ELSE Speed[what]

GearSums(f, v) ==
  /\ f \in [0 .. Len(Slots) -> Int]
  /\ f[0] = WorthIn(v["outfit"])
  /\ \A n \in 1 .. Len(Slots) : f[n] = f[n - 1] + WorthIn(v[Slots[n]])
GearTotals(speed_, v) == \E f : GearSums(f, v) /\ f[Len(Slots)] = speed_
ShieldsOf(v) == {id \in Equip!Sources : v[id] \in Shield}
Suppresses(v) == \E id \in Equip!Sources : v[id] \in Suppress

GearFits(s, v) ==
  /\ GearTotals(s.speed, v)
  /\ s.shields \ {"spell"} = ShieldsOf(v)
  /\ s.suppressed => Suppresses(v)

OnePerSlot(s) == \A i, j \in WornItems : s.at[i] = s.at[j] /\ s.at[i] \in Equip!SlotSet => i = j
BookedAt(s, v, n) ==
  IF s.enabled[n] THEN \E i \in WornItems : s.at[i] = n /\ v[n] = s.type[i] ELSE v[n] = None
LinkedBut(s, v, hole) == OnePerSlot(s) /\ \A n \in Equip!SlotSet \ {hole} : BookedAt(s, v, n)
Agree(s, v, hole) == s \in Wearers /\ v \in GearBooks /\ GearFits(s, v) /\ LinkedBut(s, v, hole)

LEMMA WorthIsInt ==
  ASSUME NEW what \in WornTypes \cup Outfits \cup {None}
  PROVE  WorthIn(what) \in Int
BY EquipIsAssumed DEF Equip!EquipAssumption, WorthIn

LEMMA SlotFacts ==
  /\ Len(Slots) \in Nat
  /\ \A n \in 1 .. Len(Slots) : Slots[n] \in Equip!SlotSet
  /\ \A m, n \in 1 .. Len(Slots) : Slots[m] = Slots[n] => m = n
  /\ \A slot \in Equip!SlotSet : \E n \in 1 .. Len(Slots) : Slots[n] = slot
  /\ \A name \in {"outfit", "spell", "away", "gone"} : name \notin Equip!SlotSet
  /\ "spell" \notin Equip!Sources
<1>1. Slots \in Seq(Equip!SlotSet)
  BY EquipIsAssumed DEF Equip!EquipAssumption
<1>2. Len(Slots) \in Nat /\ DOMAIN Slots = 1 .. Len(Slots)
  BY <1>1
<1>3. \A n \in 1 .. Len(Slots) : Slots[n] \in Equip!SlotSet
  BY <1>2 DEF Equip!SlotSet
<1>4. \A slot \in Equip!SlotSet : \E n \in 1 .. Len(Slots) : Slots[n] = slot
  BY <1>2 DEF Equip!SlotSet
<1>5. \A m, n \in 1 .. Len(Slots) : Slots[m] = Slots[n] => m = n
  BY <1>2, EquipIsAssumed DEF Equip!EquipAssumption
<1>6. \A name \in {"outfit", "spell", "away", "gone"} : name \notin Equip!SlotSet
  BY EquipIsAssumed DEF Equip!EquipAssumption
<1> QED BY <1>2, <1>3, <1>4, <1>5, <1>6 DEF Equip!Sources

(* What one entry of the books changes, the total changes.                 *)
LEMMA TotalChanges ==
  ASSUME NEW v \in GearBooks, NEW id \in Equip!Sources, NEW what \in WornTypes \cup Outfits \cup {None},
         NEW sp \in Int, GearTotals(sp, v)
  PROVE  GearTotals(sp + WorthIn(what) - WorthIn(v[id]), [v EXCEPT ![id] = what])
<1> DEFINE w == [v EXCEPT ![id] = what]
           d == WorthIn(what) - WorthIn(v[id])
           k == Len(Slots)
<1>1. PICK f : GearSums(f, v) /\ f[k] = sp
  BY DEF GearTotals
<1>2. k \in Nat /\ (\A n \in 1 .. k : Slots[n] \in Equip!Sources)
  BY SlotFacts DEF Equip!Sources
<1>3. WorthIn(what) \in Int /\ WorthIn(v[id]) \in Int /\ d \in Int
  <2>1. v[id] \in WornTypes \cup Outfits \cup {None}
    BY DEF GearBooks
  <2> QED BY <2>1, WorthIsInt
<1>4. /\ \A x \in Equip!Sources : x # id => w[x] = v[x]
      /\ w[id] = what
  BY DEF GearBooks
<1>5. \A x \in Equip!Sources : WorthIn(v[x]) \in Int
  BY WorthIsInt DEF GearBooks
<1>6. "outfit" \in Equip!Sources
  BY DEF Equip!Sources
<1> HIDE DEF w, d, k
<1>7. f \in [0 .. k -> Int] /\ f[0] = WorthIn(v["outfit"])
      /\ \A n \in 1 .. k : f[n] = f[n - 1] + WorthIn(v[Slots[n]])
  BY <1>1 DEF GearSums, k
<1>8. \E g : GearSums(g, w) /\ g[k] = sp + d
  <2>1. CASE id = "outfit"
    <3> DEFINE g == [n \in 0 .. k |-> f[n] + d]
    <3>1. g \in [0 .. k -> Int] /\ g[k] = sp + d
      BY <1>1, <1>2, <1>3, <1>7
    <3>2. \A n \in 0 .. k : g[n] = f[n] + d
      OBVIOUS
    <3> HIDE DEF g
    <3>3. \A n \in 1 .. k : Slots[n] # id
      BY <2>1, SlotFacts DEF k
    <3>4. g[0] = WorthIn(w["outfit"])
      <4>1. g[0] = WorthIn(v[id]) + (WorthIn(what) - WorthIn(v[id]))
        BY <1>2, <1>7, <2>1, <3>2 DEF d
      <4> QED BY <1>3, <1>4, <2>1, <4>1
    <3>5. ASSUME NEW n \in 1 .. k PROVE g[n] = g[n - 1] + WorthIn(w[Slots[n]])
      <4>1. w[Slots[n]] = v[Slots[n]] /\ WorthIn(v[Slots[n]]) \in Int
        BY <1>2, <1>4, <1>5, <3>3
      <4>2. n - 1 \in 0 .. k /\ n \in 0 .. k
        BY <1>2
      <4>3. f[n - 1] \in Int /\ f[n] \in Int
        BY <1>7, <4>2
      <4>4. f[n] = f[n - 1] + WorthIn(v[Slots[n]])
        BY <1>7
      <4>5. g[n] = f[n] + d /\ g[n - 1] = f[n - 1] + d
        BY <3>2, <4>2
      <4> QED BY <1>3, <4>1, <4>3, <4>4, <4>5
    <3> QED BY <3>1, <3>4, <3>5 DEF GearSums, k
  <2>2. CASE id # "outfit"
    <3>1. PICK m \in 1 .. k : Slots[m] = id
      BY <2>2, SlotFacts DEF k, Equip!Sources
    <3> DEFINE g == [n \in 0 .. k |-> IF n < m THEN f[n] ELSE f[n] + d]
    <3>2. g \in [0 .. k -> Int] /\ g[k] = sp + d
      BY <1>1, <1>2, <1>3, <1>7
    <3>3. \A n \in 0 .. k : g[n] = IF n < m THEN f[n] ELSE f[n] + d
      OBVIOUS
    <3> HIDE DEF g
    <3>4. g[0] = WorthIn(w["outfit"])
      BY <1>2, <1>4, <1>6, <1>7, <2>2, <3>3
    <3>5. ASSUME NEW n \in 1 .. k PROVE g[n] = g[n - 1] + WorthIn(w[Slots[n]])
      <4>1. n - 1 \in 0 .. k /\ n \in 0 .. k
        BY <1>2
      <4>2. f[n - 1] \in Int /\ f[n] \in Int /\ f[n] = f[n - 1] + WorthIn(v[Slots[n]])
        BY <1>7, <4>1
      <4>3. /\ g[n] = IF n < m THEN f[n] ELSE f[n] + d
            /\ g[n - 1] = IF n - 1 < m THEN f[n - 1] ELSE f[n - 1] + d
        BY <3>3, <4>1
      <4>4. WorthIn(v[Slots[n]]) \in Int
        BY <1>2, <1>5
      <4>5. CASE n = m
        <5>1. w[Slots[n]] = what /\ Slots[n] = id
          BY <1>4, <3>1, <4>5
        <5>2. g[n] = f[n] + d /\ g[n - 1] = f[n - 1]
          BY <4>3, <4>5
        <5>3. f[n] + (WorthIn(what) - WorthIn(v[id])) = f[n - 1] + WorthIn(what)
          BY <1>3, <4>2, <5>1
        <5> QED BY <5>1, <5>2, <5>3 DEF d
      <4>6. CASE n # m
        <5>1. w[Slots[n]] = v[Slots[n]]
          BY <1>2, <1>4, <3>1, <4>6, SlotFacts DEF k
        <5>2. CASE n < m
          <6>1. g[n] = f[n] /\ g[n - 1] = f[n - 1]
            BY <4>3, <5>2
          <6> QED BY <4>2, <5>1, <6>1
        <5>3. CASE ~(n < m)
          <6>1. g[n] = f[n] + d /\ g[n - 1] = f[n - 1] + d
            BY <4>3, <4>6, <5>3
          <6> QED BY <1>3, <4>2, <4>4, <5>1, <6>1
        <5> QED BY <5>2, <5>3
      <4> QED BY <4>5, <4>6
    <3> QED BY <3>2, <3>4, <3>5 DEF GearSums, k
  <2> QED BY <2>1, <2>2
<1>9. sp + WorthIn(what) - WorthIn(v[id]) = sp + d
  BY <1>3 DEF d
<1> QED BY <1>8, <1>9 DEF GearTotals, w, k

LEMMA GivenFields ==
  ASSUME NEW s \in Wearers, NEW id \in Equip!Sources, NEW what \in WornTypes \cup Outfits
  PROVE  LET g == Equip!Given(s, id, what) IN
         /\ g \in Wearers
         /\ g.enabled = s.enabled /\ g.type = s.type /\ g.at = s.at
         /\ g.speed = s.speed + Speed[what]
         /\ g.shields = IF what \in Shield THEN s.shields \cup {id} ELSE s.shields
         /\ g.suppressed = (s.suppressed \/ what \in Suppress)
<1>1. Speed[what] \in Int
  BY EquipIsAssumed DEF Equip!EquipAssumption
<1>2. id \in Equip!SlotSet \cup {"outfit", "spell"}
  BY DEF Equip!Sources
<1> DEFINE g == Equip!Given(s, id, what)
<1>3. g.enabled = s.enabled /\ g.type = s.type /\ g.at = s.at
  BY DEF Equip!Given, Wearers
<1>4. g.speed = s.speed + Speed[what]
  BY DEF Equip!Given, Wearers
<1>5. g.shields = IF what \in Shield THEN s.shields \cup {id} ELSE s.shields
  BY DEF Equip!Given, Wearers
<1>6. g.suppressed = (s.suppressed \/ what \in Suppress)
  BY DEF Equip!Given, Wearers
<1>7. g \in Wearers
  <2> DEFINE sp == s.speed + Speed[what]
             sh == IF what \in Shield THEN s.shields \cup {id} ELSE s.shields
             su == (s.suppressed \/ what \in Suppress)
  <2>1. sp \in Int /\ sh \in SUBSET (Equip!SlotSet \cup {"outfit", "spell"})
    BY <1>1, <1>2 DEF Wearers
  <2>2. su \in BOOLEAN
    OBVIOUS
  <2>3. g = [s EXCEPT !.speed = sp, !.shields = sh, !.suppressed = su]
    BY DEF Equip!Given
  <2> HIDE DEF sp, sh, su, g
  <2> QED BY <2>1, <2>2, <2>3 DEF Wearers
<1> QED BY <1>3, <1>4, <1>5, <1>6, <1>7

LEMMA TakenFields ==
  ASSUME NEW s \in Wearers, NEW id \in Equip!Sources, NEW what \in WornTypes \cup Outfits
  PROVE  LET g == Equip!Taken(s, id, what) IN
         /\ g \in Wearers
         /\ g.enabled = s.enabled /\ g.type = s.type /\ g.at = s.at
         /\ g.speed = s.speed - Speed[what]
         /\ g.shields = IF what \in Shield THEN s.shields \ {id} ELSE s.shields
         /\ g.suppressed = (s.suppressed /\ what \notin Suppress)
<1>1. Speed[what] \in Int
  BY EquipIsAssumed DEF Equip!EquipAssumption
<1> DEFINE g == Equip!Taken(s, id, what)
<1>3. g.enabled = s.enabled /\ g.type = s.type /\ g.at = s.at
  BY DEF Equip!Taken, Wearers
<1>4. g.speed = s.speed - Speed[what]
  BY DEF Equip!Taken, Wearers
<1>5. g.shields = IF what \in Shield THEN s.shields \ {id} ELSE s.shields
  BY DEF Equip!Taken, Wearers
<1>6. g.suppressed = (s.suppressed /\ what \notin Suppress)
  BY DEF Equip!Taken, Wearers
<1>7. g \in Wearers
  <2> DEFINE sp == s.speed - Speed[what]
             sh == IF what \in Shield THEN s.shields \ {id} ELSE s.shields
             su == (s.suppressed /\ what \notin Suppress)
  <2>1. sp \in Int /\ sh \in SUBSET (Equip!SlotSet \cup {"outfit", "spell"})
    BY <1>1 DEF Wearers
  <2>2. su \in BOOLEAN
    OBVIOUS
  <2>3. g = [s EXCEPT !.speed = sp, !.shields = sh, !.suppressed = su]
    BY DEF Equip!Taken
  <2> HIDE DEF sp, sh, su, g
  <2> QED BY <2>1, <2>2, <2>3 DEF Wearers
<1> QED BY <1>3, <1>4, <1>5, <1>6, <1>7

(* Giving and taking keep the books.                                       *)
LEMMA GivenFits ==
  ASSUME NEW s \in Wearers, NEW v \in GearBooks, GearFits(s, v),
         NEW id \in Equip!Sources, NEW what \in WornTypes \cup Outfits, v[id] = None
  PROVE  /\ GearFits(Equip!Given(s, id, what), [v EXCEPT ![id] = what])
         /\ [v EXCEPT ![id] = what] \in GearBooks
<1> DEFINE g == Equip!Given(s, id, what)
           w == [v EXCEPT ![id] = what]
<1>1. /\ g.speed = s.speed + Speed[what]
      /\ g.shields = IF what \in Shield THEN s.shields \cup {id} ELSE s.shields
      /\ g.suppressed = (s.suppressed \/ what \in Suppress)
  BY GivenFields
<1>2. GearTotals(s.speed + WorthIn(what) - WorthIn(v[id]), w)
  <2>1. s.speed \in Int /\ what \in WornTypes \cup Outfits \cup {None}
    BY DEF Wearers
  <2>2. GearTotals(s.speed, v)
    BY DEF GearFits
  <2> QED BY <2>1, <2>2, TotalChanges
<1>3. WorthIn(what) = Speed[what] /\ WorthIn(v[id]) = 0 /\ Speed[what] \in Int
      /\ None \notin Shield \cup Suppress
  BY EquipIsAssumed DEF Equip!EquipAssumption, WorthIn
<1>4. w \in GearBooks /\ (\A x \in Equip!Sources : x # id => w[x] = v[x]) /\ w[id] = what
  BY DEF GearBooks
<1>5. s.shields \ {"spell"} = ShieldsOf(v) /\ (s.suppressed => Suppresses(v)) /\ id # "spell"
  BY SlotFacts DEF GearFits
<1> HIDE DEF g, w
<1>6. GearTotals(g.speed, w)
  <2>1. s.speed + WorthIn(what) - WorthIn(v[id]) = g.speed
    BY <1>1, <1>3 DEF Wearers
  <2> QED BY <1>2, <2>1
<1>7. g.shields \ {"spell"} = ShieldsOf(w)
  <2>1. ShieldsOf(w) = IF what \in Shield THEN ShieldsOf(v) \cup {id} ELSE ShieldsOf(v)
    BY <1>3, <1>4 DEF ShieldsOf
  <2> QED BY <1>1, <1>5, <2>1
<1>8. g.suppressed => Suppresses(w)
  BY <1>1, <1>3, <1>4, <1>5 DEF Suppresses
<1> QED BY <1>4, <1>6, <1>7, <1>8 DEF GearFits, g, w

LEMMA TakenFits ==
  ASSUME NEW s \in Wearers, NEW v \in GearBooks, GearFits(s, v),
         NEW id \in Equip!Sources, v[id] # None
  PROVE  /\ GearFits(Equip!Taken(s, id, v[id]), [v EXCEPT ![id] = None])
         /\ [v EXCEPT ![id] = None] \in GearBooks
<1> DEFINE g == Equip!Taken(s, id, v[id])
           w == [v EXCEPT ![id] = None]
<1>0. v[id] \in WornTypes \cup Outfits
  BY DEF GearBooks
<1>1. /\ g.speed = s.speed - Speed[v[id]]
      /\ g.shields = IF v[id] \in Shield THEN s.shields \ {id} ELSE s.shields
      /\ g.suppressed = (s.suppressed /\ v[id] \notin Suppress)
  BY <1>0, TakenFields
<1>2. GearTotals(s.speed + WorthIn(None) - WorthIn(v[id]), w)
  <2>1. s.speed \in Int /\ None \in WornTypes \cup Outfits \cup {None}
    BY DEF Wearers
  <2>2. GearTotals(s.speed, v)
    BY DEF GearFits
  <2> QED BY <2>1, <2>2, TotalChanges
<1>3. WorthIn(None) = 0 /\ WorthIn(v[id]) = Speed[v[id]] /\ Speed[v[id]] \in Int
      /\ None \notin Shield \cup Suppress
  BY <1>0, EquipIsAssumed DEF Equip!EquipAssumption, WorthIn
<1>4. w \in GearBooks /\ (\A x \in Equip!Sources : x # id => w[x] = v[x]) /\ w[id] = None
  BY DEF GearBooks
<1>5. s.shields \ {"spell"} = ShieldsOf(v) /\ (s.suppressed => Suppresses(v)) /\ id # "spell"
  BY SlotFacts DEF GearFits
<1> HIDE DEF g, w
<1>6. GearTotals(g.speed, w)
  <2>1. s.speed + WorthIn(None) - WorthIn(v[id]) = g.speed
    BY <1>1, <1>3 DEF Wearers
  <2> QED BY <1>2, <2>1
<1>7. g.shields \ {"spell"} = ShieldsOf(w)
  <2>1. ShieldsOf(w) = IF v[id] \in Shield THEN ShieldsOf(v) \ {id} ELSE ShieldsOf(v)
    BY <1>3, <1>4 DEF ShieldsOf
  <2> QED BY <1>1, <1>5, <2>1
<1>8. g.suppressed => Suppresses(w)
  BY <1>1, <1>3, <1>4, <1>5 DEF Suppresses
<1> QED BY <1>4, <1>6, <1>7, <1>8 DEF GearFits, g, w

(* What is given by a type without abilities.                              *)
LEMMA NothingGiven ==
  ASSUME NEW s \in Wearers, NEW v \in GearBooks, GearFits(s, v),
         NEW id \in Equip!Sources, NEW what \in WornTypes, EquipTo[what] # None
  PROVE  GearFits(Equip!Given(s, id, what), v)
<1> DEFINE g == Equip!Given(s, id, what)
<1>1. /\ g.speed = s.speed + Speed[what]
      /\ g.shields = IF what \in Shield THEN s.shields \cup {id} ELSE s.shields
      /\ g.suppressed = (s.suppressed \/ what \in Suppress)
  BY GivenFields
<1>2. Speed[what] = 0 /\ what \notin Shield \cup Suppress
  BY EquipIsAssumed DEF Equip!EquipAssumption
<1>3. s.suppressed \in BOOLEAN /\ s.speed \in Int
  BY DEF Wearers
<1> HIDE DEF g
<1>4. g.speed = s.speed /\ g.shields = s.shields
  BY <1>1, <1>2, <1>3
<1>5. g.suppressed = s.suppressed
  BY <1>1, <1>2, <1>3
<1> QED BY <1>4, <1>5 DEF GearFits, g

(* A change of an item that gives nothing, where it is.                    *)
LEMMA TypeSet ==
  ASSUME NEW s, NEW v, NEW hole, Agree(s, v, hole), NEW i \in WornItems, NEW to \in WornTypes,
         s.at[i] \in Equip!SlotSet => s.at[i] = hole \/ ~s.enabled[s.at[i]]
  PROVE  LET r == [s EXCEPT !.type[i] = to] IN
         /\ Agree(r, v, hole)
         /\ r.at = s.at /\ r.enabled = s.enabled /\ r.type = [s.type EXCEPT ![i] = to]
<1> DEFINE r == [s EXCEPT !.type[i] = to]
<1>1. s \in Wearers /\ v \in GearBooks /\ GearFits(s, v) /\ LinkedBut(s, v, hole)
  BY DEF Agree
<1>2. r.at = s.at /\ r.enabled = s.enabled /\ r.type = [s.type EXCEPT ![i] = to]
  BY <1>1 DEF Wearers
<1>3. r.speed = s.speed /\ r.shields = s.shields /\ r.suppressed = s.suppressed
  BY <1>1 DEF Wearers
<1>4. r \in Wearers
  <2> DEFINE ty == [s.type EXCEPT ![i] = to]
  <2>1. ty \in [WornItems -> WornTypes]
    BY <1>1 DEF Wearers
  <2>2. r = [s EXCEPT !.type = ty]
    BY <1>1 DEF Wearers
  <2> HIDE DEF ty, r
  <2> QED BY <1>1, <2>1, <2>2 DEF Wearers
<1> HIDE DEF r
<1>5. GearFits(r, v)
  BY <1>1, <1>3 DEF GearFits
<1>6. OnePerSlot(r)
  BY <1>1, <1>2 DEF OnePerSlot, LinkedBut
<1>7. ASSUME NEW n \in Equip!SlotSet \ {hole} PROVE BookedAt(r, v, n)
  <2>1. BookedAt(s, v, n)
    BY <1>1 DEF LinkedBut
  <2>2. CASE s.enabled[n]
    <3>1. PICK j \in WornItems : s.at[j] = n /\ v[n] = s.type[j]
      BY <2>1, <2>2 DEF BookedAt
    <3>2. j # i
      BY <2>2, <3>1
    <3>3. r.type[j] = s.type[j]
      BY <1>1, <1>2, <3>2 DEF Wearers
    <3> QED BY <1>2, <2>2, <3>1, <3>3 DEF BookedAt
  <2>3. CASE ~s.enabled[n]
    BY <1>2, <2>1, <2>3 DEF BookedAt
  <2> QED BY <2>2, <2>3
<1> QED BY <1>1, <1>2, <1>4, <1>5, <1>6, <1>7 DEF Agree, LinkedBut, r

(* A wearer that differs in one slot.                                      *)
Beyond(s, v, r, w, slot) ==
  /\ r.at = s.at
  /\ \A x \in Equip!SlotSet \ {slot} : r.enabled[x] = s.enabled[x]
  /\ \A x \in Equip!Sources \ {slot} : w[x] = v[x]

EquipsTo(s, v, hole, slot, r) == \E w : Agree(r, w, hole) /\ Beyond(s, v, r, w, slot)

LEMMA EquipNothing ==
  ASSUME NEW s, NEW v, NEW hole, Agree(s, v, hole), NEW slot
  PROVE  EquipsTo(s, v, hole, slot, s)
BY DEF EquipsTo, Beyond

LEMMA EquipEnables ==
  ASSUME NEW s, NEW v, NEW hole, Agree(s, v, hole), NEW slot \in Equip!SlotSet \ {hole},
         NEW i \in WornItems, s.at[i] = slot, ~s.enabled[slot]
  PROVE  EquipsTo(s, v, hole, slot, Equip!Given([s EXCEPT !.enabled[slot] = TRUE], slot, s.type[i]))
<1> DEFINE what == s.type[i]
           t == [s EXCEPT !.enabled[slot] = TRUE]
           r == Equip!Given(t, slot, what)
           w == [v EXCEPT ![slot] = what]
<1>1. s \in Wearers /\ v \in GearBooks /\ GearFits(s, v) /\ LinkedBut(s, v, hole)
  BY DEF Agree
<1>2. /\ t.at = s.at /\ t.enabled = [s.enabled EXCEPT ![slot] = TRUE] /\ t.type = s.type
      /\ t.speed = s.speed /\ t.shields = s.shields /\ t.suppressed = s.suppressed
  BY <1>1 DEF Wearers
<1>3. t \in Wearers
  <2> DEFINE en == [s.enabled EXCEPT ![slot] = TRUE]
  <2>1. en \in [Equip!SlotSet -> BOOLEAN]
    BY <1>1 DEF Wearers
  <2>2. t = [s EXCEPT !.enabled = en]
    BY <1>1 DEF Wearers
  <2> HIDE DEF en, t
  <2> QED BY <1>1, <2>1, <2>2 DEF Wearers
<1>4. what \in WornTypes \cup Outfits /\ slot \in Equip!Sources
  BY <1>1 DEF Wearers, Equip!Sources
<1>5. v[slot] = None
  BY <1>1 DEF LinkedBut, BookedAt
<1> HIDE DEF t, what
<1>6. GearFits(t, v)
  BY <1>1, <1>2 DEF GearFits
<1>7. GearFits(r, w) /\ w \in GearBooks
  BY <1>1, <1>3, <1>4, <1>5, <1>6, GivenFits
<1>8. r \in Wearers /\ r.enabled = t.enabled /\ r.type = s.type /\ r.at = s.at
  <2>1. r \in Wearers /\ r.enabled = t.enabled /\ r.type = t.type /\ r.at = t.at
    BY <1>3, <1>4, GivenFields
  <2> QED BY <1>2, <2>1
<1>9. (\A x \in Equip!Sources \ {slot} : w[x] = v[x]) /\ w[slot] = what
  BY <1>1, <1>4 DEF GearBooks
<1> HIDE DEF r, w
<1>10. /\ \A x \in Equip!SlotSet \ {slot} : r.enabled[x] = s.enabled[x]
       /\ r.enabled[slot] = TRUE
  BY <1>1, <1>2, <1>8 DEF Wearers
<1>11. OnePerSlot(r)
  BY <1>1, <1>8 DEF LinkedBut, OnePerSlot
<1>12. ASSUME NEW n \in Equip!SlotSet \ {hole} PROVE BookedAt(r, w, n)
  <2>1. CASE n = slot
    <3>1. r.at[i] = n /\ w[n] = r.type[i] /\ r.enabled[n]
      BY <1>8, <1>9, <1>10, <2>1 DEF what
    <3> QED BY <3>1 DEF BookedAt
  <2>2. CASE n # slot
    <3>1. BookedAt(s, v, n)
      BY <1>1 DEF LinkedBut
    <3>2. r.enabled[n] = s.enabled[n] /\ w[n] = v[n]
      BY <1>9, <1>10, <2>2 DEF Equip!Sources
    <3> QED BY <1>8, <3>1, <3>2 DEF BookedAt
  <2> QED BY <2>1, <2>2
<1>13. Agree(r, w, hole)
  BY <1>7, <1>8, <1>11, <1>12 DEF Agree, LinkedBut
<1>14. Beyond(s, v, r, w, slot)
  BY <1>8, <1>9, <1>10 DEF Beyond
<1> QED BY <1>13, <1>14 DEF EquipsTo, r, t, what

(* Putting an item on keeps the books, whether it changes or not.          *)
LEMMA EquipPlainKeeps ==
  ASSUME NEW s, NEW v, NEW hole, Agree(s, v, hole), NEW slot \in Equip!SlotSet \ {hole},
         NEW i \in WornItems, s.at[i] = slot, NEW able
  PROVE  EquipsTo(s, v, hole, slot, Equip!EquipPlain(s, slot, i, able))
<1>1. CASE s.enabled[slot] \/ s.type[i] \notin able
  BY <1>1, EquipNothing DEF Equip!EquipPlain
<1>2. CASE ~(s.enabled[slot] \/ s.type[i] \notin able)
  BY <1>2, EquipEnables DEF Equip!EquipPlain
<1> QED BY <1>1, <1>2

LEMMA EquipItemKeeps ==
  ASSUME NEW s, NEW v, NEW hole, Agree(s, v, hole), NEW slot \in Equip!SlotSet \ {hole},
         NEW i \in WornItems, s.at[i] = slot, NEW able
  PROVE  EquipsTo(s, v, hole, slot, Equip!EquipItem(s, slot, i, able))
<1> DEFINE to == EquipTo[s.type[i]]
<1>0. s \in Wearers
  BY DEF Agree
<1>1. CASE s.enabled[slot] \/ s.type[i] \notin able
  BY <1>1, EquipNothing DEF Equip!EquipItem
<1>2. CASE ~(s.enabled[slot] \/ s.type[i] \notin able) /\ to = None
  BY <1>2, EquipPlainKeeps DEF Equip!EquipItem
<1>3. CASE ~(s.enabled[slot] \/ s.type[i] \notin able) /\ to # None
  <2> DEFINE what == s.type[i]
             t == [s EXCEPT !.type[i] = to]
             p == Equip!EquipPlain(t, slot, i, able)
             r == Equip!Given(p, slot, what)
  <2>1. what \in WornTypes /\ what \in WornTypes \cup Outfits /\ to \in WornTypes
    BY <1>0, <1>3, EquipIsAssumed DEF Equip!EquipAssumption, Wearers
  <2>2. Agree(t, v, hole) /\ t.at = s.at /\ t.enabled = s.enabled
    BY <1>3, <2>1, TypeSet
  <2>3. EquipsTo(t, v, hole, slot, p)
    <3> HIDE DEF t
    <3> QED BY <2>2, EquipPlainKeeps
  <2>4. Equip!EquipItem(s, slot, i, able) = r
    BY <1>3 DEF Equip!EquipItem
  <2>5. EquipTo[what] # None /\ slot \in Equip!Sources
    BY <1>3 DEF Equip!Sources
  <2> HIDE DEF p, t, what, to
  <2>6. PICK w : Agree(p, w, hole) /\ Beyond(t, v, p, w, slot)
    BY <2>3 DEF EquipsTo
  <2>7. p \in Wearers /\ w \in GearBooks /\ GearFits(p, w) /\ LinkedBut(p, w, hole)
    BY <2>6 DEF Agree
  <2>8. GearFits(r, w)
    BY <2>1, <2>5, <2>7, NothingGiven
  <2>9. r \in Wearers /\ r.enabled = p.enabled /\ r.type = p.type /\ r.at = p.at
    <3>1. p \in Wearers /\ slot \in Equip!Sources /\ what \in WornTypes \cup Outfits
      BY <2>1, <2>5, <2>7
    <3> QED BY <3>1, GivenFields
  <2> HIDE DEF r
  <2>10. LinkedBut(r, w, hole)
    BY <2>7, <2>9 DEF LinkedBut, OnePerSlot, BookedAt
  <2>11. Beyond(s, v, r, w, slot)
    BY <2>2, <2>6, <2>9 DEF Beyond
  <2> QED BY <2>4, <2>7, <2>8, <2>9, <2>10, <2>11 DEF EquipsTo, Agree
<1> QED BY <1>1, <1>2, <1>3

(* What a change of items leads to: the outfit keeps its entry.            *)
LeadsTo(v, r, places) ==
  \E w : Agree(r, w, "outfit") /\ w["outfit"] = v["outfit"] /\ r.at = places

(* Taking an item off, that is there still or on its way to another place, *)
(* takes what it gave.                                                     *)
LEMMA DeEquipKeeps ==
  ASSUME NEW slot \in Equip!SlotSet, NEW s, NEW v, Agree(s, v, slot), NEW i \in WornItems,
         NEW able, NEW isRemoval \in BOOLEAN,
         v[slot] = IF s.enabled[slot] THEN s.type[i] ELSE None,
         isRemoval => s.at[i] # slot /\ (s.at[i] \in Equip!SlotSet => ~s.enabled[s.at[i]])
  PROVE  /\ LeadsTo(v, Equip!DeEquipItem(s, slot, i, isRemoval, able), s.at)
         /\ ~Equip!DeEquipItem(s, slot, i, isRemoval, able).enabled[slot]
<1> DEFINE was == s.type[i]
           off == [s EXCEPT !.enabled[slot] = FALSE]
           changes == isRemoval /\ DeEquipTo[was] # None /\ s.at[i] # "gone"
           changed == [off EXCEPT !.type[i] = DeEquipTo[was]]
           x == IF ~changes THEN off
                ELSE IF s.at[i] \in Equip!SlotSet THEN Equip!EquipItem(changed, s.at[i], i, able)
                ELSE changed
           r == Equip!Taken(x, slot, was)
<1>1. s \in Wearers /\ v \in GearBooks /\ GearFits(s, v) /\ LinkedBut(s, v, slot)
  BY DEF Agree
<1>2. slot \in Equip!Sources /\ "outfit" \in Equip!Sources \ {slot} /\ "outfit" # slot
  BY SlotFacts DEF Equip!Sources
<1>3. CASE ~s.enabled[slot]
  <2>1. \A n \in Equip!SlotSet : BookedAt(s, v, n)
    BY <1>1, <1>3 DEF LinkedBut, BookedAt
  <2>2. Agree(s, v, "outfit")
    BY <1>1, <2>1 DEF Agree, LinkedBut
  <2> QED BY <1>3, <2>2 DEF Equip!DeEquipItem, LeadsTo
<1>4. CASE s.enabled[slot]
  <2>1. /\ off.at = s.at /\ off.enabled = [s.enabled EXCEPT ![slot] = FALSE] /\ off.type = s.type
        /\ off.speed = s.speed /\ off.shields = s.shields /\ off.suppressed = s.suppressed
    BY <1>1 DEF Wearers
  <2>2. off \in Wearers
    <3> DEFINE en == [s.enabled EXCEPT ![slot] = FALSE]
    <3>1. en \in [Equip!SlotSet -> BOOLEAN]
      BY <1>1 DEF Wearers
    <3>2. off = [s EXCEPT !.enabled = en]
      BY <1>1 DEF Wearers
    <3> HIDE DEF en, off
    <3> QED BY <1>1, <3>1, <3>2 DEF Wearers
  <2>3. Equip!DeEquipItem(s, slot, i, isRemoval, able) = r
    BY <1>4 DEF Equip!DeEquipItem
  <2>4. was \in WornTypes /\ v[slot] = was /\ was # None
    BY <1>1, <1>4, EquipIsAssumed DEF Wearers, Equip!EquipAssumption
  <2>5. changes => DeEquipTo[was] \in WornTypes
    BY <2>4, EquipIsAssumed DEF Equip!EquipAssumption
  <2> HIDE DEF off
  <2>6. GearFits(off, v)
    BY <1>1, <2>1 DEF GearFits
  <2>7. /\ \A n \in Equip!SlotSet \ {slot} : off.enabled[n] = s.enabled[n]
        /\ off.enabled[slot] = FALSE
    BY <1>1, <2>1 DEF Wearers
  <2>8. LinkedBut(off, v, slot)
    BY <1>1, <2>1, <2>7 DEF LinkedBut, OnePerSlot, BookedAt
  <2>9. Agree(off, v, slot)
    BY <1>1, <2>2, <2>6, <2>8 DEF Agree
  <2>10. changes => Agree(changed, v, slot) /\ changed.at = s.at /\ changed.enabled = off.enabled
    <3> SUFFICES ASSUME changes
                 PROVE  Agree(changed, v, slot) /\ changed.at = s.at /\ changed.enabled = off.enabled
      OBVIOUS
    <3>1. off.at[i] \in Equip!SlotSet => off.at[i] = slot \/ ~off.enabled[off.at[i]]
      BY <2>1, <2>7
    <3> DEFINE new == DeEquipTo[was]
    <3>2. new \in WornTypes
      BY <2>5
    <3>3. changed = [off EXCEPT !.type[i] = new]
      OBVIOUS
    <3> HIDE DEF new, changed, changes
    <3> DEFINE made == [off EXCEPT !.type[i] = new]
    <3>4. Agree(made, v, slot) /\ made.at = off.at /\ made.enabled = off.enabled
      BY <2>9, <3>1, <3>2, TypeSet
    <3> HIDE DEF made
    <3> QED BY <2>1, <3>3, <3>4 DEF made
  <2>11. \E w : Agree(x, w, slot) /\ x.at = s.at /\ ~x.enabled[slot]
                /\ w[slot] = was /\ w["outfit"] = v["outfit"]
    <3>1. CASE ~changes
      BY <2>1, <2>4, <2>7, <2>9, <3>1
    <3>2. CASE changes /\ s.at[i] \notin Equip!SlotSet
      BY <2>4, <2>7, <2>10, <3>2
    <3>3. CASE changes /\ s.at[i] \in Equip!SlotSet
      <4>1. x = Equip!EquipItem(changed, s.at[i], i, able)
        BY <3>3
      <4>2. s.at[i] \in Equip!SlotSet \ {slot} /\ changed.at[i] = s.at[i]
        BY <2>10, <3>3
      <4> HIDE DEF changed, x, changes
      <4>3. EquipsTo(changed, v, slot, s.at[i], x)
        BY <2>10, <3>3, <4>1, <4>2, EquipItemKeeps
      <4>4. PICK w : Agree(x, w, slot) /\ Beyond(changed, v, x, w, s.at[i])
        BY <4>3 DEF EquipsTo
      <4>5. x.at = s.at /\ x.enabled[slot] = changed.enabled[slot]
            /\ w[slot] = v[slot] /\ w["outfit"] = v["outfit"]
        BY <1>2, <2>10, <3>3, <4>2, <4>4, SlotFacts DEF Beyond
      <4> QED BY <2>4, <2>7, <2>10, <3>3, <4>4, <4>5
    <3> QED BY <3>1, <3>2, <3>3
  <2> HIDE DEF x, was
  <2>12. PICK w : Agree(x, w, slot) /\ x.at = s.at /\ ~x.enabled[slot]
                /\ w[slot] = was /\ w["outfit"] = v["outfit"]
    BY <2>11
  <2>13. x \in Wearers /\ w \in GearBooks /\ GearFits(x, w) /\ LinkedBut(x, w, slot)
    BY <2>12 DEF Agree
  <2> DEFINE u == [w EXCEPT ![slot] = None]
  <2>14. GearFits(Equip!Taken(x, slot, w[slot]), u) /\ u \in GearBooks
    BY <1>2, <2>4, <2>12, <2>13, TakenFits
  <2>15. GearFits(r, u)
    BY <2>12, <2>14
  <2>16. r \in Wearers /\ r.enabled = x.enabled /\ r.type = x.type /\ r.at = x.at
    <3>1. was \in WornTypes \cup Outfits
      BY <2>4
    <3> QED BY <1>2, <2>13, <3>1, TakenFields
  <2>17. u[slot] = None /\ \A n \in Equip!Sources \ {slot} : u[n] = w[n]
    BY <1>2, <2>13 DEF GearBooks
  <2> HIDE DEF r, u
  <2>18. ASSUME NEW n \in Equip!SlotSet PROVE BookedAt(r, u, n)
    <3>1. CASE n = slot
      BY <2>12, <2>16, <2>17, <3>1 DEF BookedAt
    <3>2. CASE n # slot
      <4>1. BookedAt(x, w, n) /\ u[n] = w[n]
        BY <2>13, <2>17, <3>2 DEF LinkedBut, Equip!Sources
      <4> QED BY <2>16, <4>1 DEF BookedAt
    <3> QED BY <3>1, <3>2
  <2>19. OnePerSlot(r)
    BY <2>13, <2>16 DEF LinkedBut, OnePerSlot
  <2>20. Agree(r, u, "outfit")
    BY <2>14, <2>15, <2>16, <2>18, <2>19 DEF Agree, LinkedBut
  <2>21. u["outfit"] = v["outfit"] /\ r.at = s.at /\ ~r.enabled[slot]
    BY <1>2, <2>12, <2>16, <2>17
  <2> QED BY <2>3, <2>20, <2>21 DEF LeadsTo
<1> QED BY <1>3, <1>4

LEMMA TransformedKeeps ==
  ASSUME NEW s, NEW v, Agree(s, v, "outfit"), NEW i \in WornItems, NEW to \in WornTypes, NEW able
  PROVE  LeadsTo(v, Equip!Transformed(s, i, to, able), s.at)
<1>1. s \in Wearers /\ v \in GearBooks /\ GearFits(s, v) /\ LinkedBut(s, v, "outfit")
  BY DEF Agree
<1>2. CASE s.at[i] \notin Equip!SlotSet
  BY <1>2, TypeSet DEF Equip!Transformed, LeadsTo
<1>3. CASE s.at[i] \in Equip!SlotSet
  <2> DEFINE slot == s.at[i]
             d == Equip!DeEquipItem(s, slot, i, FALSE, able)
             t == [d EXCEPT !.type[i] = to]
             r == Equip!EquipItem(t, slot, i, able)
  <2>1. Equip!Transformed(s, i, to, able) = r
    BY <1>3 DEF Equip!Transformed
  <2>2. slot \in Equip!SlotSet \ {"outfit"} /\ s.at[i] = slot
    BY <1>3, SlotFacts
  <2> HIDE DEF slot
  <2>3. Agree(s, v, slot)
    BY <1>1, <2>2, SlotFacts DEF Agree, LinkedBut
  <2>4. v[slot] = IF s.enabled[slot] THEN s.type[i] ELSE None
    <3>1. BookedAt(s, v, slot) /\ OnePerSlot(s)
      BY <1>1, <2>2 DEF LinkedBut
    <3> QED BY <2>2, <3>1 DEF BookedAt, OnePerSlot
  <2>5. LeadsTo(v, d, s.at) /\ ~d.enabled[slot]
    BY <2>2, <2>3, <2>4, DeEquipKeeps
  <2> HIDE DEF d
  <2>6. PICK w : Agree(d, w, "outfit") /\ w["outfit"] = v["outfit"] /\ d.at = s.at
    BY <2>5 DEF LeadsTo
  <2>7. Agree(t, w, "outfit") /\ t.at = d.at
    BY <2>2, <2>5, <2>6, TypeSet
  <2> HIDE DEF t
  <2>8. EquipsTo(t, w, "outfit", slot, r)
    BY <2>2, <2>6, <2>7, EquipItemKeeps
  <2> HIDE DEF r
  <2>9. PICK u : Agree(r, u, "outfit") /\ Beyond(t, w, r, u, slot)
    BY <2>8 DEF EquipsTo
  <2>10. u["outfit"] = v["outfit"] /\ r.at = s.at
    BY <2>2, <2>6, <2>7, <2>9 DEF Beyond, Equip!Sources
  <2> QED BY <2>1, <2>9, <2>10 DEF LeadsTo
<1> QED BY <1>2, <1>3

LEMMA ItemMovedKeeps ==
  ASSUME NEW s, NEW v, Agree(s, v, "outfit"), NEW i \in WornItems, NEW able,
         NEW to \in Equip!SlotSet \cup {"away", "gone"}, s.at[i] # to,
         to \in Equip!SlotSet => \A j \in WornItems : s.at[j] # to
  PROVE  LeadsTo(v, Equip!MovedTo(s, i, to, able), [s.at EXCEPT ![i] = to])
<1> DEFINE places == [s.at EXCEPT ![i] = to]
           moved == [s EXCEPT !.at[i] = to]
           left == IF s.at[i] \in Equip!SlotSet THEN Equip!DeEquipItem(moved, s.at[i], i, TRUE, able)
                   ELSE moved
           r == IF to \in Equip!SlotSet THEN Equip!EquipItem(left, to, i, able) ELSE left
<1>1. s \in Wearers /\ v \in GearBooks /\ GearFits(s, v) /\ LinkedBut(s, v, "outfit")
  BY DEF Agree
<1>2. /\ moved.at = places /\ moved.enabled = s.enabled /\ moved.type = s.type
      /\ moved.speed = s.speed /\ moved.shields = s.shields /\ moved.suppressed = s.suppressed
  BY <1>1 DEF Wearers
<1>3. places \in [WornItems -> Equip!SlotSet \cup {"away", "gone"}]
  BY <1>1 DEF Wearers
<1>4. moved = [s EXCEPT !.at = places]
  BY <1>1 DEF Wearers
<1>5. places[i] = to /\ \A j \in WornItems : j # i => places[j] = s.at[j]
  BY <1>1 DEF Wearers
<1>6. Equip!MovedTo(s, i, to, able) = r
  BY DEF Equip!MovedTo
<1> HIDE DEF places, moved
<1>7. moved \in Wearers
  BY <1>1, <1>3, <1>4 DEF Wearers
<1>8. GearFits(moved, v)
  BY <1>1, <1>2 DEF GearFits
<1>9. \A n \in Equip!SlotSet : BookedAt(s, v, n)
  BY <1>1, SlotFacts DEF LinkedBut
<1>10. to \in Equip!SlotSet => ~s.enabled[to]
  BY <1>9 DEF BookedAt
<1>11. OnePerSlot(moved)
  BY <1>1, <1>2, <1>5 DEF LinkedBut, OnePerSlot
<1>12. ASSUME NEW n \in Equip!SlotSet, n # s.at[i] PROVE BookedAt(moved, v, n)
  <2>1. BookedAt(s, v, n)
    BY <1>9
  <2>2. CASE s.enabled[n]
    <3>1. PICK j \in WornItems : s.at[j] = n /\ v[n] = s.type[j]
      BY <2>1, <2>2 DEF BookedAt
    <3>2. moved.at[j] = n /\ moved.type[j] = s.type[j] /\ moved.enabled[n]
      BY <1>2, <1>5, <1>12, <2>2, <3>1
    <3> QED BY <3>1, <3>2 DEF BookedAt
  <2>3. CASE ~s.enabled[n]
    BY <1>2, <2>1, <2>3 DEF BookedAt
  <2> QED BY <2>2, <2>3
<1>13. LeadsTo(v, left, places)
  <2>1. CASE s.at[i] \notin Equip!SlotSet
    <3>1. Agree(moved, v, "outfit")
      BY <1>1, <1>7, <1>8, <1>11, <1>12, <2>1 DEF Agree, LinkedBut
    <3> QED BY <1>2, <2>1, <3>1 DEF LeadsTo
  <2>2. CASE s.at[i] \in Equip!SlotSet
    <3> DEFINE slot == s.at[i]
    <3>1. slot \in Equip!SlotSet /\ slot = s.at[i] /\ slot # to
      BY <2>2
    <3>2. left = Equip!DeEquipItem(moved, slot, i, TRUE, able)
      BY <2>2
    <3> HIDE DEF slot
    <3>3. Agree(moved, v, slot)
      BY <1>1, <1>7, <1>8, <1>11, <1>12, <3>1 DEF Agree, LinkedBut
    <3>4. v[slot] = IF moved.enabled[slot] THEN moved.type[i] ELSE None
      <4>1. BookedAt(s, v, slot) /\ OnePerSlot(s)
        BY <1>1, <1>9, <3>1 DEF LinkedBut
      <4> QED BY <1>2, <3>1, <4>1 DEF BookedAt, OnePerSlot
    <3>5. moved.at[i] # slot /\ (moved.at[i] \in Equip!SlotSet => ~moved.enabled[moved.at[i]])
      BY <1>2, <1>5, <1>10, <3>1
    <3>6. LeadsTo(v, Equip!DeEquipItem(moved, slot, i, TRUE, able), moved.at)
      BY <3>1, <3>3, <3>4, <3>5, DeEquipKeeps
    <3> QED BY <1>2, <3>2, <3>6
  <2> QED BY <2>1, <2>2
<1> HIDE DEF left
<1>14. PICK w : Agree(left, w, "outfit") /\ w["outfit"] = v["outfit"] /\ left.at = places
  BY <1>13 DEF LeadsTo
<1>15. CASE to \notin Equip!SlotSet
  BY <1>6, <1>14, <1>15 DEF LeadsTo, places
<1>16. CASE to \in Equip!SlotSet
  <2>1. to \in Equip!SlotSet \ {"outfit"} /\ left.at[i] = to /\ r = Equip!EquipItem(left, to, i, able)
    BY <1>5, <1>14, <1>16, SlotFacts
  <2>2. EquipsTo(left, w, "outfit", to, r)
    BY <1>14, <2>1, EquipItemKeeps
  <2> HIDE DEF r
  <2>3. PICK u : Agree(r, u, "outfit") /\ Beyond(left, w, r, u, to)
    BY <2>2 DEF EquipsTo
  <2>4. u["outfit"] = v["outfit"] /\ r.at = places
    BY <1>14, <2>1, <2>3 DEF Beyond, Equip!Sources
  <2> QED BY <1>6, <2>3, <2>4 DEF LeadsTo, places
<1> QED BY <1>15, <1>16
-----------------------------------------------------------------------------
(* The books agree with what is worn, and with the outfit.                 *)
EquipInv ==
  /\ Equip!TypeOK
  /\ \E v : Agree(Equip!Now, v, "outfit") /\ v["outfit"] = IF x8 THEN x7 ELSE None

LEMMA NowIsWearer ==
  ASSUME Equip!TypeOK
  PROVE  Equip!Now \in Wearers
BY DEF Equip!TypeOK, Equip!Now, Wearers

LEMMA GearBecomeKeeps ==
  ASSUME NEW r, Equip!Become(r), NEW w, Agree(r, w, "outfit"), x7' \in Outfits,
         x8' \in BOOLEAN, w["outfit"] = IF x8' THEN x7' ELSE None
  PROVE  EquipInv'
<1>1. r \in Wearers
  BY DEF Agree
<1>2. r = [type |-> r.type, at |-> r.at, enabled |-> r.enabled, speed |-> r.speed,
           shields |-> r.shields, suppressed |-> r.suppressed]
  BY <1>1 DEF Wearers
<1>3. Equip!Now' = r
  BY <1>2 DEF Equip!Become, Equip!Now
<1>4. Equip!TypeOK'
  BY <1>1 DEF Equip!Become, Equip!TypeOK, Wearers
<1> QED BY <1>3, <1>4 DEF EquipInv

LEMMA NothingFits ==
  ASSUME NEW s \in Wearers, OnePerSlot(s), s.speed = 0, s.shields \subseteq {"spell"}, ~s.suppressed,
         \A n \in Equip!SlotSet : ~s.enabled[n]
  PROVE  Agree(s, [id \in Equip!Sources |-> None], "outfit")
<1> DEFINE v == [id \in Equip!Sources |-> None]
           k == Len(Slots)
           f == [n \in 0 .. k |-> 0]
<1>1. v \in GearBooks /\ \A id \in Equip!Sources : v[id] = None
  BY DEF GearBooks
<1>2. k \in Nat /\ (\A n \in 1 .. k : Slots[n] \in Equip!Sources) /\ "outfit" \in Equip!Sources
      /\ Equip!SlotSet \subseteq Equip!Sources
  BY SlotFacts DEF Equip!Sources
<1>3. WorthIn(None) = 0 /\ None \notin Shield \cup Suppress
  BY EquipIsAssumed DEF WorthIn, Equip!EquipAssumption
<1>4. f \in [0 .. k -> Int] /\ (\A n \in 0 .. k : f[n] = 0)
  OBVIOUS
<1> HIDE DEF v, k, f
<1>5. GearSums(f, v)
  <2>1. f[0] = WorthIn(v["outfit"])
    BY <1>1, <1>2, <1>3, <1>4
  <2>2. ASSUME NEW n \in 1 .. k PROVE f[n] = f[n - 1] + WorthIn(v[Slots[n]])
    <3>1. n \in 0 .. k /\ n - 1 \in 0 .. k
      BY <1>2
    <3>2. WorthIn(v[Slots[n]]) = 0
      BY <1>1, <1>2, <1>3
    <3> QED BY <1>4, <3>1, <3>2
  <2> QED BY <1>4, <2>1, <2>2 DEF GearSums, k
<1>6. GearTotals(s.speed, v)
  BY <1>2, <1>4, <1>5 DEF GearTotals, k
<1>7. ShieldsOf(v) = {}
  BY <1>1, <1>3 DEF ShieldsOf
<1>8. GearFits(s, v)
  BY <1>6, <1>7 DEF GearFits
<1>9. LinkedBut(s, v, "outfit")
  BY <1>1, <1>2 DEF LinkedBut, BookedAt
<1> QED BY <1>1, <1>8, <1>9 DEF Agree, v

LEMMA EquipInit == Equip!Init => EquipInv
<1> SUFFICES ASSUME Equip!Init PROVE EquipInv
  OBVIOUS
<1>1. Equip!TypeOK
  <2>1. x1 \in [WornItems -> WornTypes] /\ x2 \in [WornItems -> Equip!SlotSet \cup {"away", "gone"}]
    BY DEF Equip!Init
  <2>2. x3 \in [Equip!SlotSet -> BOOLEAN]
    BY DEF Equip!Init
  <2>3. x4 \in Int /\ x5 \subseteq Equip!SlotSet \cup {"outfit", "spell"} /\ x7 \in Outfits
    BY DEF Equip!Init
  <2>4. x6 \in BOOLEAN /\ x8 \in BOOLEAN
    BY DEF Equip!Init
  <2> QED BY <2>1, <2>2, <2>3, <2>4 DEF Equip!TypeOK
<1>2. Equip!Now \in Wearers
  BY <1>1, NowIsWearer
<1>3. OnePerSlot(Equip!Now)
  BY SlotFacts DEF Equip!Init, Equip!Now, OnePerSlot
<1>4. /\ Equip!Now.speed = 0 /\ Equip!Now.shields \subseteq {"spell"} /\ ~Equip!Now.suppressed
      /\ \A n \in Equip!SlotSet : ~Equip!Now.enabled[n]
  BY DEF Equip!Init, Equip!Now
<1>5. Agree(Equip!Now, [id \in Equip!Sources |-> None], "outfit")
  BY <1>2, <1>3, <1>4, NothingFits
<1>6. [id \in Equip!Sources |-> None]["outfit"] = IF x8 THEN x7 ELSE None
  BY DEF Equip!Init, Equip!Sources
<1> QED BY <1>1, <1>5, <1>6 DEF EquipInv

LEMMA LedTo ==
  ASSUME EquipInv, NEW v, v["outfit"] = IF x8 THEN x7 ELSE None,
         NEW r, NEW places, LeadsTo(v, r, places), Equip!Become(r), UNCHANGED <<x7, x8>>
  PROVE  EquipInv'
<1>1. PICK w : Agree(r, w, "outfit") /\ w["outfit"] = v["outfit"]
  BY DEF LeadsTo
<1>2. x7' \in Outfits /\ x8' \in BOOLEAN
  BY DEF EquipInv, Equip!TypeOK
<1>3. w["outfit"] = IF x8' THEN x7' ELSE None
  BY <1>1
<1> QED BY <1>1, <1>2, <1>3, GearBecomeKeeps

LEMMA MoveItemKeeps ==
  ASSUME EquipInv, NEW i \in WornItems, NEW to \in Equip!SlotSet \cup {"away", "gone"}, NEW able,
         Equip!MoveItem(i, to, able)
  PROVE  EquipInv'
<1>1. PICK v : Agree(Equip!Now, v, "outfit") /\ v["outfit"] = IF x8 THEN x7 ELSE None
  BY DEF EquipInv
<1>2. /\ to # x2[i] /\ (to \in Equip!SlotSet => Equip!In(to) = {})
      /\ Equip!Become(Equip!MovedTo(Equip!Now, i, to, able)) /\ UNCHANGED <<x7, x8>>
  BY DEF Equip!MoveItem
<1>3. Equip!Now.at = x2
  BY DEF Equip!Now
<1>4. to \in Equip!SlotSet => \A j \in WornItems : Equip!Now.at[j] # to
  BY <1>2, <1>3 DEF Equip!In
<1>5. LeadsTo(v, Equip!MovedTo(Equip!Now, i, to, able), [Equip!Now.at EXCEPT ![i] = to])
  BY <1>1, <1>2, <1>3, <1>4, ItemMovedKeeps
<1> QED BY <1>1, <1>2, <1>5, LedTo

LEMMA ExchangeKeeps ==
  ASSUME EquipInv, NEW i \in WornItems, NEW slot \in Equip!SlotSet, NEW able, Equip!Exchange(i, slot, able)
  PROVE  EquipInv'
<1>1. PICK v : Agree(Equip!Now, v, "outfit") /\ v["outfit"] = IF x8 THEN x7 ELSE None
  BY DEF EquipInv
<1>2. PICK j \in Equip!In(slot) :
        \/ Equip!Become(Equip!MovedTo(Equip!Now, j, "away", able))
        \/ Equip!Become(Equip!MovedTo(Equip!MovedTo(Equip!Now, j, "away", able), i, slot, able))
  BY DEF Equip!Exchange
<1>3. x2[i] = "away" /\ UNCHANGED <<x7, x8>>
  BY DEF Equip!Exchange
<1>4. Equip!Now.at = x2 /\ j \in WornItems /\ x2[j] = slot /\ slot # "away" /\ i # j
      /\ "away" \notin Equip!SlotSet
  BY <1>2, <1>3, SlotFacts DEF Equip!Now, Equip!In
<1> DEFINE given == Equip!MovedTo(Equip!Now, j, "away", able)
           places == [x2 EXCEPT ![j] = "away"]
<1>5. LeadsTo(v, given, [Equip!Now.at EXCEPT ![j] = "away"])
  BY <1>1, <1>4, ItemMovedKeeps
<1>6. LeadsTo(v, given, places)
  BY <1>4, <1>5
<1>7. Equip!Become(given) \/ Equip!Become(Equip!MovedTo(given, i, slot, able))
  BY <1>2
<1> HIDE DEF given
<1>8. PICK w : Agree(given, w, "outfit") /\ w["outfit"] = v["outfit"] /\ given.at = places
  BY <1>6 DEF LeadsTo
<1>9. OnePerSlot(Equip!Now) /\ x2 \in [WornItems -> Equip!SlotSet \cup {"away", "gone"}]
  BY <1>1 DEF Agree, LinkedBut, EquipInv, Equip!TypeOK
<1>10. \A l \in WornItems : given.at[l] # slot
  BY <1>4, <1>8, <1>9 DEF OnePerSlot
<1>11. LeadsTo(w, Equip!MovedTo(given, i, slot, able), [given.at EXCEPT ![i] = slot])
  BY <1>8, <1>10, ItemMovedKeeps
<1>12. LeadsTo(v, Equip!MovedTo(given, i, slot, able), [given.at EXCEPT ![i] = slot])
  BY <1>8, <1>11 DEF LeadsTo
<1> QED BY <1>1, <1>3, <1>6, <1>7, <1>12, LedTo

LEMMA TransformItemKeeps ==
  ASSUME EquipInv, NEW i \in WornItems, NEW to \in WornTypes, NEW able, Equip!TransformItem(i, to, able)
  PROVE  EquipInv'
<1>1. PICK v : Agree(Equip!Now, v, "outfit") /\ v["outfit"] = IF x8 THEN x7 ELSE None
  BY DEF EquipInv
<1>2. Equip!Become(Equip!Transformed(Equip!Now, i, to, able)) /\ UNCHANGED <<x7, x8>>
  BY DEF Equip!TransformItem
<1>3. LeadsTo(v, Equip!Transformed(Equip!Now, i, to, able), Equip!Now.at)
  BY <1>1, TransformedKeeps
<1> QED BY <1>1, <1>2, <1>3, LedTo

(* The abilities of the outfit, on top of the items'.                      *)
LEMMA OutfitGiven ==
  ASSUME NEW s, NEW v, Agree(s, v, "outfit"), v["outfit"] = None,
         NEW to \in Outfits, NEW addons \in BOOLEAN
  PROVE  \E w : /\ Agree(IF addons THEN Equip!Given(s, "outfit", to) ELSE s, w, "outfit")
                /\ w["outfit"] = IF addons THEN to ELSE None
<1> DEFINE r == Equip!Given(s, "outfit", to)
           w == [v EXCEPT !["outfit"] = to]
<1>1. s \in Wearers /\ v \in GearBooks /\ GearFits(s, v) /\ LinkedBut(s, v, "outfit")
  BY DEF Agree
<1>2. "outfit" \in Equip!Sources /\ to \in WornTypes \cup Outfits
      /\ Equip!SlotSet \subseteq Equip!Sources /\ "outfit" \notin Equip!SlotSet
  BY SlotFacts DEF Equip!Sources
<1>3. GearFits(r, w) /\ w \in GearBooks
  BY <1>1, <1>2, GivenFits
<1>4. r \in Wearers /\ r.enabled = s.enabled /\ r.type = s.type /\ r.at = s.at
  BY <1>1, <1>2, GivenFields
<1>5. w["outfit"] = to /\ \A n \in Equip!SlotSet : w[n] = v[n]
  BY <1>1, <1>2 DEF GearBooks
<1> HIDE DEF r, w
<1>6. LinkedBut(r, w, "outfit")
  BY <1>1, <1>2, <1>4, <1>5 DEF LinkedBut, OnePerSlot, BookedAt
<1>7. Agree(r, w, "outfit")
  BY <1>3, <1>4, <1>6 DEF Agree
<1> QED BY <1>5, <1>7 DEF r

LEMMA OutfitTaken ==
  ASSUME NEW s, NEW v, Agree(s, v, "outfit"), v["outfit"] \in Outfits
  PROVE  \E w : Agree(Equip!Taken(s, "outfit", v["outfit"]), w, "outfit") /\ w["outfit"] = None
<1> DEFINE r == Equip!Taken(s, "outfit", v["outfit"])
           w == [v EXCEPT !["outfit"] = None]
<1>1. s \in Wearers /\ v \in GearBooks /\ GearFits(s, v) /\ LinkedBut(s, v, "outfit")
  BY DEF Agree
<1>2. "outfit" \in Equip!Sources /\ v["outfit"] \in WornTypes \cup Outfits /\ v["outfit"] # None
      /\ Equip!SlotSet \subseteq Equip!Sources /\ "outfit" \notin Equip!SlotSet
  BY SlotFacts, EquipIsAssumed DEF Equip!Sources, Equip!EquipAssumption
<1>3. GearFits(r, w) /\ w \in GearBooks
  BY <1>1, <1>2, TakenFits
<1>4. r \in Wearers /\ r.enabled = s.enabled /\ r.type = s.type /\ r.at = s.at
  BY <1>1, <1>2, TakenFields
<1>5. w["outfit"] = None /\ \A n \in Equip!SlotSet : w[n] = v[n]
  BY <1>1, <1>2 DEF GearBooks
<1> HIDE DEF r, w
<1>6. LinkedBut(r, w, "outfit")
  BY <1>1, <1>2, <1>4, <1>5 DEF LinkedBut, OnePerSlot, BookedAt
<1>7. Agree(r, w, "outfit")
  BY <1>3, <1>4, <1>6 DEF Agree
<1> QED BY <1>5, <1>7 DEF r

LEMMA ChangeOutfitKeeps ==
  ASSUME EquipInv, NEW to \in Outfits, NEW addons \in BOOLEAN, Equip!ChangeOutfit(to, addons)
  PROVE  EquipInv'
<1> DEFINE bare == IF x8 THEN Equip!Taken(Equip!Now, "outfit", x7) ELSE Equip!Now
<1>1. PICK v : Agree(Equip!Now, v, "outfit") /\ v["outfit"] = IF x8 THEN x7 ELSE None
  BY DEF EquipInv
<1>2. /\ Equip!Become(IF addons THEN Equip!Given(bare, "outfit", to) ELSE bare)
      /\ x7' = to /\ x8' = addons
  BY DEF Equip!ChangeOutfit
<1>3. \E u : Agree(bare, u, "outfit") /\ u["outfit"] = None
  <2>1. CASE x8
    <3>1. v["outfit"] = x7 /\ x7 \in Outfits
      BY <1>1, <2>1 DEF EquipInv, Equip!TypeOK
    <3>2. \E u : Agree(Equip!Taken(Equip!Now, "outfit", v["outfit"]), u, "outfit") /\ u["outfit"] = None
      BY <1>1, <3>1, OutfitTaken
    <3> QED BY <2>1, <3>1, <3>2
  <2>2. CASE ~x8
    BY <1>1, <2>2
  <2> QED BY <2>1, <2>2
<1> HIDE DEF bare
<1>4. PICK u : Agree(bare, u, "outfit") /\ u["outfit"] = None
  BY <1>3
<1> DEFINE r == IF addons THEN Equip!Given(bare, "outfit", to) ELSE bare
<1>5. \E w : Agree(r, w, "outfit") /\ w["outfit"] = IF addons THEN to ELSE None
  BY <1>4, OutfitGiven
<1> HIDE DEF r
<1>6. PICK w : Agree(r, w, "outfit") /\ w["outfit"] = IF addons THEN to ELSE None
  BY <1>5
<1>7. Equip!Become(r)
  BY <1>2 DEF r
<1> QED BY <1>2, <1>6, <1>7, GearBecomeKeeps

(* The recursion of Dressed has a solution.                                *)
Dresses(f, m, s, able) ==
  f = [n \in 0 .. m |-> IF n = 0 THEN s ELSE Equip!Dress(f[n - 1], Slots[n], able)]

LEMMA DressesExists ==
  ASSUME NEW s, NEW able, NEW k \in Nat
  PROVE  \E f : Dresses(f, k, s, able)
<1> DEFINE Undressed == {m \in Nat : ~\E f : Dresses(f, m, s, able)}
<1>1. ASSUME Undressed # {} PROVE FALSE
  <2>1. PICK m \in Undressed : \A l \in Undressed : m <= l
    BY <1>1, LeastNumber
  <2>2. CASE m = 0
    <3> DEFINE f == [n \in 0 .. 0 |-> s]
    <3>1. Dresses(f, 0, s, able)
      BY DEF Dresses
    <3> QED BY <2>1, <2>2, <3>1
  <2>3. CASE m # 0
    <3>1. m \in Nat /\ m - 1 \in Nat /\ ~(m <= m - 1)
      BY <2>1, <2>3
    <3>2. m - 1 \notin Undressed
      BY <2>1, <3>1
    <3>3. PICK g : Dresses(g, m - 1, s, able)
      BY <3>1, <3>2
    <3> DEFINE last == Equip!Dress(g[m - 1], Slots[m], able)
               f == [n \in 0 .. m |-> IF n = m THEN last ELSE g[n]]
    <3>4. \A n \in 0 .. m - 1 : g[n] = IF n = 0 THEN s ELSE Equip!Dress(g[n - 1], Slots[n], able)
      BY <3>3 DEF Dresses
    <3> HIDE DEF last
    <3>5. \A n \in 0 .. m - 1 : f[n] = g[n]
      BY <3>1
    <3>6. f[m] = last
      BY <3>1
    <3>7. f = [n \in 0 .. m |-> f[n]]
      OBVIOUS
    <3> HIDE DEF f
    <3>8. ASSUME NEW n \in 0 .. m
          PROVE  f[n] = IF n = 0 THEN s ELSE Equip!Dress(f[n - 1], Slots[n], able)
      <4>1. CASE n = m
        <5>1. m - 1 \in 0 .. m - 1
          BY <3>1
        <5> QED BY <2>3, <3>5, <3>6, <4>1, <5>1 DEF last
      <4>2. CASE n # m
        <5>1. n \in 0 .. m - 1 /\ (n # 0 => n - 1 \in 0 .. m - 1)
          BY <3>1, <4>2
        <5> QED BY <3>4, <3>5, <5>1
      <4> QED BY <4>1, <4>2
    <3>9. Dresses(f, m, s, able)
      BY <3>7, <3>8, Zenon DEF Dresses
    <3> QED BY <2>1, <3>9
  <2> QED BY <2>2, <2>3
<1> QED BY <1>1

LEMMA DressKeeps ==
  ASSUME NEW s, NEW v, Agree(s, v, "outfit"), s.at = x2, NEW slot \in Equip!SlotSet, NEW able
  PROVE  LeadsTo(v, Equip!Dress(s, slot, able), x2)
<1>1. CASE Equip!In(slot) = {}
  BY <1>1 DEF Equip!Dress, LeadsTo
<1>2. CASE Equip!In(slot) # {}
  <2> DEFINE i == CHOOSE i \in Equip!In(slot) : TRUE
             r == Equip!EquipItem(s, slot, i, able)
  <2>1. i \in Equip!In(slot)
    BY <1>2
  <2>2. Equip!Dress(s, slot, able) = r
    BY <1>2 DEF Equip!Dress
  <2> HIDE DEF i
  <2>3. i \in WornItems /\ s.at[i] = slot /\ slot \in Equip!SlotSet \ {"outfit"}
        /\ "outfit" \in Equip!Sources \ {slot}
    BY <2>1, SlotFacts DEF Equip!In, Equip!Sources
  <2>4. EquipsTo(s, v, "outfit", slot, r)
    BY <2>3, EquipItemKeeps
  <2> HIDE DEF r
  <2>5. PICK w : Agree(r, w, "outfit") /\ Beyond(s, v, r, w, slot)
    BY <2>4 DEF EquipsTo
  <2>6. w["outfit"] = v["outfit"] /\ r.at = x2
    BY <2>3, <2>5 DEF Beyond
  <2> QED BY <2>2, <2>5, <2>6 DEF LeadsTo
<1> QED BY <1>1, <1>2

LEMMA DressedKeeps ==
  ASSUME NEW s, NEW v, Agree(s, v, "outfit"), s.at = x2, NEW able
  PROVE  LeadsTo(v, Equip!Dressed(s, able), x2)
<1> DEFINE k == Len(Slots)
           upTo == CHOOSE f : f = [n \in 0 .. k |->
                     IF n = 0 THEN s ELSE Equip!Dress(f[n - 1], Slots[n], able)]
           Bad == {n \in 0 .. k : ~LeadsTo(v, upTo[n], x2)}
<1>1. Equip!Dressed(s, able) = upTo[k]
  BY Zenon DEF Equip!Dressed
<1>2. k \in Nat /\ \A n \in 1 .. k : Slots[n] \in Equip!SlotSet
  BY SlotFacts
<1>3. Dresses(upTo, k, s, able)
  <2> HIDE DEF k
  <2>1. \E f : Dresses(f, k, s, able)
    BY <1>2, DressesExists
  <2>2. upTo = CHOOSE f : Dresses(f, k, s, able)
    BY Zenon DEF Dresses
  <2> HIDE DEF upTo
  <2> QED BY <2>1, <2>2, Zenon
<1> HIDE DEF upTo, k
<1>4. \A n \in 0 .. k : upTo[n] = IF n = 0 THEN s ELSE Equip!Dress(upTo[n - 1], Slots[n], able)
  BY <1>3 DEF Dresses
<1>5. ASSUME Bad # {} PROVE FALSE
  <2>1. Bad \subseteq Nat
    BY <1>2
  <2>2. PICK n \in Bad : \A m \in Bad : n <= m
    BY <1>5, <2>1, LeastNumber
  <2>3. n \in 0 .. k /\ ~LeadsTo(v, upTo[n], x2)
    BY <2>2
  <2>4. CASE n = 0
    <3>1. upTo[n] = s
      BY <1>4, <2>3, <2>4
    <3> QED BY <2>3, <3>1 DEF LeadsTo
  <2>5. CASE n # 0
    <3>1. n - 1 \in 0 .. k /\ ~(n <= n - 1) /\ n \in 1 .. k
      BY <1>2, <2>3, <2>5
    <3>2. LeadsTo(v, upTo[n - 1], x2)
      BY <2>2, <3>1
    <3>3. PICK w : Agree(upTo[n - 1], w, "outfit") /\ w["outfit"] = v["outfit"] /\ upTo[n - 1].at = x2
      BY <3>2 DEF LeadsTo
    <3>4. LeadsTo(w, Equip!Dress(upTo[n - 1], Slots[n], able), x2)
      BY <1>2, <3>1, <3>3, DressKeeps
    <3>5. upTo[n] = Equip!Dress(upTo[n - 1], Slots[n], able)
      BY <1>4, <2>3, <2>5
    <3> QED BY <2>3, <3>3, <3>4, <3>5 DEF LeadsTo
  <2> QED BY <2>4, <2>5
<1>6. k \in 0 .. k
  BY <1>2
<1> QED BY <1>1, <1>5, <1>6

LEMMA RelogKeeps ==
  ASSUME EquipInv, NEW addons \in BOOLEAN, NEW able, Equip!Relog(addons, able)
  PROVE  EquipInv'
<1> DEFINE saved == [Equip!Worn(Equip!Now) EXCEPT !.shields = x5 \cap {"spell"}]
           dressed == Equip!Dressed(saved, able)
           v == [id \in Equip!Sources |-> None]
<1>1. /\ Equip!Become(IF addons THEN Equip!Given(dressed, "outfit", x7) ELSE dressed)
      /\ x8' = addons /\ UNCHANGED x7
  BY DEF Equip!Relog
<1>2. Equip!TypeOK /\ OnePerSlot(Equip!Now) /\ Equip!Now.at = x2
  BY DEF EquipInv, Agree, LinkedBut, Equip!Now
<1>3. /\ saved.at = x2 /\ saved.type = x1 /\ saved.enabled = [n \in Equip!SlotSet |-> FALSE]
      /\ saved.speed = 0 /\ saved.shields = x5 \cap {"spell"} /\ saved.suppressed = FALSE
  BY DEF Equip!Worn, Equip!Now
<1>4. saved \in Wearers
  <2> DEFINE en == [n \in Equip!SlotSet |-> FALSE]
             sh == x5 \cap {"spell"}
             bare == Equip!Worn(Equip!Now)
  <2>1. bare = [enabled |-> en, speed |-> 0, shields |-> {}, suppressed |-> FALSE, type |-> x1, at |-> x2]
    BY DEF Equip!Worn, Equip!Now
  <2>2. /\ en \in [Equip!SlotSet -> BOOLEAN]
        /\ sh \in SUBSET (Equip!SlotSet \cup {"outfit", "spell"})
        /\ x1 \in [WornItems -> WornTypes] /\ x2 \in [WornItems -> Equip!SlotSet \cup {"away", "gone"}]
    BY <1>2 DEF Equip!TypeOK
  <2>3. saved = [bare EXCEPT !.shields = sh]
    OBVIOUS
  <2> HIDE DEF saved, en, sh, bare
  <2>4. FALSE \in BOOLEAN /\ 0 \in Int /\ {} \in SUBSET (Equip!SlotSet \cup {"outfit", "spell"})
    OBVIOUS
  <2>5. bare \in Wearers
    BY <2>1, <2>2, <2>4, Zenon DEF Wearers
  <2> QED BY <2>2, <2>3, <2>5 DEF Wearers
<1> HIDE DEF saved
<1>5. /\ OnePerSlot(saved) /\ saved.shields \subseteq {"spell"} /\ ~saved.suppressed
      /\ \A n \in Equip!SlotSet : ~saved.enabled[n]
  BY <1>2, <1>3 DEF OnePerSlot
<1>6. Agree(saved, v, "outfit")
  BY <1>3, <1>4, <1>5, NothingFits
<1>7. v["outfit"] = None
  BY DEF Equip!Sources
<1> HIDE DEF v
<1>8. LeadsTo(v, dressed, x2)
  BY <1>3, <1>6, DressedKeeps
<1> HIDE DEF dressed
<1>9. PICK u : Agree(dressed, u, "outfit") /\ u["outfit"] = None
  BY <1>7, <1>8 DEF LeadsTo
<1>10. x7 \in Outfits
  BY <1>2 DEF Equip!TypeOK
<1> DEFINE r == IF addons THEN Equip!Given(dressed, "outfit", x7) ELSE dressed
<1>11. \E w : Agree(r, w, "outfit") /\ w["outfit"] = IF addons THEN x7 ELSE None
  BY <1>9, <1>10, OutfitGiven
<1>12. Equip!Become(r)
  BY <1>1
<1> HIDE DEF r
<1>13. PICK w : Agree(r, w, "outfit") /\ w["outfit"] = IF addons THEN x7 ELSE None
  BY <1>11
<1> QED BY <1>1, <1>10, <1>12, <1>13, GearBecomeKeeps

LEMMA SpellKeeps ==
  ASSUME EquipInv, Equip!Spell
  PROVE  EquipInv'
<1>1. PICK v : Agree(Equip!Now, v, "outfit") /\ v["outfit"] = IF x8 THEN x7 ELSE None
  BY DEF EquipInv
<1>2. x5' \ {"spell"} = x5 \ {"spell"} /\ x5' \subseteq Equip!SlotSet \cup {"outfit", "spell"}
  BY DEF Equip!Spell, EquipInv, Equip!TypeOK
<1>3. UNCHANGED <<x1, x2, x3, x4, x6, x7, x8>>
  BY DEF Equip!Spell
<1>4. Equip!TypeOK'
  BY <1>2, <1>3 DEF EquipInv, Equip!TypeOK
<1>5. Equip!Now' \in Wearers
  BY <1>4 DEF Equip!TypeOK, Equip!Now, Wearers
<1>6. /\ Equip!Now'.at = Equip!Now.at /\ Equip!Now'.enabled = Equip!Now.enabled
      /\ Equip!Now'.type = Equip!Now.type /\ Equip!Now'.speed = Equip!Now.speed
      /\ Equip!Now'.suppressed = Equip!Now.suppressed
      /\ Equip!Now'.shields \ {"spell"} = Equip!Now.shields \ {"spell"}
  BY <1>2, <1>3 DEF Equip!Now
<1> DEFINE s == Equip!Now
           r == Equip!Now'
<1>7. r \in Wearers /\ r.at = s.at /\ r.enabled = s.enabled /\ r.type = s.type /\ r.speed = s.speed
      /\ r.suppressed = s.suppressed /\ r.shields \ {"spell"} = s.shields \ {"spell"}
      /\ Agree(s, v, "outfit")
  BY <1>1, <1>5, <1>6
<1> HIDE DEF r, s
<1>8. Agree(r, v, "outfit")
  BY <1>7 DEF Agree, GearFits, LinkedBut, OnePerSlot, BookedAt
<1> QED BY <1>1, <1>3, <1>4, <1>8 DEF EquipInv, r

LEMMA EquipStepKeeps == EquipInv /\ Equip!Next => EquipInv'
<1> SUFFICES ASSUME EquipInv, Equip!Next PROVE EquipInv'
  OBVIOUS
<1>1. CASE Equip!Spell
  BY <1>1, SpellKeeps
<1>2. CASE \E o \in Outfits, addons \in BOOLEAN : Equip!ChangeOutfit(o, addons)
  BY <1>2, ChangeOutfitKeeps
<1>3. CASE \E addons \in BOOLEAN, able \in Equip!Able : Equip!Relog(addons, able)
  BY <1>3, RelogKeeps
<1>4. ASSUME NEW i \in WornItems, NEW able \in Equip!Able,
             \/ \E to \in Equip!SlotSet \cup {"away", "gone"} : Equip!MoveItem(i, to, able)
             \/ \E slot \in Equip!SlotSet : Equip!Exchange(i, slot, able)
             \/ \E to \in WornTypes : Equip!TransformItem(i, to, able)
      PROVE  EquipInv'
  BY <1>4, MoveItemKeeps, ExchangeKeeps, TransformItemKeeps
<1> QED BY <1>1, <1>2, <1>3, <1>4 DEF Equip!Next

LEMMA EquipInvStutters == EquipInv /\ Untouched => EquipInv'
<1> SUFFICES ASSUME EquipInv, Untouched PROVE EquipInv'
  OBVIOUS
<1>1. Equip!TypeOK' /\ Equip!Now' = Equip!Now /\ UNCHANGED <<x7, x8>>
  BY DEF EquipInv, Equip!TypeOK, Equip!Now, Untouched
<1> QED BY <1>1 DEF EquipInv

LEMMA TotalIsSum ==
  ASSUME NEW f, NEW v, GearSums(f, v), \A id \in Equip!Sources : Equip!Giver(id) = v[id]
  PROVE  Equip!BonusUpTo[Len(Slots)] = f[Len(Slots)]
<1> DEFINE k == Len(Slots)
           Sum(n, g) == IF n = 0 THEN Equip!Bonus("outfit") ELSE g[n - 1] + Equip!Bonus(Slots[n])
           Bad == {n \in 0 .. k : Equip!BonusUpTo[n] # f[n]}
<1>1. k \in Nat /\ (\A n \in 1 .. k : Slots[n] \in Equip!Sources) /\ "outfit" \in Equip!Sources
  BY SlotFacts DEF Equip!Sources
<1>2. \A id \in Equip!Sources : Equip!Bonus(id) = WorthIn(v[id])
  BY DEF Equip!Bonus, WorthIn
<1>3. /\ f \in [0 .. k -> Int] /\ f[0] = WorthIn(v["outfit"])
      /\ \A n \in 1 .. k : f[n] = f[n - 1] + WorthIn(v[Slots[n]])
  BY DEF GearSums
<1>4. Equip!BonusUpTo = CHOOSE g : g = [n \in 0 .. k |-> Sum(n, g)]
  BY Zenon DEF Equip!BonusUpTo
<1> HIDE DEF k
<1>5. f = [n \in 0 .. k |-> Sum(n, f)]
  <2>1. ASSUME NEW n \in 0 .. k PROVE f[n] = Sum(n, f)
    <3>1. CASE n = 0
      BY <1>1, <1>2, <1>3, <3>1
    <3>2. CASE n # 0
      <4>1. n \in 1 .. k
        BY <1>1, <3>2
      <4> QED BY <1>1, <1>2, <1>3, <3>2, <4>1
    <3> QED BY <3>1, <3>2
  <2>2. f = [n \in 0 .. k |-> f[n]]
    BY <1>3
  <2> HIDE DEF Sum
  <2> QED BY <2>1, <2>2, Zenon
<1>6. Equip!BonusUpTo = [n \in 0 .. k |-> Sum(n, Equip!BonusUpTo)]
  <2> HIDE DEF Sum
  <2> QED BY <1>4, <1>5, Zenon
<1>7. \A n \in 0 .. k : Equip!BonusUpTo[n] = Sum(n, Equip!BonusUpTo)
  <2> HIDE DEF Sum
  <2> QED BY <1>6
<1>8. ASSUME Bad # {} PROVE FALSE
  <2>1. Bad \subseteq Nat
    BY <1>1
  <2>2. PICK n \in Bad : \A m \in Bad : n <= m
    BY <1>8, <2>1, LeastNumber
  <2>3. n \in 0 .. k /\ Equip!BonusUpTo[n] # f[n]
    BY <2>2
  <2>4. CASE n = 0
    BY <1>1, <1>2, <1>3, <1>7, <2>3, <2>4
  <2>5. CASE n # 0
    <3>1. n - 1 \in 0 .. k /\ ~(n <= n - 1) /\ n \in 1 .. k
      BY <1>1, <2>3, <2>5
    <3>2. Equip!BonusUpTo[n - 1] = f[n - 1]
      BY <2>2, <3>1
    <3>3. Equip!BonusUpTo[n] = Equip!BonusUpTo[n - 1] + Equip!Bonus(Slots[n])
      BY <1>7, <2>3, <2>5
    <3>4. Equip!Bonus(Slots[n]) = WorthIn(v[Slots[n]])
      BY <1>1, <1>2, <3>1
    <3> QED BY <1>3, <2>3, <3>1, <3>2, <3>3, <3>4
  <2> QED BY <2>4, <2>5
<1>9. k \in 0 .. k
  BY <1>1
<1> QED BY <1>8, <1>9 DEF k

LEMMA EquipInvIsEnough == EquipInv => Equip!TypeOK /\ Equip!BonusesAddUp
<1> SUFFICES ASSUME EquipInv PROVE Equip!TypeOK /\ Equip!BonusesAddUp
  OBVIOUS
<1>1. PICK v : Agree(Equip!Now, v, "outfit") /\ v["outfit"] = IF x8 THEN x7 ELSE None
  BY DEF EquipInv
<1>2. /\ Equip!Now.at = x2 /\ Equip!Now.enabled = x3 /\ Equip!Now.type = x1 /\ Equip!Now.speed = x4
      /\ Equip!Now.shields = x5 /\ Equip!Now.suppressed = x6
  BY DEF Equip!Now
<1>3. GearFits(Equip!Now, v) /\ LinkedBut(Equip!Now, v, "outfit")
  BY <1>1 DEF Agree
<1>4. OnePerSlot(Equip!Now) /\ \A n \in Equip!SlotSet : BookedAt(Equip!Now, v, n)
  BY <1>3, SlotFacts DEF LinkedBut
<1>5. ASSUME NEW id \in Equip!Sources PROVE Equip!Giver(id) = v[id]
  <2>1. CASE id = "outfit"
    BY <1>1, <2>1 DEF Equip!Giver
  <2>2. CASE id # "outfit"
    <3>1. id \in Equip!SlotSet
      BY <2>2 DEF Equip!Sources
    <3>2. CASE ~x3[id]
      BY <1>2, <1>4, <2>2, <3>1, <3>2 DEF Equip!Giver, BookedAt
    <3>3. CASE x3[id]
      <4>1. PICK i \in WornItems : x2[i] = id /\ v[id] = x1[i]
        BY <1>2, <1>4, <3>1, <3>3 DEF BookedAt
      <4> DEFINE j == CHOOSE j \in WornItems : x2[j] = id
      <4>2. j \in WornItems /\ x2[j] = id
        BY <4>1
      <4>3. Equip!Giver(id) = x1[j]
        BY <2>2, <3>3 DEF Equip!Giver
      <4> HIDE DEF j
      <4>4. j = i
        BY <1>2, <1>4, <3>1, <4>1, <4>2 DEF OnePerSlot
      <4> QED BY <4>1, <4>3, <4>4
    <3> QED BY <3>2, <3>3
  <2> QED BY <2>1, <2>2
<1>6. x4 = Equip!BonusUpTo[Len(Slots)]
  <2>1. PICK f : GearSums(f, v) /\ f[Len(Slots)] = x4
    BY <1>2, <1>3 DEF GearFits, GearTotals
  <2>2. Equip!BonusUpTo[Len(Slots)] = f[Len(Slots)]
    BY <1>5, <2>1, TotalIsSum
  <2> QED BY <2>1, <2>2
<1>7. x5 \ {"spell"} = {id \in Equip!Sources : Equip!Giver(id) \in Shield}
  BY <1>2, <1>3, <1>5 DEF GearFits, ShieldsOf
<1>8. x6 => \E id \in Equip!Sources : Equip!Giver(id) \in Suppress
  BY <1>2, <1>3, <1>5 DEF GearFits, Suppresses
<1>9. \A i, j \in WornItems : x2[i] = x2[j] /\ x2[i] \in Equip!SlotSet => i = j
  BY <1>2, <1>4 DEF OnePerSlot
<1>10. \A n \in Equip!SlotSet : x3[n] => \E i \in WornItems : x2[i] = n
  BY <1>2, <1>4 DEF BookedAt
<1> QED BY <1>6, <1>7, <1>8, <1>9, <1>10 DEF Equip!BonusesAddUp, EquipInv
-----------------------------------------------------------------------------
(* Nobody has two houses but by a deal that something had come between, no *)
(* house is taken before the day the last letter named, and beds, their    *)
(* halves and the map of sleepers agree, across every restart.             *)
THEOREM HomesAreKeptHolds == Spec => []HomesAreKept
<1> DEFINE Inv == /\ part = "house" => HouseInv
                  /\ part = "bed" => BedInv
<1>1. Init => Inv
  BY HouseInit, BedInit DEF Init
<1>2. Inv /\ [Next]_vars => Inv'
  BY StepOfThePart, StutterOfTheParts, HouseStepKeeps, BedStepKeeps, HouseInvStutters,
     BedInvStutters
<1>3. Inv => HomesAreKept
  BY HouseInvIsEnough DEF BedInv, HomesAreKept
<1> QED
  BY <1>1, <1>2, <1>3, PTL DEF Spec
-----------------------------------------------------------------------------
(* What decays is listed, what is listed exists, and an item whose time    *)
(* was not set anew decays when its time is over, to the second.           *)
THEOREM DecaysOnTimeHolds == Spec => DecaysOnTime
<1> DEFINE Inv == part = "decay" => DecayInv
           Good == part = "decay" =>
                     Decay!TypeOK /\ Decay!ListedItemExists /\ Decay!DecayingIsListed
<1>1. Init => Inv
  BY DecayInit DEF Init
<1>2. Inv /\ [Next]_vars => Inv'
  BY StepOfThePart, StutterOfTheParts, DecayStepKeeps, DecayInvStutters
<1>3. Inv => Good
  BY DecayInvIsEnough
<1>4. Inv /\ [Next]_vars => [part = "decay" => Decay!OnTime]_vars
  BY StepOfThePart, StutterOfTheParts, DecayInTime
<1>5. part' = part /\ (part = "decay" => Decay!OnTime) /\ Good' =>
        (part = "decay" =>
           /\ Decay!OnTime
           /\ Decay!TypeOK' /\ Decay!ListedItemExists' /\ Decay!DecayingIsListed')
  OBVIOUS
<1>6. [Next]_vars => part' = part
  BY StepOfThePart
<1> QED
  BY <1>1, <1>2, <1>3, <1>4, <1>5, <1>6, PTL DEF Spec, DecaysOnTime
-----------------------------------------------------------------------------
(* What a player looks into exists and is in its reach: no order of        *)
(* moving containers, using depots, walking and logging out leaves a       *)
(* window open on what is gone, too far away, carried by another player or *)
(* in the depot of another.                                                *)
THEOREM WindowsInReachHolds == Spec => []WindowsInReach
<1> DEFINE Inv == part = "window" => WindowInv
<1>1. Init => Inv
  BY WindowInit DEF Init
<1>2. Inv /\ [Next]_vars => Inv'
  BY StepOfThePart, StutterOfTheParts, WindowStepKeeps, WindowInvStutters
<1>3. Inv => WindowsInReach
  BY WindowInvIsEnough DEF WindowsInReach
<1> QED
  BY <1>1, <1>2, <1>3, PTL DEF Spec
-----------------------------------------------------------------------------
(* What a script created is placed or freed, and freed once; what it can   *)
(* name exists; a unique id finds its item; and an event that was added    *)
(* runs once or was stopped, however the calls of scripts are nested.      *)
THEOREM ScriptsLetGoHolds == Spec => []ScriptsLetGo
<1> DEFINE Inv == part = "script" => ScriptInv
<1>1. Init => Inv
  BY ScriptInit DEF Init
<1>2. Inv /\ [Next]_vars => Inv'
  BY StepOfThePart, StutterOfTheParts, ScriptStepKeeps, ScriptInvStutters
<1>3. Inv => ScriptsLetGo
  BY ScriptInvIsEnough DEF ScriptsLetGo
<1> QED
  BY <1>1, <1>2, <1>3, PTL DEF Spec
-----------------------------------------------------------------------------
(* Nobody listens to a channel it is not entitled to, channels do not      *)
(* outlive their owners, and nobody who has left is kept on one, with the  *)
(* exceptions that Chat names.                                             *)
THEOREM ChannelsAgreeHolds == Spec => []ChannelsAgree
<1> DEFINE Inv == /\ part = "partyChat" => PartyInv
                  /\ part = "privateChat" => PrivateInv
<1>1. Init => Inv
  BY PartyChatInit, PrivateChatInit DEF Init
<1>2. Inv /\ [Next]_vars => Inv'
  BY StepOfThePart, StutterOfTheParts, PartyChatStepKeeps, PrivateChatStepKeeps,
     PartyChatStutters, PrivateChatStutters
<1>3. Inv => ChannelsAgree
  BY DEF PartyInv, PrivateInv, ChannelsAgree
<1> QED
  BY <1>1, <1>2, <1>3, PTL DEF Spec

(* However invitations, joining, passing on, leaving, logging out and      *)
(* disbanding follow one another, a player points to a party exactly if it *)
(* is listed there and in the game, both sides know of an invitation, and  *)
(* no party is left with nobody but its leader.                            *)
THEOREM PartiesAgreeHolds == Spec => []PartiesAgree
<1> DEFINE Inv == part = "party" => CompanyInv
<1>1. Init => Inv
  BY PartyInit DEF Init
<1>2. Inv /\ [Next]_vars => Inv'
  BY StepOfThePart, StutterOfTheParts, PartyStepKeeps, CompanyInvStutters
<1>3. Inv => PartiesAgree
  BY CompanyInvIsEnough DEF PartiesAgree
<1> QED
  BY <1>1, <1>2, <1>3, PTL DEF Spec

(* However requests, steps, pursuits, teleports and scripts follow one     *)
(* another, the scheduler has nothing of a player's that the player cannot *)
(* stop, one request at most waits for the end of a walk and has a walk to *)
(* wait for, who has steps to go has an event to go them, and a step that  *)
(* waits is not pursued with a path, with the exceptions that Walk names.  *)
THEOREM WalksKeepUpHolds == Spec => []WalksKeepUp
<1> DEFINE Inv == part = "walk" => WalkInv
<1>1. Init => Inv
  BY WalkInit DEF Init
<1>2. Inv /\ [Next]_vars => Inv'
  BY StepOfThePart, StutterOfTheParts, WalkStepKeeps, WalkInvStutters
<1>3. Inv => WalksKeepUp
  BY WalkInvIsEnough DEF WalksKeepUp
<1> QED
  BY <1>1, <1>2, <1>3, PTL DEF Spec
-----------------------------------------------------------------------------
(* An empty block is looked after by the check or made up for by another   *)
(* monster, what the spawn lists are monsters that exist and know it, and  *)
(* raids go one at a time, none for ever, across every reload and kill.    *)
THEOREM SpawnsGoOnHolds == Spec => []SpawnsGoOn
<1> DEFINE Inv == /\ part = "spawn" => SpawnInv
                  /\ part = "raid" => RaidInv
<1>1. Init => Inv
  BY SpawnInit, RaidInit DEF Init
<1>2. Inv /\ [Next]_vars => Inv'
  BY StepOfThePart, StutterOfTheParts, SpawnStepKeeps, RaidStepKeeps, SpawnInvStutters,
     RaidInvStutters
<1>3. Inv => SpawnsGoOn
  BY SpawnInvIsEnough, RaidInvIsEnough DEF SpawnsGoOn
<1> QED
  BY <1>1, <1>2, <1>3, PTL DEF Spec
-----------------------------------------------------------------------------
(* The bonuses of a player are those of what it wears: taking an item off  *)
(* takes what putting it on gave, whatever it has become in between, and a *)
(* player that comes back has what it left with.                           *)
THEOREM BonusesAddUpHolds == Spec => []BonusesAddUp
<1> DEFINE Inv == part = "equip" => EquipInv
<1>1. Init => Inv
  BY EquipInit DEF Init
<1>2. Inv /\ [Next]_vars => Inv'
  BY StepOfThePart, StutterOfTheParts, EquipStepKeeps, EquipInvStutters
<1>3. Inv => BonusesAddUp
  BY EquipInvIsEnough DEF BonusesAddUp
<1> QED
  BY <1>1, <1>2, <1>3, PTL DEF Spec
-----------------------------------------------------------------------------
(* The speed, the skills and the look of a player are what its conditions  *)
(* say, nobody is hasted and paralysed, and whoever is marked is in a      *)
(* fight that will end, through every merging, suppressing, prolonging,    *)
(* ending, saving and loading, with the exceptions that Condition names.   *)
THEOREM ConditionsAddUpHolds == Spec => []ConditionsAddUp
<1> DEFINE Inv == /\ part = "swiftness" => SwiftInv
                  /\ part = "strength" => StrengthInv
<1>1. Init => Inv
  BY SwiftnessInit, StrengthInit DEF Init
<1>2. Inv /\ [Next]_vars => Inv'
  BY StepOfThePart, StutterOfTheParts, SwiftnessStepKeeps, StrengthStepKeeps, ConditionStutters
<1>3. Inv => ConditionsAddUp
  BY SwiftInvIsEnough, StrengthInvIsEnough DEF ConditionsAddUp
<1> QED
  BY <1>1, <1>2, <1>3, PTL DEF Spec
-----------------------------------------------------------------------------
(* However coins are split, merged, exchanged, paid out and collected,     *)
(* they are together worth what was paid out and not collected, and no     *)
(* stack or container holds more than it can: game.cpp addMoney,           *)
(* removeMoney and internalMoveItem.                                       *)
THEOREM CoinsAddUpHolds == Spec => []CoinsAddUp
<1> DEFINE Inv == part = "coins" => CoinInv
<1>1. Init => Inv
  BY CoinsStart DEF Init
<1>2. Inv /\ [Next]_vars => Inv'
  BY StepOfThePart, StutterOfTheParts, CoinStepKeeps, CoinsStayWhile
<1>3. Inv => CoinsAddUp
  BY CoinInvSays DEF CoinsAddUp
<1> QED
  BY <1>1, <1>2, <1>3, PTL DEF Spec
=============================================================================
