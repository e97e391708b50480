------------------------------ MODULE WorldMC ------------------------------
(***************************************************************************)
(* Small instances of the parts.  The players a1 to a3 are alike, and so   *)
(* are b1 and b2 (bags, parties, items, monsters, tenants); q1 to q3       *)
(* differ in their access to the house and in their depots.                *)
(***************************************************************************)
EXTENDS World, TLC

CONSTANTS a1, a2, a3, b1, b2, q1, q2, q3, bed1, bed2, bed3, d1, d2, h1, h2

Symmetry == Permutations({a1, a2, a3}) \cup Permutations({b1, b2})

(* What becomes of each kind of item, with times below and above K.        *)
MCTypes == {"fresh", "old", "worn", "ring", "lit", "unlit", "plain"}
MCDecayTime ==
  [t \in MCTypes |-> CASE t = "fresh" -> 2 [] t = "old" -> 6 [] t = "worn" -> 9
                       [] t = "lit" -> 3 [] OTHER -> 0]
MCDecayTo ==
  [t \in MCTypes |-> CASE t = "fresh" -> "old" [] t \in {"old", "worn"} -> Vanished
                       [] t = "lit" -> "unlit" [] OTHER -> Never]
MCTransforms ==
  {<<"worn", "ring">>, <<"ring", "worn">>, <<"lit", "unlit">>, <<"unlit", "lit">>,
   <<"fresh", "old">>, <<"old", "plain">>, <<"plain", "fresh">>}

MCHouses == <<h1, h2>>

(* A double bed and a single one.                                          *)
MCPartner == bed1 :> bed2 @@ bed2 :> bed1 @@ bed3 :> None
MCLevel == q1 :> 3 @@ q2 :> 1 @@ q3 :> 1

MCDepots == q1 :> d1 @@ q2 :> d2

MCKinds == <<"platinum", "gold">>
MCWorth == "platinum" :> 3 @@ "gold" :> 1

MCRaids == {"plain", "single", "block"}
MCRefType == [r \in MCRaids |-> IF r = "plain" THEN "none" ELSE r]
MCEvents ==
  [r \in MCRaids |-> CASE r = "plain" -> <<"announce", "spawn">>
                       [] r = "single" -> <<"spawn", "script", "spawn">>
                       [] r = "block" -> <<"spawn", "announce", "script">>]

(* A ring that changes while it is worn, boots that do not.                *)
MCSlots == <<"left", "right">>
MCWornTypes == {"ring", "worn", "boots"}
MCEquipTo == [t \in MCWornTypes |-> IF t = "ring" THEN "worn" ELSE None]
MCDeEquipTo == [t \in MCWornTypes |-> IF t = "worn" THEN "ring" ELSE None]
MCSpeed == "ring" :> 0 @@ "worn" :> 1 @@ "boots" :> 3 @@ "citizen" :> 0 @@ "knight" :> 9

(* Conditions from spells, items and the strikes of a monster, which may   *)
(* also change how somebody looks.                                         *)
MCCondition(type, id, ticks, delta, look) ==
  [type |-> type, id |-> id, ticks |-> ticks, delta |-> delta, look |-> look]
MCHastes ==
  {MCCondition("haste", "default", 1, 2, None), MCCondition("haste", "combat", 1, 1, "rat"),
   MCCondition("haste", "combat", 1, 3, None), MCCondition("paralyze", "combat", 1, -5, None)}
MCBoosts ==
  {MCCondition("attributes", "default", 2, 7, None),
   MCCondition("attributes", "default", 1, 8, None), MCCondition("outfit", "item", -1, 0, "wolf")}
=============================================================================
