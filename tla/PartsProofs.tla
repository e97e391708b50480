---------------------------- MODULE PartsProofs ----------------------------
(***************************************************************************)
(* Proofs about the parts in Parts: the windows of players, an item that   *)
(* decays, the channels and their listeners, parties and their members,    *)
(* beds, houses, the walk of a player, the blocks of a spawn, the raids,   *)
(* and what scripts hold, for any containers, types, players, ids,         *)
(* parties, beds, houses, monsters, raids and things and any length of a   *)
(* path.  Each has an inductive invariant; the theorems about the          *)
(* behaviours of World are in WorldProofs.                                 *)
(***************************************************************************)
EXTENDS Parts, FiniteSetTheorems, SequenceTheorems, WellFoundedInduction, TLAPS

(* A step of another part, or of none.                                     *)
Untouched == UNCHANGED <<x1, x2, x3, x4, x5, x6, x7, x8, x9, x10, x11, x12, x13>>

(* A set of numbers has a least one.                                       *)
LEMMA LeastNumber ==
  ASSUME NEW T, T \subseteq Nat, T # {}
  PROVE  \E n \in T : \A m \in T : n <= m
<1> DEFINE R == {ss \in Nat \X Nat : ss[1] < ss[2]}
<1>1. IsWellFoundedOn(R, Nat)
  BY NatLessThanWellFounded DEF OpToRel
<1> HIDE DEF R
<1>2. PICK n \in T : \A m \in T : ~(<<m, n>> \in R)
  BY <1>1, WFMin, Zenon
<1>3. \A m \in T : ~(m < n)
  BY <1>2 DEF R
<1> QED BY <1>3
-----------------------------------------------------------------------------
(* Windows.                                                                *)
LEMMA WindowIsAssumed == Window!WindowAssumption
BY PartsAssumption DEF PartsAssumption

LEMMA ContainersFinite ==
  /\ IsFiniteSet(Window!Containers)
  /\ Window!Cardinality(Window!Containers) = Cardinality(Window!Containers)
<1>1. Window!IsFiniteSet(Window!Containers)
  BY WindowIsAssumed DEF Window!WindowAssumption
<1>2. IsFiniteSet(Window!Containers)
  BY <1>1, Zenon DEF IsFiniteSet, Window!IsFiniteSet
<1>3. Window!Cardinality(Window!Containers) = Cardinality(Window!Containers)
  BY Zenon DEF Cardinality, Window!Cardinality
<1> QED BY <1>2, <1>3

(* What a container lies in, up to the outermost.                *)
Whereabouts == [Window!Containers -> Lookers \cup Places \cup Window!Containers \cup {None}]
ClosedUp(wh, T) == \A d \in T : wh[d] \in Window!Containers => wh[d] \in T
OneUp(wh, near) == near \cup ({wh[d] : d \in near} \cap Window!Containers)
Climbs(f, m, wh, c) == f = [n \in 0 .. m |-> IF n = 0 THEN {c} ELSE OneUp(wh, f[n - 1])]

(* The recursion of Around has a solution.                                 *)
LEMMA ClimbExists ==
  ASSUME NEW wh, NEW c, NEW k \in Nat
  PROVE  \E f : Climbs(f, k, wh, c)
<1> DEFINE Below == {m \in Nat : ~\E f : Climbs(f, m, wh, c)}
<1>1. ASSUME Below # {} PROVE FALSE
  <2>1. PICK m \in Below : \A l \in Below : m <= l
    BY <1>1, LeastNumber
  <2>2. CASE m = 0
    <3> DEFINE f == [n \in 0 .. 0 |-> {c}]
    <3>1. Climbs(f, 0, wh, c)
      BY DEF Climbs
    <3> QED BY <2>1, <2>2, <3>1
  <2>3. CASE m # 0
    <3>1. m \in Nat /\ m - 1 \in Nat /\ ~(m <= m - 1)
      BY <2>1, <2>3
    <3>2. m - 1 \notin Below
      BY <2>1, <3>1
    <3>3. PICK g : Climbs(g, m - 1, wh, c)
      BY <3>1, <3>2
    <3> DEFINE last == OneUp(wh, g[m - 1])
               f == [n \in 0 .. m |-> IF n = m THEN last ELSE g[n]]
    <3>4. \A n \in 0 .. m - 1 : g[n] = IF n = 0 THEN {c} ELSE OneUp(wh, g[n - 1])
      BY <3>3 DEF Climbs
    <3> HIDE DEF last
    <3>5. \A n \in 0 .. m - 1 : f[n] = g[n]
      BY <3>1
    <3>6. f[m] = last
      BY <3>1
    <3>7. f = [n \in 0 .. m |-> f[n]]
      OBVIOUS
    <3> HIDE DEF f
    <3>8. ASSUME NEW n \in 0 .. m
          PROVE  f[n] = IF n = 0 THEN {c} ELSE OneUp(wh, f[n - 1])
      <4>1. CASE n = m
        <5>1. m - 1 \in 0 .. m - 1
          BY <3>1
        <5> QED BY <2>3, <3>5, <3>6, <4>1, <5>1 DEF last
      <4>2. CASE n # m
        <5>1. n \in 0 .. m - 1 /\ (n # 0 => n - 1 \in 0 .. m - 1)
          BY <3>1, <4>2
        <5> QED BY <3>4, <3>5, <5>1
      <4> QED BY <4>1, <4>2
    <3>9. Climbs(f, m, wh, c)
      BY <3>7, <3>8, Zenon DEF Climbs
    <3> QED BY <2>1, <3>9
  <2> QED BY <2>2, <2>3
<1> QED BY <1>1

(* A step up is closed, or has found one more.                             *)
ClimbStep(S, n, wh, c) ==
  /\ S \subseteq Window!Containers /\ c \in S
  /\ \A T \in SUBSET Window!Containers : c \in T /\ ClosedUp(wh, T) => S \subseteq T
  /\ ClosedUp(wh, S) \/ n + 1 <= Cardinality(S)

LEMMA ClimbStepUp ==
  ASSUME NEW wh, NEW c \in Window!Containers, NEW n \in Nat, NEW S, ClimbStep(S, n, wh, c)
  PROVE  ClimbStep(OneUp(wh, S), n + 1, wh, c)
<1> DEFINE U == OneUp(wh, S)
<1>1. S \subseteq U /\ U \subseteq Window!Containers /\ c \in U
  BY DEF OneUp, ClimbStep
<1>2. ASSUME NEW T \in SUBSET Window!Containers, c \in T, ClosedUp(wh, T) PROVE U \subseteq T
  <2>1. S \subseteq T
    BY <1>2 DEF ClimbStep
  <2> QED BY <1>2, <2>1 DEF OneUp, ClosedUp
<1>3. ClosedUp(wh, U) \/ (n + 1) + 1 <= Cardinality(U)
  <2>1. CASE ClosedUp(wh, S)
    <3>1. U = S
      BY <2>1 DEF OneUp, ClosedUp
    <3> QED BY <2>1, <3>1
  <2>2. CASE ~ClosedUp(wh, S)
    <3>1. n + 1 <= Cardinality(S)
      BY <2>2 DEF ClimbStep
    <3>2. PICK x \in U : x \notin S
      BY <2>2 DEF OneUp, ClosedUp, ClimbStep
    <3>3. IsFiniteSet(U) /\ IsFiniteSet(S)
      BY <1>1, ContainersFinite, FS_Subset
    <3> HIDE DEF U
    <3>4. /\ S \cup {x} \subseteq U /\ IsFiniteSet(S \cup {x})
          /\ Cardinality(S \cup {x}) = Cardinality(S) + 1
      BY <1>1, <3>2, <3>3, FS_AddElement
    <3>5. Cardinality(S \cup {x}) <= Cardinality(U)
      BY <3>3, <3>4, FS_Subset
    <3>6. Cardinality(S) \in Nat /\ Cardinality(U) \in Nat
      BY <3>3, FS_CardinalityType
    <3> QED BY <3>1, <3>4, <3>5, <3>6
  <2> QED BY <2>1, <2>2
<1> QED BY <1>1, <1>2, <1>3 DEF ClimbStep

(* What a container lies in is the least set with it and what each of the  *)
(* set lies in: going up as often as there are containers is enough.       *)
LEMMA AroundIs ==
  ASSUME NEW wh, NEW c \in Window!Containers
  PROVE  /\ Window!Around(wh, c) \subseteq Window!Containers /\ c \in Window!Around(wh, c)
         /\ ClosedUp(wh, Window!Around(wh, c))
         /\ \A T \in SUBSET Window!Containers : c \in T /\ ClosedUp(wh, T) =>
              Window!Around(wh, c) \subseteq T
<1> DEFINE k == Window!Cardinality(Window!Containers)
           up == CHOOSE f : f = [n \in 0 .. k |->
                                   IF n = 0 THEN {c}
                                   ELSE LET near == f[n - 1]
                                        IN near \cup ({wh[d] : d \in near} \cap Window!Containers)]
           Bad == {n \in 0 .. k : ~ClimbStep(up[n], n, wh, c)}
<1>1. Window!Around(wh, c) = up[k]
  BY Zenon DEF Window!Around
<1>2. IsFiniteSet(Window!Containers) /\ k \in Nat /\ k = Cardinality(Window!Containers)
  BY ContainersFinite, FS_CardinalityType
<1>3. Climbs(up, k, wh, c)
  <2> HIDE DEF k
  <2>1. \E f : Climbs(f, k, wh, c)
    BY <1>2, ClimbExists
  <2>2. up = CHOOSE f : Climbs(f, k, wh, c)
    BY Zenon DEF Climbs, OneUp
  <2> HIDE DEF up
  <2> QED BY <2>1, <2>2, Zenon
<1> HIDE DEF up
<1>4. \A n \in 0 .. k : up[n] = IF n = 0 THEN {c} ELSE OneUp(wh, up[n - 1])
  <2> HIDE DEF k
  <2> QED BY <1>3 DEF Climbs
<1>5. ASSUME Bad # {} PROVE FALSE
  <2> HIDE DEF k
  <2>1. Bad \subseteq Nat
    BY <1>2
  <2>2. PICK n \in Bad : \A m \in Bad : n <= m
    BY <1>5, <2>1, LeastNumber
  <2>3. n \in 0 .. k /\ ~ClimbStep(up[n], n, wh, c) /\ 0 \in 0 .. k
    BY <1>2, <2>2
  <2>4. CASE n = 0
    <3>1. up[n] = {c}
      BY <1>4, <2>3, <2>4
    <3>2. Cardinality({c}) = 1
      BY FS_Singleton
    <3>3. ClimbStep({c}, 0, wh, c)
      BY <3>2 DEF ClimbStep
    <3> QED BY <2>3, <2>4, <3>1, <3>3
  <2>5. CASE n # 0
    <3>1. n - 1 \in 0 .. k /\ ~(n <= n - 1) /\ n - 1 \in Nat /\ (n - 1) + 1 = n
      BY <1>2, <2>3, <2>5
    <3>2. ClimbStep(up[n - 1], n - 1, wh, c)
      BY <2>2, <3>1
    <3>3. ClimbStep(OneUp(wh, up[n - 1]), (n - 1) + 1, wh, c)
      BY <3>1, <3>2, ClimbStepUp
    <3>4. up[n] = OneUp(wh, up[n - 1])
      BY <1>4, <2>3, <2>5
    <3> QED BY <2>3, <3>1, <3>3, <3>4
  <2> QED BY <2>4, <2>5
<1>6. ClimbStep(up[k], k, wh, c)
  <2> HIDE DEF k
  <2>1. k \in 0 .. k
    BY <1>2
  <2> QED BY <1>5, <2>1
<1>7. ~(k + 1 <= Cardinality(up[k]))
  <2> HIDE DEF k
  <2>1. up[k] \subseteq Window!Containers
    BY <1>6 DEF ClimbStep
  <2>2. Cardinality(up[k]) <= k /\ Cardinality(up[k]) \in Nat
    BY <1>2, <2>1, FS_Subset, FS_CardinalityType
  <2> QED BY <1>2, <2>2
<1> HIDE DEF k
<1> QED BY <1>1, <1>6, <1>7 DEF ClimbStep

LEMMA AroundStep ==
  ASSUME NEW wh, NEW c \in Window!Containers
  PROVE  Window!Around(wh, c) =
           {c} \cup (IF wh[c] \in Window!Containers THEN Window!Around(wh, wh[c]) ELSE {})
<1> DEFINE A == Window!Around(wh, c)
           U == {c} \cup (IF wh[c] \in Window!Containers THEN Window!Around(wh, wh[c]) ELSE {})
<1>1. /\ A \subseteq Window!Containers /\ c \in A /\ ClosedUp(wh, A)
      /\ \A T \in SUBSET Window!Containers : c \in T /\ ClosedUp(wh, T) => A \subseteq T
  BY AroundIs
<1>2. CASE wh[c] \notin Window!Containers
  <2>1. U = {c} /\ {c} \in SUBSET Window!Containers /\ ClosedUp(wh, {c})
    BY <1>2 DEF ClosedUp
  <2> HIDE DEF A, U
  <2> QED BY <1>1, <2>1 DEF A, U
<1>3. CASE wh[c] \in Window!Containers
  <2> DEFINE d == wh[c]
             B == Window!Around(wh, d)
  <2>1. d \in Window!Containers
    BY <1>3
  <2>2. /\ B \subseteq Window!Containers /\ d \in B /\ ClosedUp(wh, B)
        /\ \A T \in SUBSET Window!Containers : d \in T /\ ClosedUp(wh, T) => B \subseteq T
    <3> HIDE DEF d
    <3> QED BY <2>1, AroundIs
  <2>3. U = {c} \cup B /\ d \in A
    BY <1>1, <1>3 DEF ClosedUp
  <2> HIDE DEF A, B, U
  <2>4. B \subseteq A
    BY <1>1, <2>2, <2>3
  <2>5. {c} \cup B \in SUBSET Window!Containers /\ ClosedUp(wh, {c} \cup B)
    BY <2>2 DEF ClosedUp
  <2>6. A \subseteq {c} \cup B
    BY <1>1, <2>5
  <2> QED BY <1>1, <2>3, <2>4, <2>6 DEF A, U
<1> QED BY <1>2, <1>3

(* There is one outermost, for all that is on the way to it.               *)
LEMMA RootIsOne ==
  ASSUME NEW wh, NEW c \in Window!Containers,
         NEW d \in Window!Around(wh, c), wh[d] \notin Window!Containers
  PROVE  /\ \A e \in Window!Around(wh, c) : d \in Window!Around(wh, e)
         /\ Window!Outermost(wh, c) = d
<1> DEFINE T == {e \in Window!Containers : d \in Window!Around(wh, e)}
<1>1. ASSUME NEW e \in T, wh[e] \in Window!Containers PROVE wh[e] \in T
  BY <1>1, AroundStep
<1>2. c \in T /\ ClosedUp(wh, T)
  BY <1>1 DEF ClosedUp
<1>3. Window!Around(wh, c) \subseteq T
  BY <1>2, AroundIs
<1>4. ASSUME NEW e \in Window!Around(wh, c), wh[e] \notin Window!Containers PROVE e = d
  <2>1. e \in Window!Containers /\ d \in Window!Around(wh, e)
    BY <1>3
  <2>2. Window!Around(wh, e) = {e}
    BY <1>4, <2>1, AroundStep
  <2> QED BY <2>1, <2>2
<1>5. /\ Window!Outermost(wh, c) \in Window!Around(wh, c)
      /\ wh[Window!Outermost(wh, c)] \notin Window!Containers
  BY DEF Window!Outermost
<1> QED BY <1>3, <1>4, <1>5

RootedAt(wh, c) == \E d \in Window!Around(wh, c) : wh[d] \notin Window!Containers
Rooted(wh) == \A c \in Window!Containers : RootedAt(wh, c)

LEMMA OutermostIs ==
  ASSUME NEW wh, NEW c \in Window!Containers, RootedAt(wh, c)
  PROVE  /\ Window!Outermost(wh, c) \in Window!Around(wh, c)
         /\ wh[Window!Outermost(wh, c)] \notin Window!Containers
         /\ \A e \in Window!Around(wh, c) :
              /\ RootedAt(wh, e) /\ Window!Outermost(wh, e) = Window!Outermost(wh, c)
              /\ Window!Base(wh, e) = Window!Base(wh, c)
         /\ wh[c] \notin Window!Containers => Window!Outermost(wh, c) = c
<1>1. PICK d \in Window!Around(wh, c) : wh[d] \notin Window!Containers
  BY DEF RootedAt
<1>2. Window!Outermost(wh, c) = d /\ \A e \in Window!Around(wh, c) : d \in Window!Around(wh, e)
  BY <1>1, RootIsOne
<1>3. ASSUME NEW e \in Window!Around(wh, c) PROVE RootedAt(wh, e) /\ Window!Outermost(wh, e) = d
  <2>1. e \in Window!Containers /\ d \in Window!Around(wh, e)
    BY <1>2, AroundIs
  <2> QED BY <1>1, <2>1, RootIsOne DEF RootedAt
<1>4. wh[c] \notin Window!Containers => d = c
  BY <1>1, <1>2, AroundIs, RootIsOne
<1> QED BY <1>1, <1>2, <1>3, <1>4 DEF Window!Base

(* Nothing lies in itself.                                                 *)
LEMMA NotInItself ==
  ASSUME NEW wh, NEW c \in Window!Containers, RootedAt(wh, c), wh[c] \in Window!Containers
  PROVE  c \notin Window!Around(wh, wh[c])
<1> SUFFICES ASSUME c \in Window!Around(wh, wh[c]) PROVE FALSE
  OBVIOUS
<1>1. PICK d \in Window!Around(wh, c) : wh[d] \notin Window!Containers
  BY DEF RootedAt
<1> DEFINE T == {e \in Window!Containers : c \in Window!Around(wh, e)}
<1>2. ASSUME NEW e \in T, wh[e] \in Window!Containers PROVE wh[e] \in T
  BY <1>2, AroundStep
<1>3. c \in T /\ ClosedUp(wh, T)
  BY <1>2, AroundIs DEF ClosedUp
<1>4. d \in T
  BY <1>3, AroundIs
<1>5. Window!Around(wh, d) = {d}
  BY <1>1, <1>4, AroundStep
<1> QED BY <1>1, <1>4, <1>5

(* Where nothing changes on the way up, all stays.                         *)
LEMMA Unmoved ==
  ASSUME NEW wh, NEW wh2, NEW e \in Window!Containers, RootedAt(wh, e),
         \A x \in Window!Around(wh, e) : wh2[x] = wh[x]
  PROVE  /\ Window!Around(wh2, e) = Window!Around(wh, e) /\ RootedAt(wh2, e)
         /\ Window!Outermost(wh2, e) = Window!Outermost(wh, e)
         /\ Window!Base(wh2, e) = Window!Base(wh, e)
<1> DEFINE A == Window!Around(wh, e)
           B == Window!Around(wh2, e)
<1>1. /\ A \subseteq Window!Containers /\ e \in A /\ ClosedUp(wh, A)
      /\ \A T \in SUBSET Window!Containers : e \in T /\ ClosedUp(wh, T) => A \subseteq T
  BY AroundIs
<1>2. /\ B \subseteq Window!Containers /\ e \in B /\ ClosedUp(wh2, B)
      /\ \A T \in SUBSET Window!Containers : e \in T /\ ClosedUp(wh2, T) => B \subseteq T
  BY AroundIs
<1>3. PICK d \in A : wh[d] \notin Window!Containers
  BY DEF RootedAt
<1>4. Window!Outermost(wh, e) = d
  BY <1>3, RootIsOne
<1>5. \A x \in A : wh2[x] = wh[x]
  OBVIOUS
<1> HIDE DEF A, B
<1>6. B \subseteq A
  BY <1>1, <1>2, <1>5 DEF ClosedUp
<1>7. A \subseteq B
  BY <1>1, <1>2, <1>5, <1>6 DEF ClosedUp
<1>8. d \in Window!Around(wh2, e) /\ wh2[d] = wh[d] /\ wh2[d] \notin Window!Containers
  BY <1>3, <1>5, <1>7 DEF B
<1>9. Window!Outermost(wh2, e) = d
  BY <1>8, RootIsOne
<1> QED BY <1>4, <1>6, <1>7, <1>8, <1>9 DEF A, B, Window!Base, RootedAt

PutThere(wh, c, to, wh2) ==
  /\ wh2 \in Whereabouts /\ Rooted(wh2)
  /\ \A e \in Window!Containers : c \in Window!Around(wh, e) =>
       /\ c \in Window!Around(wh2, e)
       /\ Window!Outermost(wh2, e) = Window!Outermost(wh2, c)
       /\ Window!Base(wh2, e) = Window!Base(wh2, c)
  /\ \A e \in Window!Containers : c \notin Window!Around(wh, e) =>
       /\ Window!Outermost(wh2, e) = Window!Outermost(wh, e)
       /\ Window!Base(wh2, e) = Window!Base(wh, e)
  /\ to \notin Window!Containers => Window!Outermost(wh2, c) = c /\ Window!Base(wh2, c) = to

(* A container is put somewhere: all that is in it goes with it, and the   *)
(* rest stays where it is.                                                 *)
LEMMA PutSomewhere ==
  ASSUME NEW wh \in Whereabouts, Rooted(wh), NEW c \in Window!Containers,
         NEW to \in Lookers \cup Places \cup Window!Containers \cup {None},
         to \in Window!Containers => c \notin Window!Around(wh, to)
  PROVE  PutThere(wh, c, to, [wh EXCEPT ![c] = to])
<1> DEFINE wh2 == [wh EXCEPT ![c] = to]
<1>1. wh2 \in Whereabouts /\ wh2[c] = to /\ \A x \in Window!Containers : x # c => wh2[x] = wh[x]
  BY DEF Whereabouts
<1> HIDE DEF wh2
<1>2. ASSUME NEW e \in Window!Containers, c \notin Window!Around(wh, e)
      PROVE  /\ Window!Around(wh2, e) = Window!Around(wh, e) /\ RootedAt(wh2, e)
             /\ Window!Outermost(wh2, e) = Window!Outermost(wh, e)
             /\ Window!Base(wh2, e) = Window!Base(wh, e)
  <2>1. \A x \in Window!Around(wh, e) : wh2[x] = wh[x]
    BY <1>1, <1>2, AroundIs
  <2>2. RootedAt(wh, e)
    BY DEF Rooted
  <2> QED BY <2>1, <2>2, Unmoved
<1>3. RootedAt(wh2, c)
  <2>1. CASE to \notin Window!Containers
    <3>1. c \in Window!Around(wh2, c)
      BY AroundIs
    <3> QED BY <1>1, <2>1, <3>1 DEF RootedAt
  <2>2. CASE to \in Window!Containers
    <3>1. RootedAt(wh2, to)
      BY <1>2, <2>2
    <3>2. Window!Around(wh2, to) \subseteq Window!Around(wh2, c)
      BY <1>1, <2>2, AroundStep
    <3> QED BY <3>1, <3>2 DEF RootedAt
  <2> QED BY <2>1, <2>2
<1>4. ASSUME NEW e \in Window!Containers, c \in Window!Around(wh, e)
     PROVE  c \in Window!Around(wh2, e)
  <2> SUFFICES ASSUME c \notin Window!Around(wh2, e) PROVE FALSE
    OBVIOUS
  <2>1. /\ Window!Around(wh2, e) \in SUBSET Window!Containers /\ e \in Window!Around(wh2, e)
        /\ ClosedUp(wh2, Window!Around(wh2, e))
    BY AroundIs
  <2>2. ClosedUp(wh, Window!Around(wh2, e))
    BY <1>1, <2>1 DEF ClosedUp
  <2>3. Window!Around(wh, e) \subseteq Window!Around(wh2, e)
    BY <2>1, <2>2, AroundIs
  <2> QED BY <1>4, <2>3
<1>5. ASSUME NEW e \in Window!Containers, c \in Window!Around(wh, e)
      PROVE  /\ c \in Window!Around(wh2, e) /\ RootedAt(wh2, e)
             /\ Window!Outermost(wh2, e) = Window!Outermost(wh2, c)
             /\ Window!Base(wh2, e) = Window!Base(wh2, c)
  <2>1. c \in Window!Around(wh2, e)
    BY <1>4, <1>5
  <2>2. PICK d \in Window!Around(wh2, c) : wh2[d] \notin Window!Containers
    BY <1>3 DEF RootedAt
  <2> DEFINE T == Window!Around(wh2, e)
  <2>3. T \in SUBSET Window!Containers /\ ClosedUp(wh2, T)
    BY AroundIs
  <2>4. d \in T
    <3> HIDE DEF T
    <3>1. Window!Around(wh2, c) \subseteq T
      BY <2>1, <2>3, AroundIs DEF T
    <3> QED BY <2>2, <3>1
  <2>5. RootedAt(wh2, e)
    BY <2>2, <2>4 DEF RootedAt
  <2> QED BY <2>1, <2>5, OutermostIs
<1>6. Rooted(wh2)
  BY <1>2, <1>5 DEF Rooted
<1>7. to \notin Window!Containers => Window!Outermost(wh2, c) = c /\ Window!Base(wh2, c) = to
  BY <1>1, <1>3, OutermostIs DEF Window!Base
<1>8. PutThere(wh, c, to, wh2)
  BY <1>1, <1>2, <1>5, <1>6, <1>7 DEF PutThere
<1> QED BY <1>8 DEF wh2
-----------------------------------------------------------------------------
(* What is open is in reach of whoever looks into it, and all lies in      *)
(* something outermost; a depot is on the floor or not in the world.       *)
Views == [Lookers -> [Windows -> Window!Containers \cup {None}]]
InReach(wh, p, place, c) ==
  /\ Window!Base(wh, c) # None
  /\ Window!Base(wh, c) = p \/ Window!InRange(place, Window!Base(wh, c))
  /\ Window!Outermost(wh, c) \in Window!DepotSet => Window!Outermost(wh, c) = Depots[p]
AllInReach(wh, win, ps) ==
  \A p \in Lookers, w \in Windows : win[p][w] # None => InReach(wh, p, ps[p], win[p][w])
DepotsOut(wh) == \A p \in Lookers : wh[Depots[p]] \in Places \cup {None}
WindowsSettled(wh, win, ps) ==
  wh \in Whereabouts /\ win \in Views /\ Rooted(wh) /\ DepotsOut(wh) /\ AllInReach(wh, win, ps)

WindowInv == Window!TypeOK /\ WindowsSettled(x2, x3, x1)

LEMMA ThingsDiffer ==
  /\ None \notin Lookers /\ None \notin Window!Containers /\ None \notin Places
  /\ Lookers \cap Window!Containers = {} /\ Places \cap Lookers = {}
  /\ Places \cap Window!Containers = {}
  /\ Bags \subseteq Window!Containers /\ Window!DepotSet \subseteq Window!Containers
  /\ Bags \cap Window!DepotSet = {}
  /\ \A p \in Lookers : Depots[p] \in Window!DepotSet
  /\ \A p, q \in Lookers : Depots[p] = Depots[q] => p = q
BY WindowIsAssumed DEF Window!WindowAssumption, Window!Containers, Window!DepotSet

(* The base of what a container lies in, when the container has left it.   *)
LEMMA OldBase ==
  ASSUME NEW wh \in Whereabouts, Rooted(wh), NEW c \in Window!Containers,
         NEW to \in Lookers \cup Places \cup Window!Containers \cup {None},
         to \in Window!Containers => c \notin Window!Around(wh, to)
  PROVE  (IF wh[c] \in Window!Containers THEN Window!Base([wh EXCEPT ![c] = to], wh[c]) ELSE wh[c])
           = Window!Base(wh, c)
<1>1. RootedAt(wh, c)
  BY DEF Rooted
<1>2. CASE wh[c] \notin Window!Containers
  BY <1>1, <1>2, OutermostIs DEF Window!Base
<1>3. CASE wh[c] \in Window!Containers
  <2>1. c \notin Window!Around(wh, wh[c])
    BY <1>1, <1>3, NotInItself
  <2>2. Window!Base([wh EXCEPT ![c] = to], wh[c]) = Window!Base(wh, wh[c])
    BY <1>3, <2>1, PutSomewhere DEF PutThere
  <2>3. wh[c] \in Window!Around(wh, c)
    BY <1>3, AroundIs DEF ClosedUp
  <2>4. Window!Base(wh, wh[c]) = Window!Base(wh, c)
    BY <1>1, <2>3, OutermostIs
  <2> QED BY <1>3, <2>2, <2>4
<1> QED BY <1>2, <1>3

(* Whoever has a window to what moves is told of it.                       *)
LEMMA WatcherIsTold ==
  ASSUME Window!TypeOK, NEW s, NEW from, NEW p \in Lookers, NEW base,
         (IF from \in Window!Containers THEN Window!Base(s.where, from) ELSE from) = base,
         base # None, base = p \/ Window!InRange(x1[p], base)
  PROVE  p \in Window!Told(s, from)
<1>1. CASE base \in Lookers
  <2>1. base = p
    BY <1>1, ThingsDiffer DEF Window!InRange
  <2> QED BY <2>1 DEF Window!Told
<1>2. CASE base \notin Lookers
  <2>1. Window!InRange(x1[p], base)
    BY <1>2
  <2>2. Window!Sees(p, base)
    BY <2>1, WindowIsAssumed DEF Window!InRange, Window!Sees, Window!WindowAssumption
  <2> QED BY <1>2, <2>2 DEF Window!Told
<1> QED BY <1>1, <1>2

LEMMA ContainerMovedKeeps ==
  ASSUME Window!TypeOK, NEW s \in [where : Whereabouts, window : Views],
         WindowsSettled(s.where, s.window, x1),
         NEW c \in Bags, NEW to \in Lookers \cup Places \cup Window!Containers \cup {None},
         to \in Window!Containers => c \notin Window!Around(s.where, to)
  PROVE  /\ Window!Moved(s, c, to) \in [where : Whereabouts, window : Views]
         /\ Window!Moved(s, c, to).where = [s.where EXCEPT ![c] = to]
         /\ WindowsSettled(Window!Moved(s, c, to).where, Window!Moved(s, c, to).window, x1)
<1> DEFINE wh == s.where
           wh2 == [wh EXCEPT ![c] = to]
           from == wh[c]
           there == [s EXCEPT !.where[c] = to]
           closed(p) == p \in Window!Told(there, from) /\ Window!Loses(wh2, p, c)
           win == [p \in Lookers |->
                     IF closed(p) THEN Window!AutoClosed(there, p, c) ELSE s.window[p]]
           r == Window!Moved(s, c, to)
<1>1. /\ wh \in Whereabouts /\ s.window \in Views /\ Rooted(wh) /\ DepotsOut(wh)
      /\ AllInReach(wh, s.window, x1)
  BY DEF WindowsSettled
<1>2. c \in Window!Containers /\ c \notin Window!DepotSet
  BY ThingsDiffer
<1>3. there.where = wh2 /\ there.window = s.window
  OBVIOUS
<1>4. r = [where |-> wh2, window |-> win]
  <2>1. there = [where |-> wh2, window |-> s.window]
    OBVIOUS
  <2> HIDE DEF there
  <2>2. r = [there EXCEPT !.window = [p \in Lookers |->
              IF p \in Window!Told(there, from) /\ Window!Loses(there.where, p, c)
                THEN Window!AutoClosed(there, p, c) ELSE @[p]]]
    BY DEF Window!Moved, there
  <2>3. r = [where |-> wh2, window |-> [p \in Lookers |->
              IF p \in Window!Told(there, from) /\ Window!Loses(wh2, p, c)
                THEN Window!AutoClosed(there, p, c) ELSE s.window[p]]]
    <3> HIDE DEF wh2, r
    <3> QED BY <1>3, <2>1, <2>2
  <2> HIDE DEF wh2, r, from
  <2> QED BY <2>3
<1>5. /\ wh2 \in Whereabouts /\ Rooted(wh2)
      /\ \A e \in Window!Containers : c \in Window!Around(wh, e) =>
           /\ c \in Window!Around(wh2, e)
           /\ Window!Outermost(wh2, e) = Window!Outermost(wh2, c)
           /\ Window!Base(wh2, e) = Window!Base(wh2, c)
      /\ \A e \in Window!Containers : c \notin Window!Around(wh, e) =>
           /\ Window!Outermost(wh2, e) = Window!Outermost(wh, e)
           /\ Window!Base(wh2, e) = Window!Base(wh, e)
  <2> HIDE DEF wh
  <2> QED BY <1>1, <1>2, PutSomewhere DEF wh, PutThere
<1>6. DepotsOut(wh2)
  <2> HIDE DEF wh
  <2> QED BY <1>1, <1>2, ThingsDiffer DEF DepotsOut, Whereabouts
<1>7. (IF from \in Window!Containers THEN Window!Base(wh2, from) ELSE from) = Window!Base(wh, c)
  <2> HIDE DEF wh
  <2> QED BY <1>1, <1>2, OldBase DEF wh
<1> HIDE DEF wh2, from, there, r
<1>8. ASSUME NEW p \in Lookers, NEW w \in Windows
      PROVE  Window!AutoClosed(there, p, c)[w] \in {s.window[p][w], None}
  BY <1>3 DEF Window!AutoClosed
<1>9. \A p \in Lookers, w \in Windows : s.window[p][w] \in Window!Containers \cup {None}
  BY <1>1 DEF Views
<1>10. win \in Views
  <2>1. ASSUME NEW p \in Lookers
        PROVE  Window!AutoClosed(there, p, c) \in [Windows -> Window!Containers \cup {None}]
    <3>1. Window!AutoClosed(there, p, c) = [w \in Windows |-> Window!AutoClosed(there, p, c)[w]]
      BY DEF Window!AutoClosed
    <3>2. \A w \in Windows : Window!AutoClosed(there, p, c)[w] \in Window!Containers \cup {None}
      BY <1>8, <1>9
    <3> HIDE DEF win
    <3> QED BY <3>1, <3>2
  <2>2. \A p \in Lookers : s.window[p] \in [Windows -> Window!Containers \cup {None}]
    BY <1>1 DEF Views
  <2> HIDE DEF closed
  <2> QED BY <2>1, <2>2 DEF Views
<1>11. \A p \in Lookers : win[p] = IF closed(p) THEN Window!AutoClosed(there, p, c) ELSE s.window[p]
  OBVIOUS
<1> HIDE DEF win, wh
<1>12. ASSUME NEW p \in Lookers, NEW w \in Windows, win[p][w] # None
       PROVE  InReach(wh2, p, x1[p], win[p][w])
  <2> DEFINE e == s.window[p][w]
  <2>1. win[p][w] = e /\ e # None /\ e \in Window!Containers
    BY <1>8, <1>9, <1>11, <1>12
  <2>2. InReach(wh, p, x1[p], e)
    BY <1>1, <2>1 DEF AllInReach
  <2>3. CASE c \notin Window!Around(wh, e)
    BY <1>5, <2>1, <2>2, <2>3 DEF InReach
  <2>4. CASE c \in Window!Around(wh, e)
    <3>1. Window!Base(wh, e) = Window!Base(wh, c)
      <4>1. RootedAt(wh, e)
        BY <1>1, <2>1 DEF Rooted
      <4> QED BY <2>1, <2>4, <4>1, OutermostIs
    <3>2. p \in Window!Told(there, from)
      <4>1. /\ Window!Base(wh, c) # None
            /\ (Window!Base(wh, c) = p \/ Window!InRange(x1[p], Window!Base(wh, c)))
        BY <2>2, <3>1 DEF InReach
      <4> QED BY <1>3, <1>7, <4>1, WatcherIsTold
    <3>3. /\ c \in Window!Around(wh2, e) /\ Window!Outermost(wh2, e) = Window!Outermost(wh2, c)
          /\ Window!Base(wh2, e) = Window!Base(wh2, c)
      BY <1>5, <2>1, <2>4
    <3>4. ~Window!Loses(wh2, p, c)
      <4> SUFFICES ASSUME Window!Loses(wh2, p, c) PROVE FALSE
        OBVIOUS
      <4>1. win[p] = Window!AutoClosed(there, p, c)
        BY <1>11, <3>2
      <4>2. Window!AutoClosed(there, p, c)[w] = None
        BY <1>3, <2>1, <3>3 DEF Window!AutoClosed
      <4> QED BY <1>12, <4>1, <4>2
    <3>5. /\ Window!Base(wh2, c) # None /\ Window!InRange(x1[p], Window!PositionOf(wh2, c))
          /\ Window!Base(wh2, c) \notin Lookers \ {p}
          /\ Window!Outermost(wh2, c) \notin Window!DepotSet \ {Depots[p]}
      BY <3>4 DEF Window!Loses, Window!IsRemoved
    <3>6. Window!Base(wh2, c) = p \/ Window!InRange(x1[p], Window!Base(wh2, c))
      BY <3>5 DEF Window!PositionOf
    <3> QED BY <2>1, <3>3, <3>5, <3>6 DEF InReach
  <2> QED BY <2>3, <2>4
<1>13. r.where = wh2 /\ r.window = win /\ r \in [where : Whereabouts, window : Views]
  BY <1>4, <1>5, <1>10
<1>14. WindowsSettled(wh2, win, x1)
  BY <1>5, <1>6, <1>10, <1>12 DEF WindowsSettled, AllInReach
<1> QED BY <1>13, <1>14 DEF r, wh2, wh
-----------------------------------------------------------------------------
LEMMA WindowInit == Window!Init => WindowInv
<1> SUFFICES ASSUME Window!Init PROVE WindowInv
  OBVIOUS
<1>1. Window!TypeOK
  BY DEF Window!Init, Window!TypeOK
<1>2. x2 \in Whereabouts /\ x3 \in Views
  BY <1>1 DEF Window!TypeOK, Whereabouts, Views
<1>3. Rooted(x2)
  BY AroundIs, ThingsDiffer DEF Window!Init, Rooted, RootedAt
<1>4. DepotsOut(x2)
  BY ThingsDiffer DEF Window!Init, DepotsOut
<1>5. AllInReach(x2, x3, x1)
  BY DEF Window!Init, AllInReach
<1> QED BY <1>1, <1>2, <1>3, <1>4, <1>5 DEF WindowInv, WindowsSettled

LEMMA TypesFromSettled ==
  ASSUME x1' \in [Lookers -> Places \cup {None}], WindowsSettled(x2', x3', x1')
  PROVE  WindowInv'
BY DEF WindowInv, Window!TypeOK, WindowsSettled, Whereabouts, Views

LEMMA StateIsSettled ==
  ASSUME WindowInv
  PROVE  /\ Window!State \in [where : Whereabouts, window : Views]
         /\ Window!State.where = x2 /\ Window!State.window = x3
         /\ Window!TypeOK /\ WindowsSettled(x2, x3, x1)
BY DEF WindowInv, Window!State, WindowsSettled

LEMMA LedToWindows ==
  ASSUME WindowInv, NEW r, Window!Become(r), WindowsSettled(r.where, r.window, x1), UNCHANGED x1
  PROVE  WindowInv'
<1>1. WindowsSettled(x2', x3', x1')
  BY DEF Window!Become
<1> QED BY <1>1, TypesFromSettled DEF WindowInv, Window!TypeOK

LEMMA MoveContainerKeeps ==
  ASSUME WindowInv, NEW c \in Bags, NEW to, Window!MoveItem(c, to)
  PROVE  WindowInv'
<1>1. /\ to \in Lookers \cup Places \cup Window!Containers \cup {None}
      /\ to \in Window!Containers => c \notin Window!Around(x2, to)
  BY ThingsDiffer DEF Window!MoveItem, Window!Holders
<1>2. WindowsSettled(Window!Moved(Window!State, c, to).where,
                     Window!Moved(Window!State, c, to).window, x1)
  BY <1>1, StateIsSettled, ContainerMovedKeeps
<1> QED BY <1>2, LedToWindows DEF Window!MoveItem

LEMMA RemoveContainerKeeps ==
  ASSUME WindowInv, NEW c \in Bags, Window!RemoveItem(c)
  PROVE  WindowInv'
<1>1. /\ None \in Lookers \cup Places \cup Window!Containers \cup {None}
      /\ None \notin Window!Containers
  BY ThingsDiffer
<1>2. WindowsSettled(Window!Moved(Window!State, c, None).where,
                     Window!Moved(Window!State, c, None).window, x1)
  BY <1>1, StateIsSettled, ContainerMovedKeeps
<1> QED BY <1>2, LedToWindows DEF Window!RemoveItem

LEMMA ExchangeContainersKeeps ==
  ASSUME WindowInv, NEW c \in Bags, NEW d \in Bags, Window!Exchange(c, d)
  PROVE  WindowInv'
<1> DEFINE given == Window!Moved(Window!State, d, x2[c])
           r == Window!Moved(given, c, x2[d])
<1>1. /\ c # d /\ d \notin Window!Around(x2, c) /\ x2[d] \in Lookers /\ Window!Become(r)
      /\ UNCHANGED x1
  BY DEF Window!Exchange
<1>2. /\ x2[c] \in Lookers \cup Places \cup Window!Containers \cup {None}
      /\ x2[c] \in Window!Containers => d \notin Window!Around(x2, x2[c])
  <2>1. c \in Window!Containers /\ x2 \in Whereabouts
    BY StateIsSettled, ThingsDiffer DEF WindowsSettled
  <2>2. x2[c] \in Window!Containers => Window!Around(x2, x2[c]) \subseteq Window!Around(x2, c)
    BY <2>1, AroundStep
  <2> QED BY <1>1, <2>1, <2>2 DEF Whereabouts
<1>3. /\ given \in [where : Whereabouts, window : Views]
      /\ WindowsSettled(given.where, given.window, x1)
  BY <1>2, StateIsSettled, ContainerMovedKeeps
<1>4. /\ x2[d] \in Lookers \cup Places \cup Window!Containers \cup {None}
      /\ x2[d] \notin Window!Containers
  BY <1>1, ThingsDiffer
<1> HIDE DEF given
<1>5. WindowsSettled(r.where, r.window, x1)
  BY <1>3, <1>4, StateIsSettled, ContainerMovedKeeps
<1> QED BY <1>1, <1>5, LedToWindows

LEMMA CreateContainerKeeps ==
  ASSUME WindowInv, NEW c \in Bags, NEW place \in Places, Window!CreateItem(c, place)
  PROVE  WindowInv'
<1>1. /\ x2 \in Whereabouts /\ x3 \in Views /\ Rooted(x2) /\ DepotsOut(x2)
      /\ AllInReach(x2, x3, x1) /\ x1 \in [Lookers -> Places \cup {None}]
  BY DEF WindowInv, WindowsSettled, Window!TypeOK
<1>2. Window!Base(x2, c) = None /\ x2' = [x2 EXCEPT ![c] = place] /\ UNCHANGED <<x1, x3>>
  BY DEF Window!CreateItem, Window!IsRemoved
<1>3. c \in Window!Containers /\ c \notin Window!DepotSet /\ place \notin Window!Containers
      /\ place \in Lookers \cup Places \cup Window!Containers \cup {None}
  BY ThingsDiffer
<1>4. /\ x2' \in Whereabouts /\ Rooted(x2')
      /\ \A e \in Window!Containers : c \notin Window!Around(x2, e) =>
           /\ Window!Outermost(x2', e) = Window!Outermost(x2, e)
           /\ Window!Base(x2', e) = Window!Base(x2, e)
  <2> DEFINE put == [x2 EXCEPT ![c] = place]
  <2>1. /\ put \in Whereabouts /\ Rooted(put)
        /\ \A e \in Window!Containers : c \notin Window!Around(x2, e) =>
             /\ Window!Outermost(put, e) = Window!Outermost(x2, e)
             /\ Window!Base(put, e) = Window!Base(x2, e)
    <3>1. PutThere(x2, c, place, put)
      BY <1>1, <1>3, PutSomewhere
    <3> HIDE DEF put
    <3> QED BY <3>1 DEF PutThere
  <2>2. x2' = put
    BY <1>2
  <2> HIDE DEF put
  <2> QED BY <2>1, <2>2
<1>5. DepotsOut(x2')
  BY <1>1, <1>2, <1>3, ThingsDiffer DEF DepotsOut, Whereabouts
<1>6. ASSUME NEW p \in Lookers, NEW w \in Windows, x3'[p][w] # None
      PROVE  InReach(x2', p, x1'[p], x3'[p][w])
  <2> DEFINE e == x3[p][w]
  <2>1. e \in Window!Containers /\ InReach(x2, p, x1[p], e) /\ x3'[p][w] = e /\ RootedAt(x2, e)
    BY <1>1, <1>2, <1>6 DEF AllInReach, Views, Rooted
  <2>2. c \notin Window!Around(x2, e)
    BY <1>2, <2>1, OutermostIs DEF InReach
  <2> QED BY <1>2, <1>4, <2>1, <2>2 DEF InReach
<1>7. WindowsSettled(x2', x3', x1')
  BY <1>1, <1>2, <1>4, <1>5, <1>6 DEF WindowsSettled, AllInReach
<1> QED BY <1>1, <1>2, <1>7, TypesFromSettled

LEMMA LookerMovesKeeps ==
  ASSUME WindowInv, NEW p \in Lookers, NEW place \in Places, Window!Moves(p, place)
  PROVE  WindowInv'
<1> DEFINE Left(c) == /\ c # None /\ Window!Base(x2, c) # p
                      /\ ~Window!InRange(place, Window!PositionOf(x2, c))
<1>1. /\ x2 \in Whereabouts /\ x3 \in Views /\ Rooted(x2) /\ DepotsOut(x2)
      /\ AllInReach(x2, x3, x1) /\ x1 \in [Lookers -> Places \cup {None}]
  BY DEF WindowInv, WindowsSettled, Window!TypeOK
<1>2. /\ x1' = [x1 EXCEPT ![p] = place] /\ UNCHANGED x2
      /\ x3' = [x3 EXCEPT ![p] = [w \in Windows |-> IF Left(x3[p][w]) THEN None ELSE x3[p][w]]]
  BY <1>1 DEF Window!Moves, Views
<1> DEFINE row == [w \in Windows |-> IF Left(x3[p][w]) THEN None ELSE x3[p][w]]
<1> HIDE DEF Left
<1>3. row \in [Windows -> Window!Containers \cup {None}]
  BY <1>1 DEF Views
<1>4. \A w \in Windows : row[w] = IF Left(x3[p][w]) THEN None ELSE x3[p][w]
  OBVIOUS
<1> HIDE DEF row
<1>5. /\ x3' \in Views /\ x3'[p] = row
      /\ \A q \in Lookers : q # p => x3'[q] = x3[q]
  BY <1>1, <1>2, <1>3 DEF Views, row
<1>6. /\ x1' \in [Lookers -> Places \cup {None}] /\ x1'[p] = place
      /\ \A q \in Lookers : q # p => x1'[q] = x1[q]
  BY <1>1, <1>2
<1>7. ASSUME NEW q \in Lookers, NEW w \in Windows, x3'[q][w] # None
      PROVE  InReach(x2', q, x1'[q], x3'[q][w])
  <2>1. CASE q # p
    <3>1. x3'[q][w] = x3[q][w] /\ x1'[q] = x1[q]
      BY <1>5, <1>6, <2>1
    <3>2. InReach(x2, q, x1[q], x3[q][w])
      BY <1>1, <1>7, <3>1 DEF AllInReach
    <3> QED BY <1>2, <3>1, <3>2
  <2>2. CASE q = p
    <3> DEFINE e == x3[p][w]
    <3>1. x3'[q][w] = e /\ ~Left(e) /\ e # None /\ x1'[q] = place
      BY <1>4, <1>5, <1>6, <1>7, <2>2
    <3>2. InReach(x2, p, x1[p], e)
      BY <1>1, <3>1 DEF AllInReach
    <3>3. Window!Base(x2, e) = p \/ Window!InRange(place, Window!Base(x2, e))
      <4>1. CASE Window!Base(x2, e) \in Lookers
        BY <3>2, <4>1, ThingsDiffer DEF InReach, Window!InRange
      <4>2. CASE Window!Base(x2, e) \notin Lookers
        BY <3>1, <4>2 DEF Left, Window!PositionOf
      <4> QED BY <4>1, <4>2
    <3> QED BY <1>2, <2>2, <3>1, <3>2, <3>3 DEF InReach
  <2> QED BY <2>1, <2>2
<1>8. WindowsSettled(x2', x3', x1')
  BY <1>1, <1>2, <1>5, <1>7 DEF WindowsSettled, AllInReach
<1> QED BY <1>6, <1>8, TypesFromSettled

LEMMA LookerAppearKeeps ==
  ASSUME WindowInv, NEW p \in Lookers, NEW place \in Places, Window!Appear(p, place)
  PROVE  WindowInv'
<1>1. /\ x2 \in Whereabouts /\ x3 \in Views /\ Rooted(x2) /\ DepotsOut(x2)
      /\ AllInReach(x2, x3, x1) /\ x1 \in [Lookers -> Places \cup {None}]
  BY DEF WindowInv, WindowsSettled, Window!TypeOK
<1>2. x1[p] = None /\ x1' = [x1 EXCEPT ![p] = place] /\ UNCHANGED <<x2, x3>>
  BY DEF Window!Appear
<1>3. /\ x1' \in [Lookers -> Places \cup {None}]
      /\ \A q \in Lookers : q # p => x1'[q] = x1[q]
  BY <1>1, <1>2
<1>4. ASSUME NEW q \in Lookers, NEW w \in Windows, x3'[q][w] # None
      PROVE  InReach(x2', q, x1'[q], x3'[q][w])
  <2>1. x3'[q][w] = x3[q][w] /\ InReach(x2, q, x1[q], x3[q][w])
    BY <1>1, <1>2, <1>4 DEF AllInReach
  <2>2. CASE q # p
    BY <1>2, <1>3, <2>1, <2>2
  <2>3. CASE q = p
    <3>1. ~Window!InRange(x1[p], Window!Base(x2, x3[q][w]))
      BY <1>2, ThingsDiffer DEF Window!InRange
    <3> QED BY <1>2, <2>1, <2>3, <3>1 DEF InReach
  <2> QED BY <2>2, <2>3
<1>5. WindowsSettled(x2', x3', x1')
  BY <1>1, <1>2, <1>4 DEF WindowsSettled, AllInReach
<1> QED BY <1>3, <1>5, TypesFromSettled

LEMMA LookerDisappearKeeps ==
  ASSUME WindowInv, NEW p \in Lookers, Window!Disappear(p)
  PROVE  WindowInv'
<1> DEFINE Lost(c) == Window!Base(x2, c) = p \/ Window!Outermost(x2, c) = Depots[p]
<1>1. /\ x2 \in Whereabouts /\ x3 \in Views /\ Rooted(x2) /\ DepotsOut(x2)
      /\ AllInReach(x2, x3, x1) /\ x1 \in [Lookers -> Places \cup {None}]
  BY DEF WindowInv, WindowsSettled, Window!TypeOK
<1>2. /\ x1' = [x1 EXCEPT ![p] = None]
      /\ x3' = [x3 EXCEPT ![p] = [w \in Windows |-> None]]
      /\ x2' = [c \in Window!Containers |-> IF Lost(c) THEN None ELSE x2[c]]
  BY DEF Window!Disappear
<1> HIDE DEF Lost
<1>3. /\ x2' \in Whereabouts
      /\ \A c \in Window!Containers : x2'[c] = IF Lost(c) THEN None ELSE x2[c]
  BY <1>1, <1>2 DEF Whereabouts
<1>4. /\ x3' \in Views /\ (\A w \in Windows : x3'[p][w] = None)
      /\ \A q \in Lookers : q # p => x3'[q] = x3[q]
  BY <1>1, <1>2 DEF Views
<1>5. /\ x1' \in [Lookers -> Places \cup {None}]
      /\ \A q \in Lookers : q # p => x1'[q] = x1[q]
  BY <1>1, <1>2
<1>6. ASSUME NEW c \in Window!Containers, ~Lost(c)
      PROVE  /\ RootedAt(x2', c)
             /\ Window!Outermost(x2', c) = Window!Outermost(x2, c)
             /\ Window!Base(x2', c) = Window!Base(x2, c)
  <2>1. RootedAt(x2, c)
    BY <1>1 DEF Rooted
  <2>2. ASSUME NEW x \in Window!Around(x2, c) PROVE x2'[x] = x2[x]
    <3>1. x \in Window!Containers
      BY AroundIs
    <3>2. /\ Window!Outermost(x2, x) = Window!Outermost(x2, c)
          /\ Window!Base(x2, x) = Window!Base(x2, c)
      BY <2>1, OutermostIs
    <3>3. ~Lost(x)
      BY <1>6, <3>2 DEF Lost
    <3> QED BY <1>3, <3>1, <3>3
  <2> QED BY <2>1, <2>2, Unmoved
<1>7. Rooted(x2')
  <2>1. ASSUME NEW c \in Window!Containers, Lost(c) PROVE RootedAt(x2', c)
    <3>1. x2'[c] \notin Window!Containers
      BY <1>3, <2>1, ThingsDiffer
    <3> QED BY <3>1, AroundIs DEF RootedAt
  <2> QED BY <1>6, <2>1 DEF Rooted
<1>8. DepotsOut(x2')
  BY <1>1, <1>3, ThingsDiffer DEF DepotsOut
<1>9. ASSUME NEW q \in Lookers, NEW w \in Windows, x3'[q][w] # None
      PROVE  InReach(x2', q, x1'[q], x3'[q][w])
  <2> DEFINE e == x3[q][w]
  <2>1. q # p
    BY <1>4, <1>9
  <2>2. x3'[q][w] = e /\ e \in Window!Containers /\ InReach(x2, q, x1[q], e) /\ x1'[q] = x1[q]
    BY <1>1, <1>4, <1>5, <1>9, <2>1 DEF AllInReach, Views
  <2>3. Window!Base(x2, e) # p
    BY <2>1, <2>2, ThingsDiffer DEF InReach, Window!InRange
  <2>4. Window!Outermost(x2, e) # Depots[p]
    BY <2>1, <2>2, ThingsDiffer DEF InReach
  <2>5. /\ Window!Outermost(x2', e) = Window!Outermost(x2, e)
        /\ Window!Base(x2', e) = Window!Base(x2, e)
    BY <1>6, <2>2, <2>3, <2>4 DEF Lost
  <2> QED BY <2>2, <2>5 DEF InReach
<1>10. WindowsSettled(x2', x3', x1')
  BY <1>3, <1>4, <1>7, <1>8, <1>9 DEF WindowsSettled, AllInReach
<1> QED BY <1>5, <1>10, TypesFromSettled

(* What Toggled makes of a window.                                         *)
LEMMA ToggledIs ==
  ASSUME x3 \in Views, NEW p \in Lookers, NEW c \in Window!Containers, NEW w \in Windows
  PROVE  /\ Window!Toggled(p, c, w) \in Views
         /\ \A q \in Lookers, v \in Windows :
              \/ Window!Toggled(p, c, w)[q][v] \in {x3[q][v], None}
              \/ q = p /\ Window!Toggled(p, c, w)[q][v] = c
<1> DEFINE open == {v \in Windows : x3[p][v] = c}
           x == CHOOSE v \in open : \A u \in open : v <= u
<1>1. CASE open = {}
  <2>1. Window!Toggled(p, c, w) = [x3 EXCEPT ![p][w] = c]
    BY <1>1 DEF Window!Toggled
  <2> QED BY <2>1 DEF Views
<1>2. CASE open # {}
  <2>1. Window!Toggled(p, c, w) = [x3 EXCEPT ![p][x] = None]
    BY <1>2 DEF Window!Toggled
  <2> DEFINE row == [x3[p] EXCEPT ![x] = None]
  <2> HIDE DEF x
  <2>2. x3[p] \in [Windows -> Window!Containers \cup {None}]
    BY DEF Views
  <2>3. /\ row \in [Windows -> Window!Containers \cup {None}]
        /\ \A v \in Windows : row[v] \in {x3[p][v], None}
    BY <2>2
  <2>4. Window!Toggled(p, c, w) = [x3 EXCEPT ![p] = row]
    BY <2>1
  <2> HIDE DEF row
  <2>5. /\ [x3 EXCEPT ![p] = row] \in Views
        /\ \A q \in Lookers : [x3 EXCEPT ![p] = row][q] = IF q = p THEN row ELSE x3[q]
    BY <2>3 DEF Views
  <2> QED BY <2>3, <2>4, <2>5
<1> QED BY <1>1, <1>2

(* A window more to what is near.                                          *)
LEMMA WindowOpened ==
  ASSUME WindowInv, UNCHANGED <<x1, x2>>, x3' \in Views, NEW p \in Lookers,
         NEW c \in Window!Containers,
         InReach(x2, p, x1[p], c),
         \A q \in Lookers, v \in Windows :
           \/ x3'[q][v] \in {x3[q][v], None}
           \/ q = p /\ x3'[q][v] = c
  PROVE  WindowInv'
<1>1. /\ x2 \in Whereabouts /\ x3 \in Views /\ Rooted(x2) /\ DepotsOut(x2)
      /\ AllInReach(x2, x3, x1) /\ x1 \in [Lookers -> Places \cup {None}]
  BY DEF WindowInv, WindowsSettled, Window!TypeOK
<1>2. ASSUME NEW q \in Lookers, NEW v \in Windows, x3'[q][v] # None
      PROVE  InReach(x2, q, x1[q], x3'[q][v])
  BY <1>1, <1>2 DEF AllInReach
<1>3. WindowsSettled(x2', x3', x1')
  BY <1>1, <1>2 DEF WindowsSettled, AllInReach
<1> QED BY <1>1, <1>3, TypesFromSettled

LEMMA OpenContainerKeeps ==
  ASSUME WindowInv, NEW p \in Lookers, NEW c \in Bags,
         NEW w \in Windows, Window!OpenContainer(p, c, w)
  PROVE  WindowInv'
<1>1. /\ x2 \in Whereabouts /\ x3 \in Views /\ Rooted(x2) /\ AllInReach(x2, x3, x1)
  BY DEF WindowInv, WindowsSettled
<1>2. Window!CanUse(p, c) /\ x3' = Window!Toggled(p, c, w) /\ UNCHANGED <<x1, x2>>
  BY DEF Window!OpenContainer
<1>3. c \in Window!Containers /\ c \notin Window!DepotSet /\ RootedAt(x2, c)
  BY <1>1, ThingsDiffer DEF Rooted
<1>4. InReach(x2, p, x1[p], c)
  <2>1. CASE x2[c] \notin Window!Containers
    <3>1. Window!Outermost(x2, c) = c /\ Window!Base(x2, c) = x2[c]
      BY <1>3, <2>1, OutermostIs DEF Window!Base
    <3>2. x2[c] = p \/ (x2[c] \in Places /\ Window!InRange(x1[p], x2[c]))
      BY <1>1, <1>2, <2>1, ThingsDiffer DEF Window!CanUse, Views
    <3> QED BY <1>3, <3>1, <3>2, ThingsDiffer DEF InReach
  <2>2. CASE x2[c] \in Window!Containers
    <3>1. PICK v \in Windows : x3[p][v] = x2[c]
      BY <1>2, <2>2, ThingsDiffer DEF Window!CanUse
    <3>2. InReach(x2, p, x1[p], x2[c])
      BY <1>1, <2>2, <3>1, ThingsDiffer DEF AllInReach
    <3>3. x2[c] \in Window!Around(x2, c)
      BY <1>3, <2>2, AroundIs DEF ClosedUp
    <3>4. /\ Window!Outermost(x2, x2[c]) = Window!Outermost(x2, c)
          /\ Window!Base(x2, x2[c]) = Window!Base(x2, c)
      BY <1>3, <3>3, OutermostIs
    <3> QED BY <3>2, <3>4 DEF InReach
  <2> QED BY <2>1, <2>2
<1> QED BY <1>1, <1>2, <1>3, <1>4, ToggledIs, WindowOpened

LEMMA MoveUpContainerKeeps ==
  ASSUME WindowInv, NEW p \in Lookers, NEW w \in Windows, Window!MoveUpContainer(p, w)
  PROVE  WindowInv'
<1> DEFINE c == x3[p][w]
           d == x2[c]
<1>1. /\ x2 \in Whereabouts /\ x3 \in Views /\ Rooted(x2) /\ AllInReach(x2, x3, x1)
  BY DEF WindowInv, WindowsSettled
<1>2. c # None /\ c \in Window!Containers /\ d \in Window!Containers
      /\ x3' = [x3 EXCEPT ![p][w] = d] /\ UNCHANGED <<x1, x2>>
  BY <1>1 DEF Window!MoveUpContainer, Views
<1>3. InReach(x2, p, x1[p], c) /\ RootedAt(x2, c)
  BY <1>1, <1>2 DEF AllInReach, Rooted
<1> HIDE DEF c
<1>4. d \in Window!Around(x2, c)
  BY <1>2, AroundIs DEF ClosedUp
<1>5. Window!Outermost(x2, d) = Window!Outermost(x2, c) /\ Window!Base(x2, d) = Window!Base(x2, c)
  BY <1>2, <1>3, <1>4, OutermostIs
<1>6. InReach(x2, p, x1[p], d)
  BY <1>3, <1>5 DEF InReach
<1> HIDE DEF d
<1>7. x3' \in Views /\ \A q \in Lookers, v \in Windows :
        \/ x3'[q][v] \in {x3[q][v], None}
        \/ q = p /\ x3'[q][v] = d
  BY <1>1, <1>2 DEF Views
<1> QED BY <1>2, <1>6, <1>7, WindowOpened

LEMMA CloseContainerKeeps ==
  ASSUME WindowInv, NEW p \in Lookers, NEW w \in Windows, Window!CloseContainer(p, w)
  PROVE  WindowInv'
<1> DEFINE c == x3[p][w]
<1>1. x3 \in Views /\ AllInReach(x2, x3, x1)
  BY DEF WindowInv, WindowsSettled
<1>2. /\ c # None /\ c \in Window!Containers /\ x3' = [x3 EXCEPT ![p][w] = None]
      /\ UNCHANGED <<x1, x2>>
  BY <1>1 DEF Window!CloseContainer, Views
<1>3. InReach(x2, p, x1[p], c)
  BY <1>1, <1>2 DEF AllInReach
<1> HIDE DEF c
<1>4. x3' \in Views /\ \A q \in Lookers, v \in Windows :
        \/ x3'[q][v] \in {x3[q][v], None}
        \/ q = p /\ x3'[q][v] = c
  BY <1>1, <1>2 DEF Views
<1> QED BY <1>2, <1>3, <1>4, WindowOpened

(* The depot comes to where its owner stands; only the owner looks into    *)
(* what is in it.                                                          *)
LEMMA OpenDepotKeeps ==
  ASSUME WindowInv, NEW p \in Lookers, NEW place \in Lockers,
         NEW w \in Windows, Window!OpenDepot(p, place, w)
  PROVE  WindowInv'
<1> DEFINE c == Depots[p]
<1>1. /\ x2 \in Whereabouts /\ x3 \in Views /\ Rooted(x2) /\ DepotsOut(x2)
      /\ AllInReach(x2, x3, x1) /\ x1 \in [Lookers -> Places \cup {None}]
  BY DEF WindowInv, WindowsSettled, Window!TypeOK
<1>2. /\ Window!InRange(x1[p], place) /\ x2' = [x2 EXCEPT ![c] = place]
      /\ x3' = Window!Toggled(p, c, w) /\ UNCHANGED x1
  BY DEF Window!OpenDepot
<1>3. c \in Window!Containers /\ place \notin Window!Containers /\ place \in Places /\ place # None
      /\ place \in Lookers \cup Places \cup Window!Containers \cup {None}
  BY WindowIsAssumed, ThingsDiffer DEF Window!WindowAssumption
<1>4. /\ x2' \in Whereabouts /\ Rooted(x2')
      /\ \A e \in Window!Containers : c \in Window!Around(x2, e) =>
           /\ c \in Window!Around(x2', e)
           /\ Window!Outermost(x2', e) = Window!Outermost(x2', c)
           /\ Window!Base(x2', e) = Window!Base(x2', c)
      /\ \A e \in Window!Containers : c \notin Window!Around(x2, e) =>
           /\ Window!Outermost(x2', e) = Window!Outermost(x2, e)
           /\ Window!Base(x2', e) = Window!Base(x2, e)
      /\ Window!Outermost(x2', c) = c /\ Window!Base(x2', c) = place
  <2> DEFINE put == [x2 EXCEPT ![c] = place]
  <2>1. /\ put \in Whereabouts /\ Rooted(put)
        /\ \A e \in Window!Containers : c \in Window!Around(x2, e) =>
             /\ c \in Window!Around(put, e)
             /\ Window!Outermost(put, e) = Window!Outermost(put, c)
             /\ Window!Base(put, e) = Window!Base(put, c)
        /\ \A e \in Window!Containers : c \notin Window!Around(x2, e) =>
             /\ Window!Outermost(put, e) = Window!Outermost(x2, e)
             /\ Window!Base(put, e) = Window!Base(x2, e)
        /\ Window!Outermost(put, c) = c /\ Window!Base(put, c) = place
    <3> HIDE DEF c
    <3>1. PutThere(x2, c, place, put)
      BY <1>1, <1>3, PutSomewhere
    <3> HIDE DEF put
    <3> QED BY <1>3, <3>1 DEF PutThere
  <2>2. x2' = put
    BY <1>2
  <2> HIDE DEF put
  <2> QED BY <2>1, <2>2
<1>5. DepotsOut(x2')
  BY <1>1, <1>2, <1>3, ThingsDiffer DEF DepotsOut, Whereabouts
<1>6. /\ x3' \in Views
      /\ \A q \in Lookers, v \in Windows :
           \/ x3'[q][v] \in {x3[q][v], None}
           \/ q = p /\ x3'[q][v] = c
  <2> HIDE DEF c
  <2> QED BY <1>1, <1>2, <1>3, ToggledIs
<1>7. x2[c] \notin Window!Containers
  BY <1>1, ThingsDiffer DEF DepotsOut
<1>8. InReach(x2', p, x1[p], c)
  BY <1>2, <1>3, <1>4 DEF InReach
<1>9. ASSUME NEW q \in Lookers, NEW v \in Windows, x3'[q][v] # None
      PROVE  InReach(x2', q, x1'[q], x3'[q][v])
  <2> DEFINE e == x3[q][v]
  <2>1. CASE q = p /\ x3'[q][v] = c
    BY <1>2, <1>8, <2>1
  <2>2. CASE x3'[q][v] = e
    <3>1. e \in Window!Containers /\ InReach(x2, q, x1[q], e) /\ RootedAt(x2, e)
      BY <1>1, <1>9, <2>2 DEF AllInReach, Views, Rooted
    <3>2. CASE c \notin Window!Around(x2, e)
      BY <1>2, <1>4, <2>2, <3>1, <3>2 DEF InReach
    <3>3. CASE c \in Window!Around(x2, e)
      <4>1. Window!Outermost(x2, e) = c
        <5> HIDE DEF c, e
        <5> QED BY <1>3, <1>7, <3>1, <3>3, RootIsOne
      <4>2. q = p
        BY <3>1, <4>1, ThingsDiffer DEF InReach
      <4>3. Window!Outermost(x2', e) = c /\ Window!Base(x2', e) = place
        BY <1>4, <3>1, <3>3
      <4> QED BY <1>2, <1>3, <2>2, <4>2, <4>3 DEF InReach
    <3> QED BY <3>2, <3>3
  <2> QED BY <1>6, <1>9, <2>1, <2>2
<1>10. WindowsSettled(x2', x3', x1')
  BY <1>4, <1>5, <1>6, <1>9 DEF WindowsSettled, AllInReach
<1> QED BY <1>1, <1>2, <1>10, TypesFromSettled

LEMMA WindowStepKeeps == WindowInv /\ Window!Next => WindowInv'
<1> SUFFICES ASSUME WindowInv, Window!Next PROVE WindowInv'
  OBVIOUS
<1>1. ASSUME NEW p \in Lookers, Window!PlayerStep(p) PROVE WindowInv'
  BY <1>1, LookerMovesKeeps, LookerAppearKeeps, LookerDisappearKeeps, OpenContainerKeeps,
     OpenDepotKeeps,
     CloseContainerKeeps, MoveUpContainerKeeps DEF Window!PlayerStep
<1>2. ASSUME NEW c \in Bags, Window!BagStep(c) PROVE WindowInv'
  BY <1>2, MoveContainerKeeps, ExchangeContainersKeeps, RemoveContainerKeeps,
     CreateContainerKeeps DEF Window!BagStep
<1> QED BY <1>1, <1>2 DEF Window!Next

LEMMA WindowInvStutters == WindowInv /\ Untouched => WindowInv'
BY DEF WindowInv, Window!TypeOK, Untouched

LEMMA WindowInvIsEnough == WindowInv => Window!TypeOK /\ Window!WindowsInReach
BY DEF WindowInv, WindowsSettled, AllInReach, InReach, Window!WindowsInReach, Window!IsRemoved

-----------------------------------------------------------------------------
(* Decay.  The listings of an item, one mark for each, and their number.   *)
Ring == 0 .. K - 1
Lists == [Ring -> 0 .. MaxListings + 1]
Marks(f) == {l \in Ring \X (1 .. MaxListings + 1) : l[2] <= f[l[1]]}
MarkCount(f) == Cardinality(Marks(f))

LEMMA DecayConstants ==
  /\ K \in Nat /\ K > 1 /\ MaxListings \in Nat /\ Ring = Decay!Buckets
  /\ Vanished \notin Types /\ Never \notin Types
  /\ \A t \in Types : /\ DecayTime[t] \in Nat /\ DecayTo[t] \in Types \cup {Vanished, Never}
                      /\ DecayTime[t] > 0 => t \notin StopTime
BY PartsAssumption DEF Decay!DecayAssumption, Decay!Buckets, Ring

LEMMA MarksFinite ==
  ASSUME NEW f
  PROVE  IsFiniteSet(Marks(f)) /\ MarkCount(f) \in Nat
<1>1. IsFiniteSet(Ring) /\ IsFiniteSet(1 .. MaxListings + 1)
  <2> DEFINE last == K - 1
             more == MaxListings + 1
  <2>1. last \in Int /\ more \in Int /\ 0 \in Int /\ 1 \in Int
    BY DecayConstants
  <2> HIDE DEF last, more
  <2>2. IsFiniteSet(0 .. last) /\ IsFiniteSet(1 .. more)
    BY <2>1, FS_Interval, Zenon
  <2> QED BY <2>2 DEF Ring, last, more
<1>2. IsFiniteSet(Ring \X (1 .. MaxListings + 1))
  BY <1>1, FS_Product
<1>3. Marks(f) \subseteq Ring \X (1 .. MaxListings + 1)
  BY DEF Marks
<1> QED BY <1>2, <1>3, FS_Subset, FS_CardinalityType DEF MarkCount

(* An item that is listed n times more has n marks more.                   *)
LEMMA MarksChange ==
  ASSUME NEW f \in Lists, NEW g \in Lists, NEW b \in Ring, NEW n \in Nat,
         g[b] = f[b] + n, \A c \in Ring : c # b => g[c] = f[c]
  PROVE  MarkCount(g) = MarkCount(f) + n
<1> DEFINE I == f[b] + 1 .. f[b] + n
           New == {b} \X I
<1>0. f[b] \in Nat /\ g[b] \in Nat /\ g[b] <= MaxListings + 1 /\ MaxListings \in Nat
  BY DecayConstants DEF Lists
<1>1. Marks(g) = Marks(f) \cup New
  <2>1. ASSUME NEW c \in Ring, NEW k \in 1 .. MaxListings + 1
        PROVE  k <= g[c] <=> k <= f[c] \/ (c = b /\ k \in I)
    BY <1>0
  <2>2. New \subseteq Ring \X (1 .. MaxListings + 1)
    BY <1>0
  <2> HIDE DEF I
  <2> QED BY <2>1, <2>2 DEF Marks
<1>2. Marks(f) \cap New = {}
  BY <1>0 DEF Marks
<1>3. IsFiniteSet(I) /\ Cardinality(I) = n
  <2> DEFINE lo == f[b] + 1
             hi == f[b] + n
  <2>1. lo \in Int /\ hi \in Int /\ (IF lo > hi THEN 0 ELSE hi - lo + 1) = n
    BY <1>0
  <2>2. I = lo .. hi
    OBVIOUS
  <2> HIDE DEF lo, hi, I
  <2>3. IsFiniteSet(lo .. hi) /\ Cardinality(lo .. hi) = IF lo > hi THEN 0 ELSE hi - lo + 1
    BY <2>1, FS_Interval, Zenon
  <2> QED BY <2>1, <2>2, <2>3, Zenon
<1>4. IsFiniteSet(New) /\ Cardinality(New) = n
  <2> HIDE DEF I
  <2>1. IsFiniteSet({b}) /\ Cardinality({b}) = 1
    BY FS_Singleton
  <2>2. IsFiniteSet(New) /\ Cardinality(New) = Cardinality({b}) * Cardinality(I)
    BY <1>3, <2>1, FS_Product
  <2> QED BY <1>3, <2>1, <2>2
<1>5. IsFiniteSet(Marks(f)) /\ MarkCount(f) \in Nat
  BY MarksFinite
<1> HIDE DEF New
<1>6. Cardinality(Marks(f) \cup New)
        = Cardinality(Marks(f)) + Cardinality(New) - Cardinality(Marks(f) \cap New)
  BY <1>4, <1>5, FS_Union
<1>7. Cardinality(Marks(f) \cap New) = 0
  BY <1>2, FS_EmptySet, Zenon
<1>8. Cardinality(Marks(f) \cup New) = MarkCount(f) + n
  BY <1>4, <1>5, <1>6, <1>7 DEF MarkCount
<1> QED BY <1>1, <1>8 DEF MarkCount

LEMMA NoMarks ==
  ASSUME NEW f, \A c \in Ring : f[c] = 0
  PROVE  MarkCount(f) = 0
<1>1. Marks(f) = {}
  BY DecayConstants DEF Marks
<1> QED BY <1>1, FS_EmptySet DEF MarkCount

LEMMA MarksBound ==
  ASSUME NEW f \in Lists, NEW b \in Ring
  PROVE  /\ f[b] <= MarkCount(f)
         /\ \A c \in Ring : c # b => f[b] + f[c] <= MarkCount(f)
<1> DEFINE g == [f EXCEPT ![b] = 0]
<1>0. f[b] \in Nat /\ g \in Lists
  BY DecayConstants DEF Lists
<1>1. g[b] = 0 /\ \A c \in Ring : c # b => g[c] = f[c]
  BY DEF Lists
<1>2. MarkCount(f) = MarkCount(g) + f[b]
  <2>1. f[b] = g[b] + f[b]
    BY <1>0, <1>1
  <2> HIDE DEF g
  <2> QED BY <1>0, <1>1, <2>1, MarksChange
<1>3. MarkCount(g) \in Nat
  BY MarksFinite
<1>4. ASSUME NEW c \in Ring, c # b
      PROVE  f[c] <= MarkCount(g)
  <2> DEFINE h == [g EXCEPT ![c] = 0]
  <2>1. h \in Lists /\ g[c] \in Nat
    BY <1>0, DecayConstants DEF Lists
  <2>2. h[c] = 0 /\ \A d \in Ring : d # c => h[d] = g[d]
    BY <1>0 DEF Lists
  <2>3. g[c] = h[c] + g[c]
    BY <2>1, <2>2
  <2> HIDE DEF h, g
  <2>4. MarkCount(g) = MarkCount(h) + g[c]
    BY <1>0, <2>1, <2>2, <2>3, MarksChange
  <2>5. MarkCount(h) \in Nat
    BY MarksFinite
  <2> QED BY <1>1, <1>4, <2>1, <2>4, <2>5
<1>5. ASSUME NEW c \in Ring, c # b
      PROVE  f[b] + f[c] <= MarkCount(f)
  <2>1. f[c] \in Nat
    BY DecayConstants DEF Lists
  <2> HIDE DEF g
  <2>2. f[c] <= MarkCount(g)
    BY <1>4, <1>5
  <2> QED BY <1>0, <1>2, <1>3, <2>1, <2>2
<1>6. f[b] <= MarkCount(f)
  BY <1>0, <1>2, <1>3
<1> QED BY <1>5, <1>6

LEMMA OneMark ==
  ASSUME NEW f \in Lists, NEW b \in Ring, f[b] >= 1, MarkCount(f) <= 1
  PROVE  MarkCount(f) = 1 /\ f[b] = 1 /\ \A c \in Ring : c # b => f[c] = 0
<1>1. f[b] <= MarkCount(f) /\ \A c \in Ring : c # b => f[b] + f[c] <= MarkCount(f)
  BY MarksBound
<1>2. MarkCount(f) \in Nat /\ \A c \in Ring : f[c] \in Nat
  BY MarksFinite, DecayConstants DEF Lists
<1> QED BY <1>1, <1>2
-----------------------------------------------------------------------------
(* What the operators on an item make of it.  Its listings, those on the   *)
(* way to a bucket included.                                               *)
ItemRecords ==
  [type : Types, duration : Nat \cup {-1}, decaying : BOOLEAN, inWorld : BOOLEAN,
   refs : Int, freed : Nat, toDecay : Nat, listings : Lists]
Count(i) == i.toDecay + MarkCount(i.listings)
World1(i) == IF i.inWorld = TRUE THEN 1 ELSE 0
SecondsLeft(i) == Decay!TimeLeft(i)

LEMMA ListingsIs ==
  ASSUME NEW i
  PROVE  Decay!Listings(i) = Count(i)
<1>1. \A S : Decay!Cardinality(S) = Cardinality(S)
  BY Zenon DEF Cardinality, Decay!Cardinality
<1> QED BY <1>1, DecayConstants DEF Decay!Listings, Count, MarkCount, Marks

LEMMA LeftIs ==
  ASSUME NEW i \in ItemRecords
  PROVE  /\ SecondsLeft(i) \in Nat /\ SecondsLeft(i) = IF i.duration = -1 THEN 0 ELSE i.duration
         /\ Count(i) \in Nat /\ Count(i) >= i.toDecay /\ MarkCount(i.listings) \in Nat
         /\ i.toDecay \in Nat /\ i.freed \in Nat /\ i.refs \in Int
BY MarksFinite DEF SecondsLeft, Decay!TimeLeft, Decay!NoTime, ItemRecords, Count

(* Out of the world; listed once more.                                     *)
OutOf(i, j) ==
  /\ j.listings = i.listings /\ j.inWorld = FALSE /\ j.freed = i.freed + 1
  /\ j.toDecay = i.toDecay /\ j.refs = i.refs /\ j.duration = i.duration
  /\ j.type = i.type /\ j.decaying = i.decaying

LEMMA RemovedIs ==
  ASSUME NEW i \in ItemRecords
  PROVE  Decay!Removed(i) \in ItemRecords /\ OutOf(i, Decay!Removed(i))
<1> DEFINE n == i.freed + 1
<1>1. n \in Nat /\ Decay!Removed(i) = [i EXCEPT !.inWorld = FALSE, !.freed = n]
  BY DEF ItemRecords, Decay!Removed
<1>2. Decay!Removed(i) \in ItemRecords
  <2> HIDE DEF n
  <2> QED BY <1>1 DEF ItemRecords
<1>3. OutOf(i, Decay!Removed(i))
  BY DEF ItemRecords, Decay!Removed, OutOf
<1> QED BY <1>2, <1>3

OnceMore(i, j) ==
  /\ j.listings = i.listings /\ j.inWorld = i.inWorld /\ j.freed = i.freed
  /\ j.toDecay = i.toDecay + 1 /\ j.refs = i.refs + 1 /\ j.duration = i.duration
  /\ j.type = i.type /\ j.decaying = TRUE

LEMMA ListedIs ==
  ASSUME NEW i \in ItemRecords
  PROVE  Decay!Listed(i) \in ItemRecords /\ OnceMore(i, Decay!Listed(i))
<1> DEFINE n == i.toDecay + 1
           m == i.refs + 1
<1>1. /\ n \in Nat /\ m \in Int
      /\ Decay!Listed(i) = [i EXCEPT !.decaying = TRUE, !.toDecay = n, !.refs = m]
  BY DEF ItemRecords, Decay!Listed
<1>2. Decay!Listed(i) \in ItemRecords
  <2> HIDE DEF n, m
  <2> QED BY <1>1 DEF ItemRecords
<1>3. OnceMore(i, Decay!Listed(i))
  BY DEF ItemRecords, Decay!Listed, OnceMore
<1> QED BY <1>2, <1>3

(* The counts agree, and nobody thinks it is decaying in vain.             *)
Counted(i) == i.refs = Count(i) + i.freed + World1(i)
Sought(i) == i.decaying = TRUE /\ SecondsLeft(i) > 0 => Count(i) > 0

(* setID: the time is touched exactly when the item stops decaying.        *)
SetsTime(i, t) == Decay!Plain(t) \/ Decay!TimesAnew(i, t)
NewId(i, t, j) ==
  /\ j.inWorld = i.inWorld /\ j.refs = i.refs /\ j.freed = i.freed
  /\ j.toDecay = i.toDecay /\ j.listings = i.listings
  /\ SetsTime(i, t) => j.decaying = FALSE
  /\ ~SetsTime(i, t) => j.decaying = i.decaying /\ j.duration = i.duration

LEMMA SetIDIs ==
  ASSUME NEW i \in ItemRecords, NEW t \in Types
  PROVE  Decay!SetID(i, t) \in ItemRecords /\ NewId(i, t, Decay!SetID(i, t))
<1>1. Decay!SetID(i, t) \in ItemRecords
  BY DecayConstants DEF Decay!SetID, Decay!NoTime, ItemRecords
<1>2. NewId(i, t, Decay!SetID(i, t))
  BY DecayConstants DEF NewId, SetsTime, Decay!SetID, Decay!NoTime, ItemRecords
<1> QED BY <1>1, <1>2

(* What startDecay and internalDecayItem do to an item: it is listed once  *)
(* more, or left alone, or taken out of the world.                         *)
ListedOnce(i, j) ==
  /\ j.listings = i.listings /\ j.inWorld = i.inWorld /\ j.freed = i.freed
  /\ j.toDecay = i.toDecay + 1 /\ j.refs = i.refs + 1 /\ j.decaying = TRUE
NotListed(i, j) ==
  /\ j.listings = i.listings /\ j.inWorld = i.inWorld /\ j.freed = i.freed
  /\ j.toDecay = i.toDecay /\ j.refs = i.refs
  /\ ~(j.decaying = TRUE /\ SecondsLeft(j) > 0)
TakenOut(i, j) ==
  /\ j.listings = i.listings /\ i.inWorld = TRUE /\ j.inWorld = FALSE
  /\ j.freed = i.freed + 1 /\ j.toDecay = i.toDecay /\ j.refs = i.refs
  /\ SecondsLeft(j) = 0
Decided(i, j) == ListedOnce(i, j) \/ NotListed(i, j) \/ TakenOut(i, j)

LEMMA InternalDecayIs ==
  ASSUME NEW i \in ItemRecords, Decay!CanDecay(i), SecondsLeft(i) = 0
  PROVE  /\ Decay!InternalDecayItem(i) \in ItemRecords
         /\ Decided(i, Decay!InternalDecayItem(i))
<1> DEFINE t == DecayTo[i.type]
           next == Decay!SetID(i, t)
           j == Decay!InternalDecayItem(i)
<1>1. i.inWorld = TRUE /\ i.type \in Types /\ t # Never
  BY DecayConstants DEF Decay!CanDecay, ItemRecords
<1>2. CASE t = Vanished
  <2>1. j = Decay!Removed(i)
    BY <1>2 DEF Decay!InternalDecayItem
  <2>2. j \in ItemRecords /\ OutOf(i, j)
    BY <2>1, RemovedIs
  <2> HIDE DEF j
  <2>3. SecondsLeft(j) = 0
    BY <2>2 DEF SecondsLeft, Decay!TimeLeft, OutOf
  <2>4. TakenOut(i, j)
    BY <1>1, <2>2, <2>3 DEF TakenOut, OutOf
  <2> QED BY <2>2, <2>4 DEF Decided, j
<1>3. CASE t # Vanished
  <2>1. t \in Types
    BY <1>1, <1>3, DecayConstants
  <2>2. next \in ItemRecords /\ NewId(i, t, next)
    BY <2>1, SetIDIs
  <2>3. \/ j = Decay!Listed(next)
        \/ j = next /\ ~(Decay!CanDecay(next) /\ ~next.decaying)
    BY <1>3 DEF Decay!InternalDecayItem
  <2> HIDE DEF next, j, t
  <2>4. CASE j = Decay!Listed(next)
    <3>1. j \in ItemRecords /\ OnceMore(next, j)
      BY <2>2, <2>4, ListedIs
    <3>2. ListedOnce(i, j)
      BY <2>2, <3>1 DEF ListedOnce, OnceMore, NewId
    <3> QED BY <3>1, <3>2 DEF Decided, j
  <2>5. CASE j = next
    <3>1. ~(next.decaying = TRUE /\ SecondsLeft(next) > 0)
      <4>1. SetsTime(i, t) => next.decaying = FALSE
        BY <2>2 DEF NewId
      <4>2. ~SetsTime(i, t) => next.duration = i.duration
        BY <2>2 DEF NewId
      <4>3. next.duration = i.duration => SecondsLeft(next) = SecondsLeft(i)
        BY Zenon DEF SecondsLeft, Decay!TimeLeft
      <4> QED BY <4>1, <4>2, <4>3
    <3>2. NotListed(i, j)
      BY <2>2, <2>5, <3>1 DEF NotListed, NewId
    <3> QED BY <2>2, <2>5, <3>2 DEF Decided, j
  <2> QED BY <2>3, <2>4, <2>5
<1> QED BY <1>2, <1>3

LEMMA StartDecayIs ==
  ASSUME NEW i \in ItemRecords
  PROVE  /\ Decay!StartDecay(i) \in ItemRecords
         /\ \/ Decay!StartDecay(i) = i
            \/ i.decaying = FALSE /\ Decided(i, Decay!StartDecay(i))
<1> DEFINE j == Decay!StartDecay(i)
<1>1. CASE ~Decay!CanDecay(i) \/ i.decaying
  BY <1>1 DEF Decay!StartDecay
<1>2. CASE Decay!CanDecay(i) /\ i.decaying = FALSE
  <2>1. \/ j = Decay!Listed(i)
        \/ j = Decay!InternalDecayItem(i) /\ ~(SecondsLeft(i) > 0)
    BY <1>2 DEF Decay!StartDecay, SecondsLeft
  <2> HIDE DEF j
  <2>2. CASE j = Decay!Listed(i)
    <3>1. j \in ItemRecords /\ OnceMore(i, j)
      BY <2>2, ListedIs
    <3>2. ListedOnce(i, j)
      BY <3>1 DEF ListedOnce, OnceMore
    <3> QED BY <1>2, <3>1, <3>2 DEF Decided, j
  <2>3. CASE j = Decay!InternalDecayItem(i) /\ ~(SecondsLeft(i) > 0)
    <3>1. SecondsLeft(i) = 0
      BY <2>3, LeftIs
    <3> QED BY <1>2, <2>3, <3>1, InternalDecayIs DEF j
  <2> QED BY <2>1, <2>2, <2>3
<1>3. i.decaying \in BOOLEAN
  BY DEF ItemRecords
<1> QED BY <1>1, <1>2, <1>3
-----------------------------------------------------------------------------
(* A listing more or less in a bucket.                                     *)
LEMMA OneOff ==
  ASSUME NEW f \in Lists, NEW b \in Ring, f[b] >= 1
  PROVE  /\ [f EXCEPT ![b] = @ - 1] \in Lists
         /\ MarkCount(f) = MarkCount([f EXCEPT ![b] = @ - 1]) + 1
<1> DEFINE g == [f EXCEPT ![b] = @ - 1]
<1>1. g \in Lists /\ f[b] = g[b] + 1 /\ \A c \in Ring : c # b => f[c] = g[c]
  BY DecayConstants DEF Lists
<1> HIDE DEF g
<1>2. MarkCount(f) = MarkCount(g) + 1
  BY <1>1, MarksChange
<1> QED BY <1>1, <1>2 DEF g

LEMMA SomeOn ==
  ASSUME NEW f \in Lists, NEW b \in Ring, NEW n \in Nat, MarkCount(f) + n <= MaxListings + 1
  PROVE  /\ [f EXCEPT ![b] = @ + n] \in Lists
         /\ MarkCount([f EXCEPT ![b] = @ + n]) = MarkCount(f) + n
<1> DEFINE g == [f EXCEPT ![b] = @ + n]
<1>1. f[b] <= MarkCount(f) /\ MarkCount(f) \in Nat
  BY MarksBound, MarksFinite
<1>2. f[b] \in Nat /\ f[b] + n \in 0 .. MaxListings + 1
  BY <1>1, DecayConstants DEF Lists
<1>3. g \in Lists /\ g[b] = f[b] + n /\ \A c \in Ring : c # b => g[c] = f[c]
  BY <1>2 DEF Lists
<1> HIDE DEF g
<1>4. MarkCount(g) = MarkCount(f) + n
  BY <1>3, MarksChange
<1> QED BY <1>3, <1>4 DEF g

(* What checkDecay makes of an item in its bucket b.                       *)
Lost(i, j) == Count(j) < Count(i)
Again(i, j) ==
  /\ Count(j) = Count(i) /\ j.decaying = TRUE
  /\ j.toDecay = i.toDecay + 1
Later(i, b, j) ==
  /\ SecondsLeft(i) > K /\ SecondsLeft(j) = SecondsLeft(i) - K
  /\ j.toDecay = i.toDecay /\ Count(j) = Count(i) /\ j.decaying = i.decaying
  /\ IF SecondsLeft(j) < K
       THEN Count(i) = 1 => j.listings[(b + SecondsLeft(j)) % K] = 1
       ELSE j.listings = i.listings
Outcome(i, b, j) == Lost(i, j) \/ Again(i, j) \/ Later(i, b, j)
SameThing(i, j) == j.type = i.type /\ j.inWorld = i.inWorld
OneTaken(i, b, j) == j.listings[b] >= i.listings[b] - 1

LEMMA HandledIs ==
  ASSUME NEW i \in ItemRecords, NEW b \in Ring, i.listings[b] >= 1,
         Count(i) <= MaxListings, Counted(i)
  PROVE  /\ Decay!Handled(i, b) \in ItemRecords
         /\ Counted(Decay!Handled(i, b)) /\ Sought(Decay!Handled(i, b))
         /\ Outcome(i, b, Decay!Handled(i, b)) /\ OneTaken(i, b, Decay!Handled(i, b))
         /\ SecondsLeft(i) > K => SameThing(i, Decay!Handled(i, b))
<1> DEFINE d == IF i.duration = -1 THEN -1 ELSE IF i.duration < K THEN 0 ELSE i.duration - K
           f == [i.listings EXCEPT ![b] = @ - 1]
           spent == [i EXCEPT !.duration = d]
           dropped == [spent EXCEPT !.listings = f]
           j == Decay!Handled(i, b)
           c == (b + d) % K
<1>1. d \in Nat \cup {-1}
  BY DecayConstants DEF ItemRecords
<1>2. f \in Lists /\ MarkCount(i.listings) = MarkCount(f) + 1 /\ MarkCount(f) \in Nat
  BY OneOff, MarksFinite DEF ItemRecords
<1>0. i.listings \in Lists /\ i.listings[b] \in Nat /\ f[b] = i.listings[b] - 1
  BY DecayConstants DEF ItemRecords, Lists
<1>3. \/ ~Decay!CanDecay(spent) /\ j = [dropped EXCEPT !.decaying = FALSE, !.freed = @ + 1]
      \/ /\ Decay!CanDecay(spent) /\ SecondsLeft(spent) = 0
         /\ j = [Decay!InternalDecayItem(dropped) EXCEPT !.freed = @ + 1]
      \/ /\ Decay!CanDecay(spent) /\ SecondsLeft(spent) # 0 /\ SecondsLeft(spent) < K
         /\ j = [dropped EXCEPT !.listings = [f EXCEPT ![c] = @ + 1]]
      \/ Decay!CanDecay(spent) /\ SecondsLeft(spent) # 0 /\ ~(SecondsLeft(spent) < K) /\ j = spent
  <2>1. spent = [i EXCEPT !.duration = IF @ = Decay!NoTime THEN @ ELSE IF @ < K THEN 0 ELSE @ - K]
    BY DEF ItemRecords, Decay!NoTime
  <2>2. dropped = [spent EXCEPT !.listings[b] = @ - 1]
    BY DEF ItemRecords
  <2>3. dropped.listings = f /\ spent.duration = d
    BY DEF ItemRecords
  <2>4. [dropped EXCEPT !.listings[c] = @ + 1] = [dropped EXCEPT !.listings = [f EXCEPT ![c] = @ + 1]]
    BY <2>3 DEF ItemRecords
  <2>5. c = Decay!BucketIn(b, spent.duration)
    BY <2>3 DEF Decay!BucketIn
  <2> HIDE DEF dropped, spent, f, c
  <2> QED BY <2>1, <2>2, <2>3, <2>4, <2>5 DEF Decay!Handled, SecondsLeft
<1> HIDE DEF f
<1>4. /\ spent \in ItemRecords /\ dropped \in ItemRecords
      /\ spent.duration = d /\ dropped.duration = d /\ dropped.listings = f
      /\ spent.listings = i.listings /\ spent.toDecay = i.toDecay /\ dropped.toDecay = i.toDecay
      /\ spent.freed = i.freed /\ dropped.freed = i.freed /\ spent.refs = i.refs
      /\ dropped.refs = i.refs /\ spent.decaying = i.decaying /\ dropped.decaying = i.decaying
      /\ SameThing(i, spent) /\ SameThing(i, dropped)
  <2> HIDE DEF d
  <2> QED BY <1>1, <1>2 DEF ItemRecords, SameThing
<1>5. /\ SecondsLeft(i) \in Nat /\ SecondsLeft(i) = IF i.duration = -1 THEN 0 ELSE i.duration
      /\ SecondsLeft(spent) = (IF d = -1 THEN 0 ELSE d) /\ SecondsLeft(dropped) = SecondsLeft(spent)
  BY <1>1, <1>4, LeftIs DEF SecondsLeft, Decay!TimeLeft, Decay!NoTime
<1>6. /\ Count(i) \in Nat /\ Count(dropped) = Count(i) - 1 /\ Count(spent) = Count(i)
      /\ i.toDecay \in Nat /\ i.freed \in Nat /\ i.refs \in Int
      /\ World1(dropped) = World1(i) /\ World1(spent) = World1(i)
  <2> HIDE DEF spent, dropped
  <2> QED BY <1>2, <1>4, LeftIs DEF Count, World1, SameThing
<1>7. i.refs = Count(i) + i.freed + World1(i) /\ World1(i) \in {0, 1}
  BY DEF Counted, World1
<1>8. /\ SecondsLeft(spent) = 0 => ~(SecondsLeft(i) > K)
      /\ SecondsLeft(spent) # 0 => SecondsLeft(i) > K /\ SecondsLeft(spent) = SecondsLeft(i) - K
  BY <1>1, <1>5, DecayConstants
<1> HIDE DEF j
<1>9. CASE ~Decay!CanDecay(spent) /\ j = [dropped EXCEPT !.decaying = FALSE, !.freed = @ + 1]
  <2> DEFINE n == i.freed + 1
  <2>1. n \in Nat /\ j = [dropped EXCEPT !.decaying = FALSE, !.freed = n]
    BY <1>4, <1>6, <1>9
  <2> HIDE DEF n, dropped, spent, d
  <2>2. /\ j \in ItemRecords /\ j.decaying = FALSE /\ j.freed = n /\ j.refs = i.refs
        /\ j.listings = dropped.listings /\ j.toDecay = dropped.toDecay /\ SameThing(i, j)
    BY <1>4, <2>1 DEF ItemRecords, SameThing
  <2>3. Count(j) = Count(i) - 1
    BY <1>6, <2>2 DEF Count
  <2>4. World1(j) = World1(i)
    BY <2>2 DEF World1, SameThing
  <2>5. Counted(j)
    BY <1>6, <1>7, <2>2, <2>3, <2>4 DEF Counted, n
  <2>6. Sought(j)
    BY <2>2 DEF Sought
  <2>7. Lost(i, j)
    BY <1>6, <2>3 DEF Lost
  <2>8. OneTaken(i, b, j)
    BY <1>0, <1>4, <2>2 DEF OneTaken
  <2> QED BY <2>2, <2>5, <2>6, <2>7, <2>8 DEF Outcome, j
<1>10. CASE /\ Decay!CanDecay(spent) /\ SecondsLeft(spent) = 0
            /\ j = [Decay!InternalDecayItem(dropped) EXCEPT !.freed = @ + 1]
  <2> DEFINE made == Decay!InternalDecayItem(dropped)
             n == made.freed + 1
  <2>1. Decay!CanDecay(dropped)
    BY <1>4, <1>10 DEF Decay!CanDecay, SameThing
  <2>2. made \in ItemRecords /\ Decided(dropped, made)
    <3> HIDE DEF dropped
    <3> QED BY <1>4, <1>5, <1>10, <2>1, InternalDecayIs
  <2>3. j = [made EXCEPT !.freed = n]
    BY <1>10
  <2>4. made.freed \in Nat /\ n \in Nat
    <3> HIDE DEF made
    <3> QED BY <2>2 DEF ItemRecords
  <2> HIDE DEF made, dropped, spent, d
  <2>5. /\ j \in ItemRecords /\ j.decaying = made.decaying /\ j.freed = made.freed + 1
        /\ j.refs = made.refs /\ j.listings = made.listings /\ j.toDecay = made.toDecay
        /\ j.inWorld = made.inWorld /\ j.duration = made.duration
    <3>1. n = made.freed + 1
      OBVIOUS
    <3> HIDE DEF n
    <3> QED BY <2>2, <2>3, <2>4, <3>1 DEF ItemRecords
  <2>6. SecondsLeft(j) = SecondsLeft(made) /\ World1(j) = World1(made)
    BY <2>5 DEF SecondsLeft, Decay!TimeLeft, World1
  <2>7. ~(SecondsLeft(i) > K)
    BY <1>8, <1>10
  <2>8. /\ MarkCount(made.listings) = MarkCount(dropped.listings) => Count(j) = made.toDecay + MarkCount(dropped.listings)
        /\ Count(dropped) = dropped.toDecay + MarkCount(dropped.listings)
        /\ MarkCount(dropped.listings) \in Nat /\ dropped.toDecay \in Nat /\ made.toDecay \in Nat
    BY <1>4, <2>2, <2>5, LeftIs DEF Count
  <2>12. made.listings = dropped.listings => OneTaken(i, b, j)
    BY <1>0, <1>4, <2>5 DEF OneTaken
  <2>9. CASE ListedOnce(dropped, made)
    <3>1. made.listings = dropped.listings /\ made.toDecay = i.toDecay + 1 /\ j.decaying = TRUE
      BY <1>4, <2>5, <2>9 DEF ListedOnce
    <3>2. Count(j) = Count(i)
      BY <1>4, <1>6, <2>8, <3>1
    <3>3. World1(j) = World1(i) /\ made.refs = i.refs + 1 /\ made.freed = i.freed
      BY <1>4, <1>6, <2>6, <2>9 DEF ListedOnce, World1
    <3>4. Counted(j)
      BY <1>6, <1>7, <2>5, <3>2, <3>3 DEF Counted
    <3>5. Sought(j)
      BY <1>6, <1>4, <2>8, <3>1, <3>2 DEF Sought
    <3>6. Again(i, j)
      BY <2>5, <3>1, <3>2 DEF Again
    <3> QED BY <2>5, <2>7, <2>12, <3>1, <3>4, <3>5, <3>6 DEF Outcome, j
  <2>10. CASE NotListed(dropped, made)
    <3>1. made.listings = dropped.listings /\ made.toDecay = i.toDecay
      BY <1>4, <2>10 DEF NotListed
    <3>2. Count(j) = Count(i) - 1
      BY <1>4, <1>6, <2>8, <3>1
    <3>3. World1(j) = World1(i) /\ made.refs = i.refs /\ made.freed = i.freed
      BY <1>4, <1>6, <2>6, <2>10 DEF NotListed, World1
    <3>4. Counted(j)
      BY <1>6, <1>7, <2>5, <3>2, <3>3 DEF Counted
    <3>5. Sought(j)
      BY <2>5, <2>6, <2>10 DEF Sought, NotListed
    <3>6. Lost(i, j)
      BY <1>6, <3>2 DEF Lost
    <3> QED BY <2>5, <2>7, <2>12, <3>1, <3>4, <3>5, <3>6 DEF Outcome, j
  <2>11. CASE TakenOut(dropped, made)
    <3>1. made.listings = dropped.listings /\ made.toDecay = i.toDecay
      BY <1>4, <2>11 DEF TakenOut
    <3>2. Count(j) = Count(i) - 1
      BY <1>4, <1>6, <2>8, <3>1
    <3>3. World1(j) = 0 /\ World1(i) = 1 /\ made.refs = i.refs /\ made.freed = i.freed + 1
      BY <1>4, <1>6, <2>6, <2>11 DEF TakenOut, World1
    <3>4. Counted(j)
      BY <1>6, <1>7, <2>5, <3>2, <3>3 DEF Counted
    <3>5. Sought(j)
      BY <2>6, <2>11 DEF Sought, TakenOut
    <3>6. Lost(i, j)
      BY <1>6, <3>2 DEF Lost
    <3> QED BY <2>5, <2>7, <2>12, <3>1, <3>4, <3>5, <3>6 DEF Outcome, j
  <2> QED BY <2>2, <2>9, <2>10, <2>11 DEF Decided
<1>11. CASE /\ Decay!CanDecay(spent) /\ SecondsLeft(spent) # 0 /\ SecondsLeft(spent) < K
            /\ j = [dropped EXCEPT !.listings = [f EXCEPT ![c] = @ + 1]]
  <2> DEFINE g == [f EXCEPT ![c] = @ + 1]
  <2>1. SecondsLeft(i) > K /\ SecondsLeft(spent) = SecondsLeft(i) - K /\ d = SecondsLeft(spent) /\ d \in Nat
    BY <1>1, <1>5, <1>8, <1>11
  <2>2. c \in Ring
    <3> HIDE DEF d
    <3> QED BY <2>1, DecayConstants DEF Ring
  <2>3. MarkCount(f) + 1 <= MaxListings + 1 /\ 1 \in Nat
    BY <1>2, <1>6, LeftIs, DecayConstants DEF Count
  <2> HIDE DEF c
  <2>4. g \in Lists /\ MarkCount(g) = MarkCount(f) + 1
    BY <1>2, <2>2, <2>3, SomeOn
  <2>5. g[c] = f[c] + 1
    BY <1>2, <2>2 DEF Lists
  <2> HIDE DEF g, dropped, spent, d
  <2>6. /\ j \in ItemRecords /\ j.decaying = i.decaying /\ j.freed = i.freed /\ j.refs = i.refs
        /\ j.listings = g /\ j.toDecay = i.toDecay /\ j.duration = d /\ SameThing(i, j)
    <3>1. j = [dropped EXCEPT !.listings = g]
      BY <1>11 DEF g
    <3> QED BY <1>4, <2>4, <3>1 DEF ItemRecords, SameThing
  <2>7. SecondsLeft(j) = SecondsLeft(i) - K
    BY <2>1, <2>6, LeftIs
  <2>8. Count(j) = Count(i) /\ World1(j) = World1(i)
    BY <1>2, <1>6, <2>4, <2>6 DEF Count, World1, SameThing
  <2>9. Counted(j) /\ Sought(j)
    <3>1. Count(i) > 0
      BY <1>2, <1>6, LeftIs DEF Count
    <3> QED BY <1>7, <2>6, <2>8, <3>1 DEF Counted, Sought
  <2>10. Count(i) = 1 => j.listings[(b + SecondsLeft(j)) % K] = 1
    <3>1. SUFFICES ASSUME Count(i) = 1 PROVE g[c] = 1
      BY <2>1, <2>6, <2>7 DEF c
    <3>2. g[c] >= 1 /\ MarkCount(g) <= 1
      BY <1>2, <1>6, <2>2, <2>4, <2>5, <3>1, LeftIs, DecayConstants DEF Count, Lists
    <3> QED BY <2>2, <2>4, <3>2, OneMark
  <2>11. Later(i, b, j)
    BY <1>11, <2>1, <2>6, <2>7, <2>8, <2>10 DEF Later
  <2>12. OneTaken(i, b, j)
    <3>1. g[b] >= f[b]
      BY <1>0, <1>2, <2>2 DEF g, Lists
    <3>2. g[b] \in Nat /\ f[b] \in Nat
      BY <1>2, <2>4, DecayConstants DEF Lists
    <3> QED BY <1>0, <2>6, <3>1, <3>2 DEF OneTaken
  <2> QED BY <2>6, <2>9, <2>11, <2>12 DEF Outcome, j
<1>12. CASE Decay!CanDecay(spent) /\ SecondsLeft(spent) # 0 /\ ~(SecondsLeft(spent) < K) /\ j = spent
  <2> HIDE DEF spent, dropped, d
  <2>1. j \in ItemRecords /\ SameThing(i, j)
    BY <1>4, <1>12
  <2>2. Counted(j)
    BY <1>4, <1>6, <1>7, <1>12 DEF Counted
  <2>3. Sought(j)
    BY <1>2, <1>6, <1>12, LeftIs DEF Sought, Count
  <2>4. Later(i, b, j)
    BY <1>4, <1>6, <1>8, <1>12 DEF Later
  <2>5. OneTaken(i, b, j)
    BY <1>0, <1>4, <1>12 DEF OneTaken
  <2> QED BY <2>1, <2>2, <2>3, <2>4, <2>5 DEF Outcome, j
<1> HIDE DEF d, spent, dropped
<1> QED BY <1>3, <1>9, <1>10, <1>11, <1>12 DEF j

(* The clock of an item that is listed once: the bucket it is in is as far *)
(* ahead as it has time left, or a full turn with the rest to come.        *)
TheClock(i, last, sp, ag) ==
  \E r \in 1 .. K :
    /\ i.listings[(last + r) % K] = 1
    /\ IF SecondsLeft(i) < K THEN ag + r = sp \/ ag + r = sp + 1
       ELSE ag + r + SecondsLeft(i) = sp + K

CleanUp(i, last, j) ==
  /\ Count(j) = Count(i) /\ SameThing(i, j) /\ j.decaying = i.decaying
  /\ SecondsLeft(j) = SecondsLeft(i) /\ j.toDecay = 0
  /\ i.toDecay = 0 => j.listings = i.listings
  /\ i.toDecay = 1 /\ Count(i) = 1 => TheClock(j, last, SecondsLeft(j), 0)
  /\ Counted(i) => Counted(j)
  /\ Sought(i) => Sought(j)

LEMMA CleanedUpIs ==
  ASSUME NEW i \in ItemRecords, NEW last \in Ring, Count(i) <= MaxListings
  PROVE  /\ Decay!CleanedUp(i, last) \in ItemRecords
         /\ CleanUp(i, last, Decay!CleanedUp(i, last))
<1> DEFINE b == IF SecondsLeft(i) >= K THEN last ELSE (last + 1 + SecondsLeft(i)) % K
           g == [i.listings EXCEPT ![b] = @ + i.toDecay]
           m == i.refs - i.freed
           j == Decay!CleanedUp(i, last)
<1>0. K \in Nat /\ K > 1 /\ SecondsLeft(i) \in Nat /\ last \in 0 .. K - 1
  BY DecayConstants, LeftIs DEF Ring
<1>1. b \in Ring
  <2> DEFINE x == last + 1 + SecondsLeft(i)
  <2>1. x \in Int
    BY <1>0
  <2>2. x % K \in 0 .. K - 1
    <3> HIDE DEF x
    <3> QED BY <1>0, <2>1
  <2> QED BY <1>0, <2>2 DEF Ring
<1>2. i.listings \in Lists /\ i.toDecay \in Nat /\ i.freed \in Nat /\ i.refs \in Int
  BY DEF ItemRecords
<1>3. MarkCount(i.listings) + i.toDecay <= MaxListings + 1
  BY LeftIs, DecayConstants DEF Count
<1>4. j = [i EXCEPT !.refs = m, !.freed = 0, !.toDecay = 0, !.listings = g]
  <2>1. b = IF Decay!TimeLeft(i) >= K THEN last ELSE Decay!BucketIn(last + 1, Decay!TimeLeft(i))
    BY DEF SecondsLeft, Decay!BucketIn
  <2> HIDE DEF b
  <2> QED BY <1>1, <1>2, <2>1 DEF Decay!CleanedUp, ItemRecords
<1> HIDE DEF b, j
<1>5. g \in Lists /\ MarkCount(g) = MarkCount(i.listings) + i.toDecay
  BY <1>1, <1>2, <1>3, SomeOn
<1>6. g[b] >= i.toDecay /\ (i.toDecay = 0 => g = i.listings)
  BY <1>1, <1>2, DecayConstants DEF Lists
<1> HIDE DEF g
<1>7. /\ j \in ItemRecords /\ j.refs = m /\ j.freed = 0 /\ j.toDecay = 0 /\ j.listings = g
      /\ j.decaying = i.decaying /\ j.duration = i.duration /\ SameThing(i, j)
  <2>1. m \in Int
    BY <1>2
  <2> HIDE DEF m
  <2> QED BY <1>4, <1>5, <2>1 DEF ItemRecords, SameThing
<1>8. SecondsLeft(j) = SecondsLeft(i) /\ World1(j) = World1(i) /\ World1(i) \in {0, 1}
  BY <1>7 DEF SecondsLeft, Decay!TimeLeft, World1, SameThing
<1>9. Count(j) = Count(i) /\ Count(i) \in Nat
  BY <1>2, <1>5, <1>7, LeftIs DEF Count
<1>10. Counted(i) => Counted(j)
  BY <1>2, <1>7, <1>8, <1>9 DEF Counted, m
<1>11. Sought(i) => Sought(j)
  BY <1>7, <1>8, <1>9 DEF Sought
<1>12. ASSUME i.toDecay = 1, Count(i) = 1
       PROVE  TheClock(j, last, SecondsLeft(j), 0)
  <2> DEFINE r == IF SecondsLeft(i) >= K THEN K ELSE SecondsLeft(i) + 1
  <2>1. r \in 1 .. K
    BY <1>0
  <2>2. (last + r) % K = b
    BY <1>0 DEF b
  <2>3. g[b] = 1
    BY <1>1, <1>2, <1>5, <1>6, <1>7, <1>9, <1>12, LeftIs, OneMark DEF Count
  <2>4. IF SecondsLeft(j) < K THEN 0 + r = SecondsLeft(j) \/ 0 + r = SecondsLeft(j) + 1
        ELSE 0 + r + SecondsLeft(j) = SecondsLeft(j) + K
    BY <1>0, <1>8
  <2> HIDE DEF r
  <2> QED BY <1>7, <2>1, <2>2, <2>3, <2>4 DEF TheClock
<1> QED BY <1>6, <1>7, <1>8, <1>9, <1>10, <1>11, <1>12 DEF CleanUp, j
-----------------------------------------------------------------------------
(* The inductive invariant of an item that decays, of the values of its    *)
(* variables.  As long as its time was not set anew in a list, an item in  *)
(* one list thinks it is decaying, and its clock is right.                 *)
DecaysWell(i, last, sp, ag, anew) ==
  /\ i \in ItemRecords /\ last \in Ring /\ sp \in Nat /\ ag \in Nat /\ anew \in BOOLEAN
  /\ Count(i) <= MaxListings /\ Counted(i) /\ Sought(i)
  /\ anew = FALSE /\ Count(i) > 0 => i.decaying = TRUE /\ Count(i) = 1
  /\ anew = TRUE => Count(i) > 0
  /\ anew = FALSE /\ i.toDecay = 0 /\ Count(i) = 1 => TheClock(i, last, sp, ag)
DecayInv == DecaysWell(x1, x2, x3, x4, x5)

LEMMA DecayInit ==
  ASSUME Decay!Init
  PROVE  DecayInv
<1>1. PICK t \in Types : x1 = Decay!Created(t)
  BY DEF Decay!Init
<1>2. /\ x1 \in ItemRecords /\ x1.refs = 1 /\ x1.freed = 0 /\ x1.toDecay = 0 /\ x1.inWorld = TRUE
      /\ x1.decaying = FALSE /\ \A c \in Ring : x1.listings[c] = 0
  <2> DEFINE d == IF DecayTime[t] > 0 THEN DecayTime[t] ELSE -1
             f == [b \in Ring |-> 0]
  <2>1. d \in Nat \cup {-1} /\ f \in Lists /\ \A c \in Ring : f[c] = 0
    BY DecayConstants DEF Lists
  <2>2. x1 = [type |-> t, duration |-> d, decaying |-> FALSE, inWorld |-> TRUE, refs |-> 1,
              freed |-> 0, toDecay |-> 0, listings |-> f]
    BY <1>1, DecayConstants DEF Decay!Created, Decay!NoTime
  <2> HIDE DEF d, f
  <2> QED BY <2>1, <2>2 DEF ItemRecords
<1>3. Count(x1) = 0
  BY <1>2, NoMarks DEF Count
<1>4. x2 \in Ring /\ x3 = 0 /\ x4 = 0 /\ x5 = FALSE
  BY DecayConstants DEF Decay!Init, Ring
<1>5. Counted(x1) /\ Sought(x1)
  BY <1>2, <1>3 DEF Counted, Sought, World1
<1>6. Count(x1) <= MaxListings /\ ~(Count(x1) > 0) /\ Count(x1) # 1
  BY <1>3, DecayConstants
<1>7. x3 \in Nat /\ x4 \in Nat /\ x5 \in BOOLEAN /\ x5 # TRUE
  BY <1>4
<1> QED BY <1>2, <1>4, <1>5, <1>6, <1>7 DEF DecayInv, DecaysWell

(* What Track says, with the listings counted.                             *)
Tracked(i, j, ticks, sp, ag, spNext, agNext) ==
  IF i.toDecay = 1 /\ Count(i) = 1 THEN spNext = SecondsLeft(j) /\ agNext = 0
  ELSE /\ spNext = sp
       /\ agNext = IF Count(j) = 0 THEN 0 ELSE IF ag > sp THEN ag ELSE ag + ticks

LEMMA DecayCleanup ==
  ASSUME DecayInv, Decay!Cleanup
  PROVE  DecayInv'
<1> DEFINE j == Decay!CleanedUp(x1, x2)
<1>1. x1' = j /\ x2' = x2 /\ x5' = x5
  BY DEF Decay!Cleanup
<1>2. j \in ItemRecords /\ CleanUp(x1, x2, j)
  BY CleanedUpIs DEF DecayInv, DecaysWell
<1>3. Tracked(x1, x1', 0, x3, x4, x3', x4')
  <2>1. Decay!Track(x1, x1', 0)
    BY DEF Decay!Cleanup
  <2> QED BY <2>1, ListingsIs DEF Decay!Track, Tracked, SecondsLeft
<1> HIDE DEF j
<1> USE DEF DecayInv, DecaysWell
<1>4. /\ Count(j) \in Nat /\ Count(j) = Count(x1) /\ SecondsLeft(j) \in Nat /\ x1.toDecay \in Nat
      /\ x1.toDecay <= Count(x1)
  BY <1>2, LeftIs DEF CleanUp
<1>5. x3' \in Nat /\ x4' \in Nat
  BY <1>1, <1>3, <1>4 DEF Tracked
<1>6. ASSUME x5 = FALSE, Count(j) = 1
      PROVE  TheClock(j, x2, x3', x4')
  <2>1. CASE x1.toDecay = 1
    BY <1>1, <1>2, <1>3, <1>6, <2>1 DEF Tracked, CleanUp
  <2>2. CASE x1.toDecay = 0
    <3>1. TheClock(x1, x2, x3, x4)
      BY <1>4, <1>6, <2>2
    <3>2. x3' = x3 /\ x4' = x4
      BY <1>1, <1>3, <1>6, <2>2 DEF Tracked
    <3>3. SecondsLeft(j) = SecondsLeft(x1) /\ j.listings = x1.listings
      BY <1>2, <2>2 DEF CleanUp
    <3> QED BY <3>1, <3>2, <3>3 DEF TheClock
  <2> QED BY <1>4, <1>6, <2>1, <2>2
<1>7. /\ Count(j) <= MaxListings /\ Counted(j) /\ Sought(j)
      /\ x5 = FALSE /\ Count(j) > 0 => j.decaying = TRUE /\ Count(j) = 1
      /\ x5 = TRUE => Count(j) > 0
  BY <1>2 DEF CleanUp
<1> QED BY <1>1, <1>2, <1>5, <1>6, <1>7

LEMMA DecayStart ==
  ASSUME DecayInv, NEW i, i \in ItemRecords, Count(i) <= MaxListings, Counted(i), Sought(i),
         NEW anew \in BOOLEAN,
         anew = FALSE /\ Count(i) > 0 => i.decaying = TRUE /\ Count(i) = 1,
         anew = TRUE => Count(i) > 0,
         anew = FALSE /\ i.toDecay = 0 /\ Count(i) = 1 => TheClock(i, x2, x3, x4),
         Count(Decay!StartDecay(i)) <= MaxListings
  PROVE  DecaysWell(Decay!StartDecay(i), x2, x3, x4, anew)
<1> DEFINE j == Decay!StartDecay(i)
<1>1. j \in ItemRecords /\ (j = i \/ (i.decaying = FALSE /\ Decided(i, j)))
  BY StartDecayIs, Zenon
<1> HIDE DEF j
<1>0. x2 \in Ring /\ x3 \in Nat /\ x4 \in Nat
  BY DEF DecayInv, DecaysWell
<1>2. CASE j = i
  BY <1>0, <1>1, <1>2 DEF DecaysWell, j
<1>3. CASE i.decaying = FALSE /\ Decided(i, j)
  <2>1. /\ Count(i) \in Nat /\ Count(i) = i.toDecay + MarkCount(i.listings) /\ i.toDecay \in Nat
        /\ Count(j) = j.toDecay + MarkCount(j.listings) /\ MarkCount(i.listings) \in Nat
        /\ i.refs \in Int /\ i.freed \in Nat /\ SecondsLeft(j) \in Nat
    BY <1>1, LeftIs DEF Count
  <2>2. anew = FALSE => Count(i) = 0
    BY <1>3, <2>1
  <2>3. /\ Counted(j) /\ Sought(j) /\ Count(j) >= Count(i)
        /\ Count(j) # 0 /\ Count(i) = 0 => j.decaying = TRUE /\ Count(j) = 1 /\ j.toDecay = 1
    <3>1. CASE ListedOnce(i, j)
      <4>1. World1(j) = World1(i) /\ World1(i) \in {0, 1}
        BY <3>1 DEF ListedOnce, World1
      <4> QED BY <2>1, <3>1, <4>1 DEF ListedOnce, Counted, Sought
    <3>2. CASE NotListed(i, j)
      <4>1. World1(j) = World1(i) /\ World1(i) \in {0, 1}
        BY <3>2 DEF NotListed, World1
      <4> QED BY <2>1, <3>2, <4>1 DEF NotListed, Counted, Sought
    <3>3. CASE TakenOut(i, j)
      <4>1. World1(j) = 0 /\ World1(i) = 1
        BY <3>3 DEF TakenOut, World1
      <4> QED BY <2>1, <3>3, <4>1 DEF TakenOut, Counted, Sought
    <3> QED BY <1>3, <3>1, <3>2, <3>3 DEF Decided
  <2>4. Count(j) \in Nat
    BY <1>1, LeftIs
  <2>5. anew = FALSE /\ Count(j) > 0 => j.decaying = TRUE /\ Count(j) = 1 /\ j.toDecay = 1
    BY <2>2, <2>3, <2>4
  <2>6. anew = TRUE => Count(j) > 0
    BY <2>1, <2>3, <2>4
  <2>7. Count(j) <= MaxListings
    BY DEF j
  <2> QED BY <1>0, <1>1, <2>3, <2>5, <2>6, <2>7 DEF DecaysWell, j
<1> QED BY <1>1, <1>2, <1>3

LEMMA DecayStarts ==
  ASSUME DecayInv, Decay!Start
  PROVE  DecayInv'
<1>1. x1' = Decay!StartDecay(x1) /\ x2' = x2 /\ x3' = x3 /\ x4' = x4 /\ x5' = x5
  BY DEF Decay!Start
<1>2. Count(Decay!StartDecay(x1)) <= MaxListings
  BY <1>1, ListingsIs DEF Decay!Start
<1>3. DecaysWell(Decay!StartDecay(x1), x2, x3, x4, x5)
  BY <1>2, DecayStart DEF DecayInv, DecaysWell
<1> QED BY <1>1, <1>3 DEF DecayInv

LEMMA DecayRemove ==
  ASSUME DecayInv, Decay!Remove
  PROVE  DecayInv'
<1> DEFINE j == Decay!Removed(x1)
<1>1. x1.inWorld = TRUE /\ x1' = j /\ x2' = x2 /\ x3' = x3 /\ x4' = x4 /\ x5' = x5
  BY DEF Decay!Remove, DecayInv, DecaysWell, ItemRecords
<1>2. j \in ItemRecords /\ OutOf(x1, j)
  BY RemovedIs DEF DecayInv, DecaysWell
<1> HIDE DEF j
<1>3. Count(j) = Count(x1) /\ SecondsLeft(j) = SecondsLeft(x1) /\ World1(j) = 0 /\ World1(x1) = 1
  BY <1>1, <1>2 DEF OutOf, Count, SecondsLeft, Decay!TimeLeft, World1
<1>4. x1.refs \in Int /\ x1.freed \in Nat /\ Count(x1) \in Nat
  BY LeftIs DEF DecayInv, DecaysWell
<1>5. Counted(j) /\ Sought(j)
  BY <1>2, <1>3, <1>4 DEF DecayInv, DecaysWell, Counted, Sought, OutOf
<1>6. TheClock(x1, x2, x3, x4) => TheClock(j, x2, x3, x4)
  BY <1>2, <1>3 DEF TheClock, OutOf
<1> QED BY <1>1, <1>2, <1>3, <1>5, <1>6 DEF DecayInv, DecaysWell, OutOf

LEMMA DecayTransform ==
  ASSUME DecayInv, NEW t \in Types, Decay!Transform(t)
  PROVE  DecayInv'
<1> DEFINE i == Decay!SetID(x1, t)
<1>1. /\ x1' \in {i, Decay!StartDecay(i)} /\ Count(x1') <= MaxListings
      /\ x2' = x2 /\ x3' = x3 /\ x4' = x4
      /\ x5' = (x5 \/ (Count(x1) > 0 /\ SetsTime(x1, t)))
  BY ListingsIs DEF Decay!Transform, SetsTime
<1>2. i \in ItemRecords /\ NewId(x1, t, i)
  BY SetIDIs DEF DecayInv, DecaysWell
<1> HIDE DEF i
<1>3. /\ Count(i) = Count(x1) /\ Count(x1) \in Nat /\ World1(i) = World1(x1)
      /\ i.toDecay = x1.toDecay /\ i.listings = x1.listings
      /\ ~SetsTime(x1, t) => SecondsLeft(i) = SecondsLeft(x1) /\ i.decaying = x1.decaying
      /\ SetsTime(x1, t) => i.decaying = FALSE
  <2>1. ~SetsTime(x1, t) => i.duration = x1.duration
    BY <1>2 DEF NewId
  <2>2. i.duration = x1.duration => SecondsLeft(i) = SecondsLeft(x1)
    BY Zenon DEF SecondsLeft, Decay!TimeLeft
  <2> QED BY <1>2, <2>1, <2>2, LeftIs DEF NewId, Count, World1, DecayInv, DecaysWell
<1>4. Counted(i) /\ Sought(i) /\ Count(i) <= MaxListings
  BY <1>2, <1>3 DEF DecayInv, DecaysWell, Counted, Sought, NewId
<1>5. x5' \in BOOLEAN
  BY <1>1 DEF DecayInv, DecaysWell
<1>6. x5' = TRUE => Count(i) > 0
  BY <1>1, <1>3 DEF DecayInv, DecaysWell
<1>7. x5' = FALSE => x5 = FALSE /\ (Count(x1) = 0 \/ ~SetsTime(x1, t))
  <2>1. x5 \in BOOLEAN
    BY DEF DecayInv, DecaysWell
  <2>2. x5' = FALSE => x5 = FALSE /\ ~(Count(x1) > 0 /\ SetsTime(x1, t))
    BY <1>1, <2>1, Zenon
  <2> QED BY <1>3, <2>2
<1>8. x5' = FALSE /\ Count(i) > 0 => i.decaying = TRUE /\ Count(i) = 1
  BY <1>3, <1>7 DEF DecayInv, DecaysWell
<1>9. x5' = FALSE /\ i.toDecay = 0 /\ Count(i) = 1 => TheClock(i, x2, x3, x4)
  <2>1. SUFFICES ASSUME x5' = FALSE, i.toDecay = 0, Count(i) = 1
                 PROVE  TheClock(i, x2, x3, x4)
    OBVIOUS
  <2>2. TheClock(x1, x2, x3, x4) /\ SecondsLeft(i) = SecondsLeft(x1) /\ i.listings = x1.listings
    BY <1>3, <1>7, <2>1 DEF DecayInv, DecaysWell
  <2> QED BY <2>2 DEF TheClock
<1>10. CASE x1' = i
  BY <1>1, <1>2, <1>4, <1>5, <1>6, <1>8, <1>9, <1>10 DEF DecayInv, DecaysWell
<1>11. CASE x1' = Decay!StartDecay(i)
  <2>1. DecaysWell(Decay!StartDecay(i), x2, x3, x4, x5')
    BY <1>1, <1>2, <1>4, <1>5, <1>6, <1>8, <1>9, <1>11, DecayStart
  <2> QED BY <1>1, <1>11, <2>1 DEF DecayInv
<1> QED BY <1>1, <1>10, <1>11

(* What is left of an item when checkDecay is through with its bucket b,   *)
(* which has it at most twice.                                             *)
Seen(i, b) ==
  LET n == i.listings[b]
      once == IF n > 0 THEN Decay!Handled(i, b) ELSE i
  IN IF n > 1 THEN Decay!Handled(once, b) ELSE once

LEMMA SeenIs ==
  ASSUME NEW i \in ItemRecords, NEW b \in Ring, Count(i) <= MaxListings, Counted(i), Sought(i)
  PROVE  /\ Seen(i, b) \in ItemRecords /\ Counted(Seen(i, b)) /\ Sought(Seen(i, b))
         /\ Count(Seen(i, b)) <= Count(i)
         /\ i.listings[b] = 0 => Seen(i, b) = i
         /\ i.listings[b] = 1 =>
              /\ Outcome(i, b, Seen(i, b))
              /\ SecondsLeft(i) > K => SameThing(i, Seen(i, b))
<1> DEFINE once == Decay!Handled(i, b)
           all == Seen(i, b)
<1>1. i.listings[b] \in Nat
  BY DecayConstants DEF ItemRecords, Lists
<1>2. CASE i.listings[b] = 0
  <2>1. all = i
    BY <1>2 DEF Seen
  <2> QED BY <1>2, <2>1, LeftIs
<1>3. ASSUME i.listings[b] >= 1
      PROVE  /\ once \in ItemRecords /\ Counted(once) /\ Sought(once)
             /\ Outcome(i, b, once) /\ OneTaken(i, b, once)
             /\ SecondsLeft(i) > K => SameThing(i, once)
  BY <1>3, HandledIs
<1> HIDE DEF once
<1>4. ASSUME i.listings[b] >= 1
      PROVE  Count(once) <= Count(i) /\ Count(once) \in Nat /\ Count(i) \in Nat
  <2>1. Count(once) \in Nat /\ Count(i) \in Nat
    BY <1>3, <1>4, LeftIs
  <2>2. Count(once) < Count(i) \/ Count(once) = Count(i)
    BY <1>3, <1>4 DEF Outcome, Lost, Again, Later
  <2> QED BY <2>1, <2>2
<1>5. CASE i.listings[b] = 1
  <2>1. all = once
    BY <1>5 DEF Seen, once
  <2> QED BY <1>3, <1>4, <1>5, <2>1
<1>6. CASE i.listings[b] > 1
  <2>1. all = Decay!Handled(once, b)
    BY <1>1, <1>6 DEF Seen, once
  <2>2. once.listings[b] >= 1
    <3>1. once.listings[b] \in Nat
      BY <1>3, <1>6, DecayConstants DEF ItemRecords, Lists
    <3> QED BY <1>1, <1>3, <1>6, <3>1 DEF OneTaken
  <2>3. Count(once) <= MaxListings
    BY <1>1, <1>4, <1>6, DecayConstants
  <2> HIDE DEF all
  <2>4. all \in ItemRecords /\ Counted(all) /\ Sought(all) /\ Outcome(once, b, all)
    BY <1>1, <1>3, <1>6, <2>1, <2>2, <2>3, HandledIs
  <2>5. Count(all) <= Count(once)
    <3>1. Count(all) \in Nat
      BY <2>4, LeftIs
    <3> QED BY <1>1, <1>4, <1>6, <2>4, <3>1 DEF Outcome, Lost, Again, Later
  <2>6. Count(all) <= Count(i)
    BY <1>1, <1>4, <1>6, <2>4, <2>5, LeftIs
  <2> QED BY <1>6, <2>4, <2>6 DEF all
<1> QED BY <1>1, <1>2, <1>5, <1>6

(* One turn of the ring: where the clock is a second later.                *)
LEMMA Ticking ==
  ASSUME NEW i \in ItemRecords, NEW last \in Ring, NEW sp \in Nat, NEW ag \in Nat,
         TheClock(i, last, sp, ag), Count(i) = 1, i.toDecay = 0,
         i.listings[(last + 1) % K] = 0
  PROVE  ag + 1 <= sp /\ TheClock(i, (last + 1) % K, sp, ag + 1)
<1>1. PICK r \in 1 .. K :
        /\ i.listings[(last + r) % K] = 1
        /\ IF SecondsLeft(i) < K THEN ag + r = sp \/ ag + r = sp + 1
           ELSE ag + r + SecondsLeft(i) = sp + K
  BY DEF TheClock
<1>2. K \in Nat /\ K > 1 /\ last \in 0 .. K - 1 /\ SecondsLeft(i) \in Nat
  BY DecayConstants, LeftIs DEF Ring
<1>3. r # 1
  BY <1>1
<1>4. r - 1 \in 1 .. K
  BY <1>2, <1>3
<1>5. (((last + 1) % K) + (r - 1)) % K = (last + r) % K
  BY <1>2
<1>6. ag + 1 <= sp
  BY <1>1, <1>2, <1>3
<1>7. IF SecondsLeft(i) < K THEN ag + 1 + (r - 1) = sp \/ ag + 1 + (r - 1) = sp + 1
      ELSE ag + 1 + (r - 1) + SecondsLeft(i) = sp + K
  BY <1>1, <1>2
<1> QED BY <1>1, <1>4, <1>5, <1>6, <1>7 DEF TheClock

(* The bucket's turn has come.                                             *)
LEMMA TurnHasCome ==
  ASSUME NEW i \in ItemRecords, NEW last \in Ring, NEW sp \in Nat, NEW ag \in Nat,
         TheClock(i, last, sp, ag), Count(i) = 1,
         i.listings[(last + 1) % K] >= 1
  PROVE  /\ i.listings[(last + 1) % K] = 1
         /\ IF SecondsLeft(i) < K THEN ag + 1 = sp \/ ag + 1 = sp + 1
            ELSE ag + 1 + SecondsLeft(i) = sp + K
<1>1. PICK r \in 1 .. K :
        /\ i.listings[(last + r) % K] = 1
        /\ IF SecondsLeft(i) < K THEN ag + r = sp \/ ag + r = sp + 1
           ELSE ag + r + SecondsLeft(i) = sp + K
  BY DEF TheClock
<1>2. K \in Nat /\ K > 1 /\ last \in 0 .. K - 1 /\ SecondsLeft(i) \in Nat
  BY DecayConstants, LeftIs DEF Ring
<1>3. (last + 1) % K \in Ring /\ (last + r) % K \in Ring
  BY <1>2 DEF Ring
<1>4. MarkCount(i.listings) <= 1 /\ i.listings \in Lists
  BY LeftIs DEF Count, ItemRecords
<1>5. i.listings[(last + 1) % K] = 1 /\ (last + r) % K = (last + 1) % K
  BY <1>1, <1>3, <1>4, OneMark
<1>6. r = 1
  BY <1>2, <1>5
<1> QED BY <1>1, <1>5, <1>6

LEMMA DecayCheck ==
  ASSUME DecayInv, Decay!CheckDecay
  PROVE  DecayInv'
<1> DEFINE b == (x2 + 1) % K
           all == Seen(x1, b)
           j == Decay!CleanedUp(all, b)
<1>0. K \in Nat /\ K > 1 /\ x2 \in 0 .. K - 1 /\ b \in Ring
  BY DecayConstants DEF DecayInv, DecaysWell, Ring
<1>1. /\ Count(all) <= MaxListings /\ x1' = j /\ x2' = b
      /\ Tracked(all, x1', 1, x3, x4, x3', x4')
      /\ x5' = (/\ x5 /\ Count(all) > 0
                /\ ~(x1.listings[b] = 1 /\ Count(x1) = 1 /\ all.toDecay = 1))
  <2>1. /\ Decay!Listings(all) <= MaxListings /\ x1' = j /\ x2' = b
        /\ Decay!Track(all, x1', 1)
        /\ x5' = (/\ x5 /\ Decay!Listings(all) > 0
                  /\ ~(x1.listings[b] = 1 /\ Decay!Listings(x1) = 1 /\ all.toDecay = 1))
    BY DEF Decay!CheckDecay, Seen
  <2> HIDE DEF all, j, b
  <2>2. Tracked(all, x1', 1, x3, x4, x3', x4')
    BY <2>1, ListingsIs DEF Decay!Track, Tracked, SecondsLeft
  <2> QED BY <2>1, <2>2, ListingsIs
<1> HIDE DEF b, all, j
<1>2. /\ all \in ItemRecords /\ Counted(all) /\ Sought(all) /\ Count(all) <= Count(x1)
      /\ x1.listings[b] = 0 => all = x1
      /\ x1.listings[b] = 1 => Outcome(x1, b, all)
  BY <1>0, SeenIs DEF DecayInv, DecaysWell, all
<1>3. j \in ItemRecords /\ CleanUp(all, b, j)
  BY <1>0, <1>1, <1>2, CleanedUpIs DEF j
<1>4. /\ Count(all) \in Nat /\ Count(j) = Count(all) /\ SecondsLeft(j) = SecondsLeft(all) /\ SecondsLeft(j) \in Nat
      /\ all.toDecay \in Nat /\ all.toDecay <= Count(all) /\ Count(x1) \in Nat
      /\ x1.listings[b] \in Nat /\ x1.listings[b] <= Count(x1) - x1.toDecay /\ x1.toDecay \in Nat
      /\ SecondsLeft(x1) \in Nat
  <2>1. x1 \in ItemRecords /\ x1.listings \in Lists
    BY DEF DecayInv, DecaysWell, ItemRecords
  <2>2. x1.listings[b] <= MarkCount(x1.listings) /\ x1.listings[b] \in Nat
    BY <1>0, <2>1, MarksBound, DecayConstants DEF Lists
  <2>3. /\ Count(x1) = x1.toDecay + MarkCount(x1.listings) /\ MarkCount(x1.listings) \in Nat
        /\ x1.toDecay \in Nat /\ Count(x1) \in Nat /\ SecondsLeft(x1) \in Nat
    BY <2>1, LeftIs DEF Count
  <2>4. Count(all) \in Nat /\ SecondsLeft(all) \in Nat /\ all.toDecay \in Nat /\ all.toDecay <= Count(all)
    BY <1>2, LeftIs
  <2> QED BY <1>3, <2>2, <2>3, <2>4 DEF CleanUp
<1>5. x3' \in Nat /\ x4' \in Nat
  BY <1>1, <1>4 DEF Tracked, DecayInv, DecaysWell
<1>6. x5' \in BOOLEAN /\ (x5' = TRUE => Count(j) > 0)
  BY <1>1, <1>4 DEF DecayInv, DecaysWell
(* The item in its bucket, with its time as it was: it was in no other.    *)
<1>7. ASSUME x5 = FALSE, x1.listings[b] > 0
      PROVE  /\ x1.decaying = TRUE /\ Count(x1) = 1 /\ x1.listings[b] = 1 /\ x1.toDecay = 0
             /\ TheClock(x1, x2, x3, x4) /\ Outcome(x1, b, all)
  <2>1. Count(x1) = 1 /\ x1.decaying = TRUE
    BY <1>4, <1>7 DEF DecayInv, DecaysWell
  <2>2. x1.listings[b] = 1 /\ x1.toDecay = 0
    BY <1>4, <1>7, <2>1
  <2> QED BY <1>2, <1>7, <2>1, <2>2 DEF DecayInv, DecaysWell
<1>8. ASSUME x5' = FALSE, Count(j) > 0
      PROVE  /\ j.decaying = TRUE /\ Count(j) = 1
             /\ x5 = TRUE => all.toDecay = 1
  <2>1. j.decaying = all.decaying /\ Count(all) > 0
    BY <1>3, <1>4, <1>8 DEF CleanUp
  <2>2. CASE x5 = TRUE
    <3>1. x1.listings[b] = 1 /\ Count(x1) = 1 /\ all.toDecay = 1
      BY <1>1, <1>8, <2>1, <2>2
    <3>2. x1.toDecay = 0 /\ Outcome(x1, b, all)
      BY <1>2, <1>4, <3>1
    <3>3. all.decaying = TRUE /\ Count(all) = 1
      BY <1>4, <2>1, <3>1, <3>2 DEF Outcome, Lost, Again, Later
    <3> QED BY <1>4, <2>1, <3>1, <3>3
  <2>3. CASE x5 = FALSE /\ x1.listings[b] = 0
    BY <1>2, <1>4, <2>1, <2>3 DEF DecayInv, DecaysWell
  <2>4. CASE x5 = FALSE /\ x1.listings[b] > 0
    <3>1. x1.decaying = TRUE /\ Count(x1) = 1 /\ Outcome(x1, b, all)
      BY <1>7, <2>4
    <3>2. all.decaying = TRUE /\ Count(all) = 1
      BY <1>4, <2>1, <3>1 DEF Outcome, Lost, Again, Later
    <3> QED BY <1>4, <2>1, <2>4, <3>2
  <2>5. x5 \in BOOLEAN
    BY DEF DecayInv, DecaysWell
  <2>6. x1.listings[b] = 0 \/ x1.listings[b] > 0
    BY <1>4
  <2>7. x5 = TRUE \/ x5 = FALSE
    BY <2>5, Zenon
  <2> QED BY <2>2, <2>3, <2>4, <2>6, <2>7, Zenon
<1>9. ASSUME x5' = FALSE, Count(j) = 1
      PROVE  TheClock(j, b, x3', x4')
  <2>1. CASE all.toDecay = 1
    BY <1>1, <1>3, <1>4, <1>9, <2>1 DEF Tracked, CleanUp
  <2>2. CASE all.toDecay = 0
    <3>1. x5 = FALSE
      <4>1. x5 \in BOOLEAN
        BY DEF DecayInv, DecaysWell
      <4>2. Count(j) > 0 /\ 0 # 1
        BY <1>9
      <4>3. x5 # TRUE
        BY <1>8, <1>9, <2>2, <4>2
      <4> QED BY <4>1, <4>3, Zenon
    <3>2. j.listings = all.listings /\ SecondsLeft(j) = SecondsLeft(all) /\ Count(all) = 1
      BY <1>3, <1>4, <1>9, <2>2 DEF CleanUp
    <3>3. x3' = x3 /\ x4' = IF x4 > x3 THEN x4 ELSE x4 + 1
      BY <1>1, <1>9, <2>2 DEF Tracked
    <3>4. x3 \in Nat /\ x4 \in Nat /\ x1 \in ItemRecords /\ x2 \in Ring
      BY DEF DecayInv, DecaysWell
    <3>5. CASE x1.listings[b] = 0
      <4>1. all = x1 /\ Count(x1) = 1 /\ x1.toDecay = 0
        BY <1>2, <2>2, <3>2, <3>5
      <4>2. TheClock(x1, x2, x3, x4)
        BY <3>1, <4>1 DEF DecayInv, DecaysWell
      <4>3. x4 + 1 <= x3 /\ TheClock(x1, b, x3, x4 + 1)
        BY <3>4, <3>5, <4>1, <4>2, Ticking DEF b
      <4>4. x3' = x3 /\ x4' = x4 + 1
        BY <3>3, <3>4, <4>3
      <4> QED BY <3>2, <4>1, <4>3, <4>4 DEF TheClock
    <3>6. CASE x1.listings[b] > 0
      <4>1. /\ Count(x1) = 1 /\ x1.listings[b] = 1 /\ x1.toDecay = 0
            /\ TheClock(x1, x2, x3, x4) /\ Outcome(x1, b, all)
        BY <1>7, <3>1, <3>6
      <4>2. IF SecondsLeft(x1) < K THEN x4 + 1 = x3 \/ x4 + 1 = x3 + 1
            ELSE x4 + 1 + SecondsLeft(x1) = x3 + K
        BY <3>4, <4>1, TurnHasCome DEF b
      <4>3. Later(x1, b, all)
        BY <2>2, <3>2, <4>1 DEF Outcome, Lost, Again
      <4>4. SecondsLeft(x1) > K /\ SecondsLeft(j) = SecondsLeft(x1) - K
        BY <3>2, <4>3 DEF Later
      <4>5. x3' = x3 /\ x4' = x4 + 1 /\ x4 + 1 + SecondsLeft(j) = x3
        BY <1>0, <1>4, <3>3, <3>4, <4>2, <4>4
      <4>6. CASE SecondsLeft(j) < K
        <5>1. SecondsLeft(j) \in 1 .. K
          BY <1>0, <1>4, <4>4, <4>6
        <5>2. j.listings[(b + SecondsLeft(j)) % K] = 1
          BY <3>2, <4>1, <4>3, <4>6 DEF Later
        <5> QED BY <4>5, <4>6, <5>1, <5>2 DEF TheClock
      <4>7. CASE ~(SecondsLeft(j) < K)
        <5>1. j.listings[b] = 1
          BY <3>2, <4>1, <4>3, <4>7 DEF Later
        <5>2. (b + K) % K = b
          BY <1>0 DEF Ring
        <5>3. K \in 1 .. K /\ x4' + K + SecondsLeft(j) = x3' + K
          BY <1>0, <1>4, <3>4, <4>5
        <5> QED BY <4>7, <5>1, <5>2, <5>3 DEF TheClock
      <4> QED BY <4>6, <4>7
    <3> QED BY <1>4, <3>5, <3>6
  <2> QED BY <1>4, <1>9, <2>1, <2>2
<1> QED BY <1>0, <1>1, <1>2, <1>3, <1>4, <1>5, <1>6, <1>8, <1>9 DEF DecayInv, DecaysWell, CleanUp

LEMMA DecayStepKeeps ==
  ASSUME DecayInv, Decay!Next
  PROVE  DecayInv'
BY DecayCleanup, DecayCheck, DecayStarts, DecayTransform, DecayRemove DEF Decay!Next

LEMMA DecayInvStutters ==
  ASSUME DecayInv, Untouched
  PROVE  DecayInv'
BY DEF DecayInv, Untouched

LEMMA DecayInvIsEnough ==
  DecayInv => Decay!TypeOK /\ Decay!ListedItemExists /\ Decay!DecayingIsListed
<1> SUFFICES ASSUME DecayInv
             PROVE  Decay!TypeOK /\ Decay!ListedItemExists /\ Decay!DecayingIsListed
  OBVIOUS
<1>1. /\ x1 \in ItemRecords /\ Counted(x1) /\ Sought(x1)
      /\ x5 = FALSE /\ Count(x1) > 0 => x1.decaying = TRUE /\ Count(x1) = 1
  BY DEF DecayInv, DecaysWell
<1>2. Decay!Listings(x1) = Count(x1) /\ Count(x1) \in Nat /\ x1.freed \in Nat
  BY <1>1, ListingsIs, LeftIs
<1>3. Decay!TypeOK
  <2>1. x1.refs \in Nat
    BY <1>1, <1>2 DEF Counted, World1
  <2>2. x1.listings \in [Decay!Buckets -> Nat]
    BY <1>1, DecayConstants DEF ItemRecords, Lists
  <2>3. x1 \in Decay!Items
    BY <1>1, <2>1, <2>2 DEF ItemRecords, Decay!Items
  <2> QED BY <2>3, DecayConstants DEF Decay!TypeOK, DecayInv, DecaysWell
<1>4. Decay!ListedItemExists
  BY <1>1, <1>2 DEF Decay!ListedItemExists, Counted, World1, ItemRecords
<1>5. Decay!DecayingIsListed
  <2>1. x1.decaying /\ Decay!TimeLeft(x1) > 0 => Decay!Listings(x1) > 0
    BY <1>1, <1>2 DEF Sought, SecondsLeft, ItemRecords
  <2>2. Decay!Listings(x1) > 1 => x5
    <3>1. x5 = FALSE => ~(Decay!Listings(x1) > 1)
      BY <1>1, <1>2
    <3>2. x5 \in BOOLEAN
      BY DEF DecayInv, DecaysWell
    <3> QED BY <3>1, <3>2, Zenon
  <2> QED BY <2>1, <2>2 DEF Decay!DecayingIsListed
<1> QED BY <1>3, <1>4, <1>5

(* Whoever checkDecay takes or turns into something else had its time.     *)
LEMMA DecayInTime ==
  ASSUME DecayInv, Decay!Next \/ Untouched
  PROVE  Decay!OnTime
<1> SUFFICES ASSUME x2' # x2, ~x5, x1.toDecay = 0,
                    <<x1'.type, x1'.inWorld>> # <<x1.type, x1.inWorld>>
             PROVE  x4 + 1 \in {x3, x3 + 1}
  BY DEF Decay!OnTime
<1>1. Decay!CheckDecay
  BY DEF Untouched, Decay!Next, Decay!Cleanup, Decay!Start, Decay!Transform, Decay!Remove
<1> DEFINE b == (x2 + 1) % K
           all == Seen(x1, b)
<1>0. K \in Nat /\ K > 1 /\ x2 \in 0 .. K - 1 /\ b \in Ring
  BY DecayConstants DEF DecayInv, DecaysWell, Ring
<1>2. Decay!Listings(all) <= MaxListings /\ x1' = Decay!CleanedUp(all, b)
  BY <1>1 DEF Decay!CheckDecay, Seen
<1> HIDE DEF b, all
<1>3. /\ all \in ItemRecords
      /\ x1.listings[b] = 0 => all = x1
      /\ x1.listings[b] = 1 => (SecondsLeft(x1) > K => SameThing(x1, all))
  BY <1>0, SeenIs DEF DecayInv, DecaysWell, all
<1>4. CleanUp(all, b, x1')
  <2>1. Count(all) <= MaxListings
    BY <1>2, ListingsIs
  <2> QED BY <1>0, <1>2, <1>3, <2>1, CleanedUpIs
<1>5. ~SameThing(x1, all)
  BY <1>4 DEF CleanUp, SameThing
<1>6. x1.listings[b] >= 1
  <2>1. x1.listings[b] \in Nat
    BY <1>0, DecayConstants DEF DecayInv, DecaysWell, ItemRecords, Lists
  <2>2. x1.listings[b] # 0
    BY <1>3, <1>5 DEF SameThing
  <2> QED BY <2>1, <2>2
<1>7. x5 = FALSE /\ x1 \in ItemRecords /\ x3 \in Nat /\ x4 \in Nat /\ x2 \in Ring
  BY DEF DecayInv, DecaysWell
<1>8. Count(x1) = 1
  <2>1. Count(x1) > 0
    BY <1>0, <1>6, <1>7, LeftIs, MarksBound, DecayConstants DEF Count, ItemRecords, Lists
  <2> QED BY <1>7, <2>1 DEF DecayInv, DecaysWell
<1>9. TheClock(x1, x2, x3, x4)
  BY <1>7, <1>8 DEF DecayInv, DecaysWell
<1>10. /\ x1.listings[b] = 1
       /\ IF SecondsLeft(x1) < K THEN x4 + 1 = x3 \/ x4 + 1 = x3 + 1
          ELSE x4 + 1 + SecondsLeft(x1) = x3 + K
  BY <1>6, <1>7, <1>8, <1>9, TurnHasCome DEF b
<1>11. ~(SecondsLeft(x1) > K) /\ SecondsLeft(x1) \in Nat
  BY <1>3, <1>5, <1>7, <1>10, LeftIs
<1> QED BY <1>0, <1>7, <1>10, <1>11
-----------------------------------------------------------------------------
(* The owner of a channel is in the game.                                  *)
OwnersOnline == \A c \in Ids : x6[c] # None => x6[c] \in x1

PrivateInv ==
  /\ PrivateChat!TypeOK
  /\ PrivateChat!OnlyEntitledListen
  /\ PrivateChat!ChannelsOfThePresent
  /\ OwnersOnline

PartyInv ==
  /\ PartyChat!TypeOK
  /\ PartyChat!OnlyEntitledListen
  /\ PartyChat!ChannelsOfThePresent
-----------------------------------------------------------------------------
(* The channels players own: one step.                                     *)
LEMMA PrivateChatInit ==
  ASSUME PrivateChat!Init
  PROVE  PrivateInv
BY DEF PrivateChat!Init, PrivateInv, PrivateChat!TypeOK, PrivateChat!OnlyEntitledListen,
       PrivateChat!ChannelsOfThePresent, OwnersOnline, PrivateChat!Owned

LEMMA PrivateChatStepKeeps ==
  ASSUME PrivateInv, PrivateChat!Next
  PROVE  PrivateInv'
<1> USE DEF PrivateInv, PrivateChat!TypeOK, PrivateChat!OnlyEntitledListen,
            PrivateChat!ChannelsOfThePresent, OwnersOnline, PrivateChat!Owned,
            PrivateChat!partyVars, PrivateChat!privateVars
<1>0. None \notin Players
  BY PartsAssumption DEF Party!PartyAssumption
<1>1. PICK p \in Players : PrivateChat!PlayerStep(p)
  BY DEF PrivateChat!Next
<1>2. CASE PrivateChat!CreatePrivate(p)
  BY <1>0, <1>2 DEF PrivateChat!CreatePrivate
<1>3. ASSUME NEW q \in Players, PrivateChat!Invite(p, q)
      PROVE  PrivateInv'
  BY <1>0, <1>3 DEF PrivateChat!Invite
<1>4. ASSUME NEW q \in Players, PrivateChat!Exclude(p, q)
      PROVE  PrivateInv'
  BY <1>0, <1>4 DEF PrivateChat!Exclude
<1>5. ASSUME NEW c \in Ids, PrivateChat!OpenPrivate(p, c)
      PROVE  PrivateInv'
  BY <1>0, <1>5 DEF PrivateChat!OpenPrivate, PrivateChat!IsInvited
<1>6. ASSUME NEW c \in Ids, PrivateChat!ClosePrivate(p, c)
      PROVE  PrivateInv'
  BY <1>0, <1>6 DEF PrivateChat!ClosePrivate, PrivateChat!IsInvited
<1>7. CASE PrivateChat!Replace(p)
  BY <1>0, <1>7 DEF PrivateChat!Replace, PrivateChat!TakenOff, PrivateChat!Behind
<1>8. CASE PrivateChat!Disappear(p)
  BY <1>0, <1>8 DEF PrivateChat!Disappear, PrivateChat!TakenOff, PrivateChat!Behind
<1>9. CASE PrivateChat!UseStale(p)
  BY <1>9 DEF PrivateChat!UseStale
<1>10. CASE PrivateChat!Login(p)
  BY <1>0, <1>10 DEF PrivateChat!Login
<1>11. CASE PrivateChat!LoseLink(p) \/ PrivateChat!Reconnect(p)
  BY <1>11 DEF PrivateChat!LoseLink, PrivateChat!Reconnect
<1>12. CASE PrivateChat!RequestChannels(p) \/ PrivateChat!OpenPartyChannel(p)
            \/ PrivateChat!ClosePartyChannel(p) \/ PrivateChat!LeaveParty(p)
  BY <1>12 DEF PrivateChat!RequestChannels, PrivateChat!OpenPartyChannel,
               PrivateChat!ClosePartyChannel, PrivateChat!LeaveParty
<1> QED
  BY <1>1, <1>2, <1>3, <1>4, <1>5, <1>6, <1>7, <1>8, <1>9, <1>10, <1>11, <1>12
  DEF PrivateChat!PlayerStep
-----------------------------------------------------------------------------
(* The channels of parties: one step.                                      *)
LEMMA PartyChatInit ==
  ASSUME PartyChat!Init
  PROVE  PartyInv
BY DEF PartyChat!Init, PartyInv, PartyChat!TypeOK, PartyChat!OnlyEntitledListen,
       PartyChat!ChannelsOfThePresent, PartyChat!Owned

LEMMA PartyChatStepKeeps ==
  ASSUME PartyInv, PartyChat!Next
  PROVE  PartyInv'
<1> USE DEF PartyInv, PartyChat!TypeOK, PartyChat!OnlyEntitledListen,
            PartyChat!ChannelsOfThePresent, PartyChat!Owned,
            PartyChat!partyVars, PartyChat!privateVars
<1>0. None \notin Players \cup Parties
  BY PartsAssumption DEF Party!PartyAssumption
<1>1. ASSUME NEW p \in Players, PartyChat!RequestChannels(p)
      PROVE  PartyInv'
  BY <1>0, <1>1 DEF PartyChat!RequestChannels
<1>2. ASSUME NEW p \in Players, PartyChat!OpenPartyChannel(p)
      PROVE  PartyInv'
  BY <1>0, <1>2 DEF PartyChat!OpenPartyChannel
<1>3. ASSUME NEW p \in Players, PartyChat!ClosePartyChannel(p)
      PROVE  PartyInv'
  BY <1>0, <1>3 DEF PartyChat!ClosePartyChannel
<1>4. ASSUME NEW p \in Players,
             PartyChat!CreatePrivate(p) \/ PartyChat!UseStale(p)
             \/ \E q \in Players : PartyChat!Invite(p, q) \/ PartyChat!Exclude(p, q)
      PROVE  PartyInv'
  BY <1>4 DEF PartyChat!CreatePrivate, PartyChat!UseStale, PartyChat!Invite, PartyChat!Exclude
<1>5. ASSUME NEW p \in Players, PartyChat!Replace(p)
      PROVE  PartyInv'
  BY <1>5 DEF PartyChat!Replace, PartyChat!TakenOff, PartyChat!Behind
<1>6. ASSUME NEW p \in Players, PartyChat!Disappear(p)
      PROVE  PartyInv'
  BY <1>6 DEF PartyChat!Disappear, PartyChat!TakenOff, PartyChat!Behind
<1>7. ASSUME NEW p \in Players,
             PartyChat!Login(p) \/ PartyChat!LoseLink(p) \/ PartyChat!Reconnect(p)
      PROVE  PartyInv'
  BY <1>7 DEF PartyChat!Login, PartyChat!LoseLink, PartyChat!Reconnect
<1>8. ASSUME NEW p \in Players, NEW g \in Parties, PartyChat!JoinParty(p, g)
      PROVE  PartyInv'
  BY <1>0, <1>8 DEF PartyChat!JoinParty
<1>9. ASSUME NEW p \in Players, PartyChat!LeaveParty(p)
      PROVE  PartyInv'
  BY <1>0, <1>9 DEF PartyChat!LeaveParty, PartyChat!Told, PartyChat!Members
<1>10. ASSUME NEW g \in Parties, PartyChat!DisbandParty(g)
      PROVE  PartyInv'
  BY <1>0, <1>10 DEF PartyChat!DisbandParty, PartyChat!Told, PartyChat!Members
<1> QED
  BY <1>1, <1>2, <1>3, <1>4, <1>5, <1>6, <1>7, <1>8, <1>9, <1>10
  DEF PartyChat!Next, PartyChat!PlayerStep
-----------------------------------------------------------------------------
LEMMA PartyChatStutters ==
  ASSUME PartyInv, Untouched
  PROVE  PartyInv'
BY DEF PartyInv, PartyChat!TypeOK, PartyChat!OnlyEntitledListen, PartyChat!ChannelsOfThePresent,
       PartyChat!Owned, Untouched

LEMMA PrivateChatStutters ==
  ASSUME PrivateInv, Untouched
  PROVE  PrivateInv'
BY DEF PrivateInv, PrivateChat!TypeOK, PrivateChat!OnlyEntitledListen,
       PrivateChat!ChannelsOfThePresent, PrivateChat!Owned, OwnersOnline, Untouched

-----------------------------------------------------------------------------
(* The lists of a party's members.                                         *)
Distinct(seq) == \A i, j \in DOMAIN seq : seq[i] = seq[j] => i = j

LEMMA WithoutDropsOne ==
  ASSUME NEW seq \in Seq(Players), Distinct(seq), NEW p
  PROVE  /\ Party!Without(seq, p) \in Seq(Players)
         /\ Distinct(Party!Without(seq, p))
         /\ Party!Elements(Party!Without(seq, p)) = Party!Elements(seq) \ {p}
<1>1. CASE p \notin Party!Elements(seq)
  BY <1>1 DEF Party!Without, Party!Elements
<1>2. CASE p \in Party!Elements(seq)
  <2> DEFINE n == CHOOSE i \in DOMAIN seq : seq[i] = p
             less == Party!Without(seq, p)
  <2>1. n \in 1 .. Len(seq) /\ seq[n] = p
    BY <1>2 DEF Party!Elements
  <2> DEFINE front == SubSeq(seq, 1, n - 1)
             rest == SubSeq(seq, n + 1, Len(seq))
  <2>2. less = front \o rest
    BY <1>2 DEF Party!Without
  <2>c. Len(seq) \in Nat /\ \A i \in 1 .. Len(seq) : seq[i] \in Players
    OBVIOUS
  <2> HIDE DEF n, less
  <2>a. /\ front \in Seq(Players) /\ Len(front) = n - 1
        /\ \A i \in 1 .. n - 1 : front[i] = seq[i]
    BY <2>1, SubSeqProperties
  <2>b. /\ rest \in Seq(Players) /\ Len(rest) = Len(seq) - n
        /\ \A i \in 1 .. Len(seq) - n : rest[i] = seq[n + i]
    <3>1. \A i \in (n + 1) .. Len(seq) : seq[i] \in Players
      BY <2>1, <2>c
    <3>2. /\ rest \in Seq(Players)
          /\ Len(rest) = IF n + 1 <= Len(seq) THEN Len(seq) - (n + 1) + 1 ELSE 0
          /\ \A i \in 1 .. Len(seq) - (n + 1) + 1 : rest[i] = seq[(n + 1) + i - 1]
      BY <2>1, <2>c, <3>1, SubSeqProperties
    <3> QED BY <2>1, <2>c, <3>2
  <2> HIDE DEF front, rest
  <2>d. /\ less \in Seq(Players)
        /\ Len(less) = Len(front) + Len(rest)
        /\ \A i \in 1 .. Len(front) + Len(rest) :
             less[i] = IF i <= Len(front) THEN front[i] ELSE rest[i - Len(front)]
    <3>1. front \in Seq(Players) /\ rest \in Seq(Players)
      BY <2>a, <2>b
    <3> QED BY <2>2, <3>1, ConcatProperties, Zenon
  <2>3. Len(less) = Len(seq) - 1
    BY <2>1, <2>a, <2>b, <2>c, <2>d
  <2>4. ASSUME NEW i \in 1 .. Len(less)
        PROVE  less[i] = IF i < n THEN seq[i] ELSE seq[i + 1]
    <3>1. i \in 1 .. Len(front) + Len(rest)
      BY <2>d
    <3>2. CASE i < n
      BY <2>1, <2>a, <2>b, <2>c, <2>d, <3>1, <3>2
    <3>3. CASE ~(i < n)
      <4>1. less[i] = rest[i - (n - 1)]
        BY <2>1, <2>a, <2>b, <2>c, <2>d, <3>1, <3>3
      <4>2. i - (n - 1) \in 1 .. Len(seq) - n
        BY <2>1, <2>a, <2>b, <2>c, <3>1, <3>3
      <4>3. n + (i - (n - 1)) = i + 1
        BY <2>1, <2>c, <3>1
      <4>4. rest[i - (n - 1)] = seq[n + (i - (n - 1))]
        BY <2>b, <4>2
      <4> QED BY <3>3, <4>1, <4>3, <4>4
    <3> QED BY <3>2, <3>3
  <2>e. /\ DOMAIN less = 1 .. Len(less) /\ DOMAIN seq = 1 .. Len(seq)
        /\ Len(less) \in Nat
        /\ \A i, j \in 1 .. Len(seq) : seq[i] = seq[j] => i = j
    BY <2>d DEF Distinct
  <2>5. ASSUME NEW i \in 1 .. Len(less), NEW j \in 1 .. Len(less), less[i] = less[j]
        PROVE  i = j
    <3>1. /\ i \in 1 .. Len(seq) /\ i + 1 \in 1 .. Len(seq)
          /\ j \in 1 .. Len(seq) /\ j + 1 \in 1 .. Len(seq)
      BY <2>c, <2>3, <2>e
    <3> QED BY <2>1, <2>4, <2>5, <2>e, <3>1
  <2>6. ASSUME NEW i \in 1 .. Len(less)
        PROVE  less[i] \in Party!Elements(seq) \ {p}
    <3>1. i \in 1 .. Len(seq) /\ i + 1 \in 1 .. Len(seq)
      BY <2>c, <2>3, <2>e
    <3>2. less[i] \in Party!Elements(seq)
      BY <2>4, <2>e, <3>1 DEF Party!Elements
    <3>3. less[i] # p
      BY <2>1, <2>4, <2>e, <3>1
    <3> QED BY <3>2, <3>3
  <2>7. ASSUME NEW j \in DOMAIN seq, seq[j] # p
        PROVE  seq[j] \in Party!Elements(less)
    <3>1. CASE j < n
      <4>1. j \in 1 .. Len(less) /\ less[j] = seq[j]
        BY <2>1, <2>3, <2>4, <2>c, <2>e, <3>1
      <4> QED BY <2>e, <4>1 DEF Party!Elements
    <3>2. CASE j > n
      <4>1. j - 1 \in 1 .. Len(less) /\ (j - 1) + 1 = j /\ ~(j - 1 < n)
        BY <2>1, <2>3, <2>c, <2>e, <3>2
      <4>2. less[j - 1] = seq[j]
        BY <2>4, <4>1
      <4> QED BY <2>e, <4>1, <4>2 DEF Party!Elements
    <3> QED BY <2>1, <2>7, <2>e, <3>1, <3>2
  <2>8. Party!Elements(less) = Party!Elements(seq) \ {p}
    BY <2>6, <2>7, <2>e DEF Party!Elements
  <2>9. Distinct(less)
    BY <2>5, <2>e DEF Distinct
  <2> QED BY <2>8, <2>9, <2>d DEF less
<1> QED BY <1>1, <1>2

LEMMA InFrontOf ==
  ASSUME NEW seq \in Seq(Players), Distinct(seq), NEW p \in Players,
         p \notin Party!Elements(seq)
  PROVE  /\ <<p>> \o seq \in Seq(Players)
         /\ Distinct(<<p>> \o seq)
         /\ Party!Elements(<<p>> \o seq) = Party!Elements(seq) \cup {p}
         /\ <<p>> \o seq # <<>>
<1> DEFINE more == <<p>> \o seq
<1>1. more \in Seq(Players) /\ Len(more) = Len(seq) + 1
  OBVIOUS
<1>2. \A i \in DOMAIN more : more[i] = IF i = 1 THEN p ELSE seq[i - 1]
  OBVIOUS
<1>3. more[1] = p /\ \A i \in DOMAIN seq : i + 1 \in DOMAIN more /\ more[i + 1] = seq[i]
  OBVIOUS
<1> HIDE DEF more
<1>4. Distinct(more)
  BY <1>1, <1>2 DEF Distinct, Party!Elements
<1>5. Party!Elements(more) = Party!Elements(seq) \cup {p}
  BY <1>1, <1>2, <1>3 DEF Party!Elements
<1> QED BY <1>1, <1>4, <1>5 DEF more

LEMMA AtTheEnd ==
  ASSUME NEW seq \in Seq(Players), Distinct(seq), NEW p \in Players,
         p \notin Party!Elements(seq)
  PROVE  /\ Append(seq, p) \in Seq(Players)
         /\ Distinct(Append(seq, p))
         /\ Party!Elements(Append(seq, p)) = Party!Elements(seq) \cup {p}
         /\ Append(seq, p) # <<>>
<1> DEFINE more == Append(seq, p)
<1>1. more \in Seq(Players) /\ Len(more) = Len(seq) + 1
  OBVIOUS
<1>2. \A i \in DOMAIN more : more[i] = IF i = Len(more) THEN p ELSE seq[i]
  OBVIOUS
<1>3. more[Len(more)] = p /\ \A i \in DOMAIN seq : i \in DOMAIN more /\ more[i] = seq[i]
  OBVIOUS
<1> HIDE DEF more
<1>4. Distinct(more)
  BY <1>1, <1>2 DEF Distinct, Party!Elements
<1>5. Party!Elements(more) = Party!Elements(seq) \cup {p}
  BY <1>1, <1>2, <1>3 DEF Party!Elements
<1> QED BY <1>1, <1>4, <1>5 DEF more
-----------------------------------------------------------------------------
(* What the calls hand on, and when players and parties agree in it: the   *)
(* players in the game are "on".                                           *)
PartyStates ==
  [party : [Players -> Parties \cup {None}], invitations : [Players -> SUBSET Parties],
   leader : [Parties -> Players \cup {None}], memberList : [Parties -> Seq(Players)],
   inviteList : [Parties -> SUBSET Players], strayed : SUBSET (Players \X Parties)]

Roster(s, g) == Party!Elements(s.memberList[g])

(* All but the company itself.                                             *)
Listed(s, on, g) ==
  /\ \A p \in Players : s.party[p] = g <=> p = s.leader[g] \/ p \in Roster(s, g)
  /\ s.leader[g] \notin Roster(s, g)
  /\ Distinct(s.memberList[g])
  /\ Roster(s, g) \subseteq on /\ s.inviteList[g] \subseteq on
  /\ s.leader[g] # None => s.leader[g] \in on
  /\ \A p \in s.inviteList[g] : g \in s.invitations[p]
  /\ s.leader[g] = None => s.memberList[g] = <<>> /\ s.inviteList[g] = {}

Company(s, g) == s.leader[g] # None => ~Party!CanDisband(s, g)

Remembered(s) ==
  \A g \in Parties, p \in Players :
    g \in s.invitations[p] => p \in s.inviteList[g] \/ <<p, g>> \in s.strayed

Consistent(s, on) ==
  /\ s \in PartyStates
  /\ Remembered(s)
  /\ \A g \in Parties : Listed(s, on, g) /\ Company(s, g)

PartyFields == {"party", "invitations", "leader", "memberList", "inviteList", "strayed"}

LEMMA IsPartyState ==
  ASSUME NEW t, t = [x \in PartyFields |-> t[x]],
         t.party \in [Players -> Parties \cup {None}],
         t.invitations \in [Players -> SUBSET Parties],
         t.leader \in [Parties -> Players \cup {None}],
         t.memberList \in [Parties -> Seq(Players)],
         t.inviteList \in [Parties -> SUBSET Players],
         t.strayed \in SUBSET (Players \X Parties)
  PROVE  t \in PartyStates
BY DEF PartyStates, PartyFields

LEMMA NoneIsNobody == None \notin Players \cup Parties
BY PartsAssumption DEF Party!PartyAssumption

LEMMA RosterType ==
  ASSUME NEW s \in PartyStates, NEW g \in Parties
  PROVE  /\ Roster(s, g) \subseteq Players
         /\ s.memberList[g] \in Seq(Players)
         /\ Roster(s, g) = {} <=> s.memberList[g] = <<>>
<1>1. s.memberList[g] \in Seq(Players)
  BY DEF PartyStates
<1> DEFINE seq == s.memberList[g]
<1>2. seq # <<>> => 1 \in DOMAIN seq
  BY <1>1
<1>3. \A i \in DOMAIN seq : seq[i] \in Players
  BY <1>1
<1>4. seq = <<>> => DOMAIN seq = {}
  OBVIOUS
<1> HIDE DEF seq
<1>5. /\ Party!Elements(seq) \subseteq Players
      /\ Party!Elements(seq) = {} <=> seq = <<>>
  BY <1>2, <1>3, <1>4 DEF Party!Elements
<1> QED BY <1>1, <1>5 DEF Roster, seq

(* A party that disbands leaves the others as they are.                    *)
LEMMA DisbandAgrees ==
  ASSUME NEW s \in PartyStates, NEW on, NEW g \in Parties, Remembered(s),
         \A h \in Parties \ {g} : Listed(s, on, h) /\ Company(s, h),
         \A p \in Players : s.party[p] = g => p = s.leader[g] \/ p \in Roster(s, g),
         \A p \in Players : p = s.leader[g] \/ p \in Roster(s, g) => s.party[p] \in {g, None}
  PROVE  /\ Consistent(Party!Disband(s, g), on)
         /\ \A p \in Players : /\ s.party[p] = None => Party!Disband(s, g).party[p] = None
                               /\ Party!Disband(s, g).invitations[p] \subseteq s.invitations[p]
<1> DEFINE t == Party!Disband(s, g)
           gone == {s.leader[g]} \cup Party!Elements(s.memberList[g])
<1>1. t.party = [p \in Players |-> IF p \in gone THEN None ELSE s.party[p]]
  BY DEF Party!Disband, PartyStates
<1>2. t.invitations = [p \in Players |->
        IF p \in s.inviteList[g] THEN s.invitations[p] \ {g} ELSE s.invitations[p]]
  BY DEF Party!Disband, PartyStates
<1>3. t.inviteList = [s.inviteList EXCEPT ![g] = {}]
  BY DEF Party!Disband, PartyStates
<1>4. t.memberList = [s.memberList EXCEPT ![g] = <<>>]
  BY DEF Party!Disband, PartyStates
<1>5. t.leader = [s.leader EXCEPT ![g] = None]
  BY DEF Party!Disband, PartyStates
<1>6. t.strayed = s.strayed
  BY DEF Party!Disband, PartyStates
<1>7. t \in PartyStates
  <2>1. t = [x \in PartyFields |-> t[x]]
    BY DEF Party!Disband, PartyStates, PartyFields
  <2>2. /\ t.party \in [Players -> Parties \cup {None}]
        /\ t.invitations \in [Players -> SUBSET Parties]
    BY <1>1, <1>2 DEF PartyStates
  <2>3. /\ t.inviteList \in [Parties -> SUBSET Players]
        /\ t.memberList \in [Parties -> Seq(Players)]
        /\ t.leader \in [Parties -> Players \cup {None}]
        /\ t.strayed \subseteq Players \X Parties
    BY <1>3, <1>4, <1>5, <1>6 DEF PartyStates
  <2> HIDE DEF t
  <2> QED BY <2>1, <2>2, <2>3, IsPartyState
<1> HIDE DEF t
<1>8. /\ \A p \in Players : t.party[p] = IF p \in gone THEN None ELSE s.party[p]
      /\ \A p \in Players : t.invitations[p] =
           IF p \in s.inviteList[g] THEN s.invitations[p] \ {g} ELSE s.invitations[p]
      /\ t.inviteList[g] = {} /\ t.memberList[g] = <<>> /\ t.leader[g] = None
      /\ \A h \in Parties \ {g} : /\ t.inviteList[h] = s.inviteList[h]
                                  /\ t.memberList[h] = s.memberList[h]
                                  /\ t.leader[h] = s.leader[h]
      /\ t.strayed = s.strayed
  <2>1. /\ s.inviteList \in [Parties -> SUBSET Players]
        /\ s.memberList \in [Parties -> Seq(Players)]
        /\ s.leader \in [Parties -> Players \cup {None}]
    BY DEF PartyStates
  <2> HIDE DEF gone
  <2>2. /\ \A p \in Players : t.party[p] = IF p \in gone THEN None ELSE s.party[p]
        /\ \A p \in Players : t.invitations[p] =
             IF p \in s.inviteList[g] THEN s.invitations[p] \ {g} ELSE s.invitations[p]
    BY <1>1, <1>2
  <2>3. /\ t.inviteList[g] = {} /\ t.memberList[g] = <<>> /\ t.leader[g] = None
        /\ \A h \in Parties \ {g} : /\ t.inviteList[h] = s.inviteList[h]
                                    /\ t.memberList[h] = s.memberList[h]
                                    /\ t.leader[h] = s.leader[h]
    BY <1>3, <1>4, <1>5, <2>1
  <2> QED BY <1>6, <2>2, <2>3
<1>9. Remembered(t)
  <2> SUFFICES ASSUME NEW h \in Parties, NEW p \in Players, h \in t.invitations[p]
               PROVE  p \in t.inviteList[h] \/ <<p, h>> \in t.strayed
    BY DEF Remembered
  <2>0. t.invitations[p] =
          IF p \in s.inviteList[g] THEN s.invitations[p] \ {g} ELSE s.invitations[p]
    BY <1>2
  <2>1. h \in s.invitations[p] /\ (p \in s.inviteList[g] => h # g)
    BY <2>0
  <2>2. p \in s.inviteList[h] \/ <<p, h>> \in s.strayed
    BY <2>1, Zenon DEF Remembered
  <2>3. h # g => t.inviteList[h] = s.inviteList[h]
    BY <1>8
  <2> QED BY <1>8, <2>1, <2>2, <2>3
<1>10. ASSUME NEW h \in Parties \ {g}
      PROVE  Listed(t, on, h) /\ Company(t, h)
  <2>1. Roster(t, h) = Roster(s, h) /\ Roster(s, h) \subseteq Players
    BY <1>8, RosterType DEF Roster
  <2>2. \A p \in Players : t.party[p] = h <=> s.party[p] = h
    BY <1>8, NoneIsNobody DEF Roster
  <2>3. \A p \in s.inviteList[h] : p \in Players /\ (h \in t.invitations[p] <=> h \in s.invitations[p])
    <3>1. s.inviteList[h] \subseteq Players
      BY DEF PartyStates
    <3>2. \A p \in Players : h \in t.invitations[p] <=> h \in s.invitations[p]
      BY <1>8
    <3> QED BY <3>1, <3>2
  <2> QED BY <1>8, <2>1, <2>2, <2>3 DEF Listed, Company, Party!CanDisband
<1>11. Listed(t, on, g) /\ Company(t, g)
  <2>1. Roster(t, g) = {} /\ Distinct(t.memberList[g])
    BY <1>8 DEF Roster, Party!Elements, Distinct
  <2>2. \A p \in Players : t.party[p] # g
    BY <1>8, NoneIsNobody DEF Roster
  <2> QED BY <1>8, <2>1, <2>2, NoneIsNobody DEF Listed, Company
<1>12. \A p \in Players : /\ s.party[p] = None => t.party[p] = None
                         /\ t.invitations[p] \subseteq s.invitations[p]
  BY <1>8
<1> QED BY <1>7, <1>9, <1>10, <1>11, <1>12 DEF Consistent, t

(* The lead goes to a member.                                              *)
LEMMA PassLeadershipAgrees ==
  ASSUME NEW s, NEW on, Consistent(s, on), NEW g \in Parties, s.leader[g] # None,
         NEW q \in Roster(s, g)
  PROVE  LET t == Party!PassLeadership(s, g, q) IN
         /\ Consistent(t, on)
         /\ t.leader[g] = q /\ s.leader[g] \in Roster(t, g)
         /\ t.party = s.party /\ t.invitations = s.invitations
         /\ t.inviteList = s.inviteList /\ t.strayed = s.strayed
<1> DEFINE t == Party!PassLeadership(s, g, q)
           rest == Party!Without(s.memberList[g], q)
           more == <<s.leader[g]>> \o rest
<1>0. s \in PartyStates /\ Remembered(s) /\ \A h \in Parties : Listed(s, on, h) /\ Company(s, h)
  BY DEF Consistent
<1>1. /\ s.leader[g] \in Players /\ q \in Players /\ s.memberList[g] \in Seq(Players)
      /\ Distinct(s.memberList[g]) /\ s.leader[g] \notin Roster(s, g)
  <2>1. Roster(s, g) \subseteq Players /\ s.memberList[g] \in Seq(Players)
    BY <1>0, RosterType
  <2>2. s.leader[g] \in Players
    BY <1>0 DEF PartyStates
  <2> QED BY <1>0, <2>1, <2>2 DEF Listed
<1>2. /\ rest \in Seq(Players) /\ Distinct(rest)
      /\ Party!Elements(rest) = Roster(s, g) \ {q}
  BY <1>1, WithoutDropsOne DEF Roster
<1> HIDE DEF rest
<1>3. /\ more \in Seq(Players) /\ Distinct(more) /\ more # <<>>
      /\ Party!Elements(more) = (Roster(s, g) \ {q}) \cup {s.leader[g]}
  BY <1>1, <1>2, InFrontOf
<1>4. t.leader = [s.leader EXCEPT ![g] = q]
  BY <1>0 DEF Party!PassLeadership, PartyStates
<1>5. t.memberList = [s.memberList EXCEPT ![g] = more]
  BY <1>0 DEF Party!PassLeadership, PartyStates, rest
<1>6. /\ t.party = s.party /\ t.invitations = s.invitations
      /\ t.inviteList = s.inviteList /\ t.strayed = s.strayed
  BY <1>0 DEF Party!PassLeadership, PartyStates
<1>7. t = [x \in PartyFields |-> t[x]]
  BY <1>0 DEF Party!PassLeadership, PartyStates, PartyFields
<1> HIDE DEF t, more
<1>8. t \in PartyStates
  <2>1. /\ t.leader \in [Parties -> Players \cup {None}]
        /\ t.memberList \in [Parties -> Seq(Players)]
    BY <1>0, <1>1, <1>3, <1>4, <1>5 DEF PartyStates
  <2>2. /\ t.party \in [Players -> Parties \cup {None}]
        /\ t.invitations \in [Players -> SUBSET Parties]
        /\ t.inviteList \in [Parties -> SUBSET Players]
        /\ t.strayed \in SUBSET (Players \X Parties)
    BY <1>0, <1>6 DEF PartyStates
  <2> QED BY <1>7, <2>1, <2>2, IsPartyState
<1>9. Remembered(t)
  BY <1>0, <1>6 DEF Remembered
<1>10. /\ t.leader[g] = q /\ t.memberList[g] = more
       /\ \A h \in Parties \ {g} : t.leader[h] = s.leader[h] /\ t.memberList[h] = s.memberList[h]
  BY <1>0, <1>4, <1>5 DEF PartyStates
<1>11. Roster(t, g) = (Roster(s, g) \ {q}) \cup {s.leader[g]}
  BY <1>3, <1>10 DEF Roster
<1>12. ASSUME NEW h \in Parties \ {g}
       PROVE  Listed(t, on, h) /\ Company(t, h)
  <2>1. Roster(t, h) = Roster(s, h)
    BY <1>10 DEF Roster
  <2> QED BY <1>0, <1>6, <1>10, <2>1 DEF Listed, Company, Party!CanDisband
<1>13. Listed(t, on, g)
  <2>1. Listed(s, on, g)
    BY <1>0
  <2>2. \A p \in Players : t.party[p] = g <=> p = t.leader[g] \/ p \in Roster(t, g)
    BY <1>1, <1>6, <1>10, <1>11, <2>1 DEF Listed
  <2>3. t.leader[g] \notin Roster(t, g) /\ t.leader[g] # None
    BY <1>1, <1>10, <1>11, NoneIsNobody
  <2>4. Roster(t, g) \subseteq on /\ t.leader[g] \in on
    BY <1>10, <1>11, <2>1 DEF Listed
  <2> QED BY <1>3, <1>6, <1>10, <2>1, <2>2, <2>3, <2>4 DEF Listed
<1>14. Company(t, g)
  BY <1>3, <1>10 DEF Company, Party!CanDisband
<1>15. Consistent(t, on)
  BY <1>8, <1>9, <1>12, <1>13, <1>14 DEF Consistent
<1> QED BY <1>6, <1>10, <1>11, <1>15 DEF t

(* Somebody is taken off the lists.                                        *)
Left(s, g, p, stray) ==
  [s EXCEPT
     !.memberList[g] = Party!Without(@, p),
     !.inviteList[g] = @ \ {p},
     !.party[p] = None,
     !.strayed = IF stray THEN @ \cup {<<p, g>>} ELSE @]

LEMMA WhoHasLeft ==
  ASSUME NEW s, NEW on, Consistent(s, on), NEW g \in Parties, NEW p \in Players,
         s.party[p] = g
  PROVE  LET t == Left(s, g, p, p \in s.inviteList[g]) IN
         /\ t \in PartyStates /\ Remembered(t)
         /\ \A h \in Parties \ {g} : Listed(t, on, h) /\ Company(t, h)
         /\ \A q \in Players : t.party[q] = g => q = t.leader[g] \/ q \in Roster(t, g)
         /\ \A q \in Players : q = t.leader[g] \/ q \in Roster(t, g) => t.party[q] \in {g, None}
         /\ p # s.leader[g] => Listed(t, on, g)
         /\ t.party[p] = None /\ t.invitations = s.invitations
<1> DEFINE stray == p \in s.inviteList[g]
           t == Left(s, g, p, stray)
           rest == Party!Without(s.memberList[g], p)
<1>0. s \in PartyStates /\ Remembered(s) /\ \A h \in Parties : Listed(s, on, h) /\ Company(s, h)
  BY DEF Consistent
<1>1. s.memberList[g] \in Seq(Players) /\ Distinct(s.memberList[g])
  BY <1>0, RosterType DEF Listed
<1>2. /\ rest \in Seq(Players) /\ Distinct(rest)
      /\ Party!Elements(rest) = Roster(s, g) \ {p}
  BY <1>1, WithoutDropsOne DEF Roster
<1> HIDE DEF rest
<1>3. t.memberList = [s.memberList EXCEPT ![g] = rest]
  BY <1>0 DEF Left, PartyStates, rest
<1>4. t.inviteList = [s.inviteList EXCEPT ![g] = @ \ {p}]
  BY <1>0 DEF Left, PartyStates
<1>5. t.party = [s.party EXCEPT ![p] = None]
  BY <1>0 DEF Left, PartyStates
<1>6. t.strayed = IF stray THEN s.strayed \cup {<<p, g>>} ELSE s.strayed
  BY <1>0 DEF Left, PartyStates
<1>7. t.leader = s.leader /\ t.invitations = s.invitations
  BY <1>0 DEF Left, PartyStates
<1>8. t = [x \in PartyFields |-> t[x]]
  BY <1>0 DEF Left, PartyStates, PartyFields
<1> HIDE DEF t
<1>9. t \in PartyStates
  <2>1. /\ t.party \in [Players -> Parties \cup {None}]
        /\ t.memberList \in [Parties -> Seq(Players)]
        /\ t.inviteList \in [Parties -> SUBSET Players]
    BY <1>0, <1>2, <1>3, <1>4, <1>5 DEF PartyStates
  <2>2. t.strayed \in SUBSET (Players \X Parties)
    BY <1>0, <1>6 DEF PartyStates
  <2>3. /\ t.leader \in [Parties -> Players \cup {None}]
        /\ t.invitations \in [Players -> SUBSET Parties]
    BY <1>0, <1>7 DEF PartyStates
  <2> QED BY <1>8, <2>1, <2>2, <2>3, IsPartyState
<1>10. /\ t.memberList[g] = rest /\ t.inviteList[g] = s.inviteList[g] \ {p}
       /\ \A h \in Parties \ {g} : /\ t.memberList[h] = s.memberList[h]
                                   /\ t.inviteList[h] = s.inviteList[h]
       /\ t.party[p] = None /\ \A q \in Players \ {p} : t.party[q] = s.party[q]
  BY <1>0, <1>3, <1>4, <1>5 DEF PartyStates
<1>11. Remembered(t)
  <2> SUFFICES ASSUME NEW h \in Parties, NEW q \in Players, h \in t.invitations[q],
                      q \notin t.inviteList[h]
               PROVE  <<q, h>> \in t.strayed
    BY DEF Remembered
  <2>1. q \in s.inviteList[h] \/ <<q, h>> \in s.strayed
    BY <1>0, <1>7 DEF Remembered
  <2>2. CASE <<q, h>> \in s.strayed
    BY <1>6, <2>2
  <2>3. CASE q \in s.inviteList[h]
    BY <1>6, <1>10, <2>3
  <2> QED BY <2>1, <2>2, <2>3
<1>12. Roster(t, g) = Roster(s, g) \ {p} /\ \A h \in Parties \ {g} : Roster(t, h) = Roster(s, h)
  BY <1>2, <1>10 DEF Roster
<1>13. ASSUME NEW h \in Parties \ {g}
       PROVE  Listed(t, on, h) /\ Company(t, h)
  <2>1. \A q \in Players : t.party[q] = h <=> s.party[q] = h
    BY <1>10, NoneIsNobody
  <2> QED BY <1>0, <1>7, <1>10, <1>12, <2>1 DEF Listed, Company, Party!CanDisband
<1>14. Listed(s, on, g) /\ g # None
  BY <1>0, NoneIsNobody
<1>15. \A q \in Players : t.party[q] = g => q = t.leader[g] \/ q \in Roster(t, g)
  BY <1>7, <1>10, <1>12, <1>14 DEF Listed
<1>16. \A q \in Players : q = t.leader[g] \/ q \in Roster(t, g) => t.party[q] \in {g, None}
  BY <1>7, <1>10, <1>12, <1>14 DEF Listed
<1>17. ASSUME p # s.leader[g]
       PROVE  Listed(t, on, g)
  <2>1. p \in Roster(s, g) /\ s.leader[g] # None
    <3>1. p \in Roster(s, g)
      BY <1>14, <1>17 DEF Listed
    <3>2. Roster(s, g) # {} => s.memberList[g] # <<>>
      BY <1>0, RosterType
    <3> QED BY <1>14, <3>1, <3>2 DEF Listed
  <2>2. \A q \in Players : t.party[q] = g <=> q = t.leader[g] \/ q \in Roster(t, g)
    BY <1>7, <1>10, <1>12, <1>14, <1>17, NoneIsNobody DEF Listed
  <2>3. /\ t.leader[g] \notin Roster(t, g)
        /\ Roster(t, g) \subseteq on /\ t.inviteList[g] \subseteq on /\ t.leader[g] \in on
        /\ \A q \in t.inviteList[g] : g \in t.invitations[q]
    BY <1>7, <1>10, <1>12, <1>14, <2>1 DEF Listed
  <2>4. Distinct(t.memberList[g]) /\ t.leader[g] # None
    BY <1>2, <1>7, <1>10, <2>1
  <2> QED BY <2>2, <2>3, <2>4 DEF Listed
<1> QED BY <1>7, <1>9, <1>10, <1>11, <1>13, <1>15, <1>16, <1>17 DEF t

LEMMA LeaveAgrees ==
  ASSUME NEW s, NEW on, Consistent(s, on), NEW p \in Players, s.party[p] # None
  PROVE  LET t == Party!Leave(s, p) IN
         /\ Consistent(t, on) /\ t.party[p] = None
         /\ t.invitations[p] \subseteq s.invitations[p]
<1> DEFINE g == s.party[p]
           missing == s.leader[g] = p /\ \/ s.memberList[g] = <<>>
                                         \/ Len(s.memberList[g]) = 1 /\ s.inviteList[g] = {}
           passed == IF s.leader[g] = p /\ ~missing
                       THEN Party!PassLeadership(s, g, Head(s.memberList[g])) ELSE s
           left == Left(passed, g, p, p \in s.inviteList[g])
           t == Party!Leave(s, p)
<1>1. t = IF missing \/ Party!CanDisband(left, g) THEN Party!Disband(left, g) ELSE left
  BY DEF Party!Leave, Left
<1>2. s \in PartyStates /\ g \in Parties
  BY DEF Consistent, PartyStates
<1>3. /\ Consistent(passed, on) /\ passed.party = s.party
      /\ passed.invitations = s.invitations /\ passed.inviteList = s.inviteList
      /\ ~missing => p # passed.leader[g]
  <2>1. CASE s.leader[g] = p /\ ~missing
    <3>1. s.memberList[g] \in Seq(Players) /\ s.memberList[g] # <<>>
      BY <1>2, <2>1, RosterType
    <3>2. Head(s.memberList[g]) \in Roster(s, g)
      BY <3>1 DEF Roster, Party!Elements
    <3>3. p \notin Roster(s, g) /\ s.leader[g] # None
      BY <1>2, <2>1, NoneIsNobody DEF Consistent, Listed
    <3>4. passed = Party!PassLeadership(s, g, Head(s.memberList[g]))
      BY <2>1
    <3> HIDE DEF passed, missing, g
    <3> QED BY <1>2, <3>2, <3>3, <3>4, PassLeadershipAgrees
  <2>2. CASE ~(s.leader[g] = p /\ ~missing)
    BY <2>2
  <2> QED BY <2>1, <2>2
<1> HIDE DEF passed, missing
<1>4. passed.party[p] = g /\ left = Left(passed, g, p, p \in passed.inviteList[g])
  BY <1>3
<1> HIDE DEF left, g
<1>5. /\ left \in PartyStates /\ Remembered(left)
      /\ \A h \in Parties \ {g} : Listed(left, on, h) /\ Company(left, h)
      /\ \A q \in Players : left.party[q] = g => q = left.leader[g] \/ q \in Roster(left, g)
      /\ \A q \in Players : q = left.leader[g] \/ q \in Roster(left, g) => left.party[q] \in {g, None}
      /\ p # passed.leader[g] => Listed(left, on, g)
      /\ left.party[p] = None /\ left.invitations = s.invitations
  BY <1>2, <1>3, <1>4, WhoHasLeft
<1>6. CASE missing \/ Party!CanDisband(left, g)
  <2>1. t = Party!Disband(left, g)
    BY <1>1, <1>6
  <2> HIDE DEF t
  <2>2. /\ Consistent(t, on)
        /\ left.party[p] = None => t.party[p] = None
        /\ t.invitations[p] \subseteq left.invitations[p]
    BY <1>2, <1>5, <2>1, DisbandAgrees
  <2> QED BY <1>5, <2>2 DEF t
<1>7. CASE ~(missing \/ Party!CanDisband(left, g))
  <2>1. t = left
    BY <1>1, <1>7
  <2>2. Listed(left, on, g) /\ Company(left, g)
    BY <1>3, <1>5, <1>7 DEF Company
  <2> HIDE DEF t
  <2>3. Consistent(t, on)
    BY <1>5, <2>1, <2>2 DEF Consistent
  <2> QED BY <1>5, <2>1, <2>3 DEF t
<1> QED BY <1>6, <1>7

(* An invitation is withdrawn.                                             *)
LEMMA RemoveInviteAgrees ==
  ASSUME NEW s, NEW on, Consistent(s, on), NEW g \in Parties, NEW p \in Players
  PROVE  Consistent(Party!RemoveInvite(s, g, p), on)
<1> DEFINE t == [s EXCEPT !.inviteList[g] = @ \ {p}, !.invitations[p] = @ \ {g}]
<1>0. s \in PartyStates /\ Remembered(s) /\ \A h \in Parties : Listed(s, on, h) /\ Company(s, h)
  BY DEF Consistent
<1>1. t.inviteList = [s.inviteList EXCEPT ![g] = @ \ {p}]
  BY <1>0 DEF PartyStates
<1>2. t.invitations = [s.invitations EXCEPT ![p] = @ \ {g}]
  BY <1>0 DEF PartyStates
<1>3. /\ t.party = s.party /\ t.leader = s.leader /\ t.memberList = s.memberList
      /\ t.strayed = s.strayed
  BY <1>0 DEF PartyStates
<1>4. t = [x \in PartyFields |-> t[x]]
  BY <1>0 DEF PartyStates, PartyFields
<1> HIDE DEF t
<1>5. t \in PartyStates
  <2>1. /\ t.inviteList \in [Parties -> SUBSET Players]
        /\ t.invitations \in [Players -> SUBSET Parties]
    BY <1>0, <1>1, <1>2 DEF PartyStates
  <2>2. /\ t.party \in [Players -> Parties \cup {None}]
        /\ t.leader \in [Parties -> Players \cup {None}]
        /\ t.memberList \in [Parties -> Seq(Players)]
        /\ t.strayed \in SUBSET (Players \X Parties)
    BY <1>0, <1>3 DEF PartyStates
  <2> QED BY <1>4, <2>1, <2>2, IsPartyState
<1>6. /\ t.inviteList[g] = s.inviteList[g] \ {p}
      /\ \A h \in Parties \ {g} : t.inviteList[h] = s.inviteList[h]
      /\ t.invitations[p] = s.invitations[p] \ {g}
      /\ \A q \in Players \ {p} : t.invitations[q] = s.invitations[q]
  BY <1>0, <1>1, <1>2 DEF PartyStates
<1>7. Remembered(t)
  BY <1>0, <1>3, <1>6 DEF Remembered
<1>8. \A h \in Parties : Roster(t, h) = Roster(s, h)
  BY <1>3 DEF Roster
<1>9. ASSUME NEW h \in Parties \ {g}
      PROVE  Listed(t, on, h) /\ Company(t, h)
  <2>1. \A q \in s.inviteList[h] : q \in Players /\ (h \in t.invitations[q] <=> h \in s.invitations[q])
    BY <1>0, <1>6 DEF PartyStates
  <2> QED BY <1>0, <1>3, <1>6, <1>8, <2>1 DEF Listed, Company, Party!CanDisband
<1>10. Listed(t, on, g)
  <2>1. \A q \in s.inviteList[g] \ {p} : q \in Players /\ t.invitations[q] = s.invitations[q]
    BY <1>0, <1>6 DEF PartyStates
  <2> QED BY <1>0, <1>3, <1>6, <1>8, <2>1 DEF Listed
<1>11. CASE p \notin s.inviteList[g]
  BY <1>11 DEF Party!RemoveInvite
<1>12. CASE p \in s.inviteList[g] /\ Party!CanDisband(t, g)
  <2>1. Party!RemoveInvite(s, g, p) = Party!Disband(t, g)
    BY <1>12 DEF Party!RemoveInvite, t
  <2>2. /\ \A q \in Players : t.party[q] = g => q = t.leader[g] \/ q \in Roster(t, g)
        /\ \A q \in Players : q = t.leader[g] \/ q \in Roster(t, g) => t.party[q] \in {g, None}
    BY <1>10 DEF Listed
  <2> QED BY <1>5, <1>7, <1>9, <2>1, <2>2, DisbandAgrees
<1>13. CASE p \in s.inviteList[g] /\ ~Party!CanDisband(t, g)
  <2>1. Party!RemoveInvite(s, g, p) = t
    BY <1>13 DEF Party!RemoveInvite, t
  <2> QED BY <1>5, <1>7, <1>9, <1>10, <1>13, <2>1 DEF Consistent, Company
<1> QED BY <1>11, <1>12, <1>13

LEMMA InviteAgrees ==
  ASSUME NEW s, NEW on \in SUBSET Players, Consistent(s, on), NEW g \in Parties,
         s.leader[g] # None, NEW q \in on
  PROVE  Consistent(Party!InviteTo(s, g, q), on)
<1> DEFINE t == Party!InviteTo(s, g, q)
<1>0. s \in PartyStates /\ Remembered(s) /\ \A h \in Parties : Listed(s, on, h) /\ Company(s, h)
  BY DEF Consistent
<1>1. t.inviteList = [s.inviteList EXCEPT ![g] = @ \cup {q}]
  BY <1>0 DEF Party!InviteTo, PartyStates
<1>2. t.invitations = [s.invitations EXCEPT ![q] = @ \cup {g}]
  BY <1>0 DEF Party!InviteTo, PartyStates
<1>3. /\ t.party = s.party /\ t.leader = s.leader /\ t.memberList = s.memberList
      /\ t.strayed = s.strayed
  BY <1>0 DEF Party!InviteTo, PartyStates
<1>4. t = [x \in PartyFields |-> t[x]]
  BY <1>0 DEF Party!InviteTo, PartyStates, PartyFields
<1> HIDE DEF t
<1>5. t \in PartyStates
  <2>1. /\ t.inviteList \in [Parties -> SUBSET Players]
        /\ t.invitations \in [Players -> SUBSET Parties]
    BY <1>0, <1>1, <1>2 DEF PartyStates
  <2>2. /\ t.party \in [Players -> Parties \cup {None}]
        /\ t.leader \in [Parties -> Players \cup {None}]
        /\ t.memberList \in [Parties -> Seq(Players)]
        /\ t.strayed \in SUBSET (Players \X Parties)
    BY <1>0, <1>3 DEF PartyStates
  <2> QED BY <1>4, <2>1, <2>2, IsPartyState
<1>6. /\ t.inviteList[g] = s.inviteList[g] \cup {q}
      /\ \A h \in Parties \ {g} : t.inviteList[h] = s.inviteList[h]
      /\ t.invitations[q] = s.invitations[q] \cup {g}
      /\ \A p \in Players \ {q} : t.invitations[p] = s.invitations[p]
  BY <1>0, <1>1, <1>2 DEF PartyStates
<1>7. Remembered(t)
  BY <1>0, <1>3, <1>6 DEF Remembered
<1>8. \A h \in Parties : Roster(t, h) = Roster(s, h)
  BY <1>3 DEF Roster
<1>9. ASSUME NEW h \in Parties \ {g}
      PROVE  Listed(t, on, h) /\ Company(t, h)
  <2>1. \A p \in s.inviteList[h] : p \in Players /\ (h \in t.invitations[p] <=> h \in s.invitations[p])
    BY <1>0, <1>6 DEF PartyStates
  <2> QED BY <1>0, <1>3, <1>6, <1>8, <2>1 DEF Listed, Company, Party!CanDisband
<1>10. Listed(t, on, g)
  <2>1. \A p \in s.inviteList[g] : p \in Players /\ s.invitations[p] \subseteq t.invitations[p]
    BY <1>0, <1>6 DEF PartyStates
  <2> QED BY <1>0, <1>3, <1>6, <1>8, <2>1 DEF Listed
<1>11. Company(t, g)
  BY <1>6 DEF Company, Party!CanDisband
<1> QED BY <1>5, <1>7, <1>9, <1>10, <1>11 DEF Consistent, t

(* The inviting player may have no party yet.                              *)
LEMMA FoundAgrees ==
  ASSUME NEW s, NEW on \in SUBSET Players, Consistent(s, on), NEW g \in Parties,
         s.leader[g] = None, NEW p \in on, s.party[p] = None, NEW q \in on
  PROVE  Consistent(Party!InviteTo([s EXCEPT !.party[p] = g, !.leader[g] = p], g, q), on)
<1> DEFINE t == Party!InviteTo([s EXCEPT !.party[p] = g, !.leader[g] = p], g, q)
<1>0. s \in PartyStates /\ Remembered(s) /\ \A h \in Parties : Listed(s, on, h) /\ Company(s, h)
  BY DEF Consistent
<1>1. t.inviteList = [s.inviteList EXCEPT ![g] = @ \cup {q}]
  BY <1>0 DEF Party!InviteTo, PartyStates
<1>2. t.invitations = [s.invitations EXCEPT ![q] = @ \cup {g}]
  BY <1>0 DEF Party!InviteTo, PartyStates
<1>3. t.party = [s.party EXCEPT ![p] = g]
  BY <1>0 DEF Party!InviteTo, PartyStates
<1>4. t.leader = [s.leader EXCEPT ![g] = p]
  BY <1>0 DEF Party!InviteTo, PartyStates
<1>5. t.memberList = s.memberList /\ t.strayed = s.strayed
  BY <1>0 DEF Party!InviteTo, PartyStates
<1>6. t = [x \in PartyFields |-> t[x]]
  BY <1>0 DEF Party!InviteTo, PartyStates, PartyFields
<1> HIDE DEF t
<1>7. t \in PartyStates
  <2>1. /\ t.inviteList \in [Parties -> SUBSET Players]
        /\ t.invitations \in [Players -> SUBSET Parties]
    BY <1>0, <1>1, <1>2 DEF PartyStates
  <2>2. /\ t.party \in [Players -> Parties \cup {None}]
        /\ t.leader \in [Parties -> Players \cup {None}]
    BY <1>0, <1>3, <1>4 DEF PartyStates
  <2>3. /\ t.memberList \in [Parties -> Seq(Players)]
        /\ t.strayed \in SUBSET (Players \X Parties)
    BY <1>0, <1>5 DEF PartyStates
  <2> QED BY <1>6, <2>1, <2>2, <2>3, IsPartyState
<1>8. /\ t.inviteList[g] = s.inviteList[g] \cup {q}
      /\ \A h \in Parties \ {g} : t.inviteList[h] = s.inviteList[h]
      /\ t.invitations[q] = s.invitations[q] \cup {g}
      /\ \A r \in Players \ {q} : t.invitations[r] = s.invitations[r]
  BY <1>0, <1>1, <1>2 DEF PartyStates
<1>9. /\ t.party[p] = g /\ \A r \in Players \ {p} : t.party[r] = s.party[r]
      /\ t.leader[g] = p /\ \A h \in Parties \ {g} : t.leader[h] = s.leader[h]
  BY <1>0, <1>3, <1>4 DEF PartyStates
<1>10. Remembered(t)
  BY <1>0, <1>5, <1>8 DEF Remembered
<1>11. \A h \in Parties : Roster(t, h) = Roster(s, h)
  BY <1>5 DEF Roster
<1>12. ASSUME NEW h \in Parties \ {g}
       PROVE  Listed(t, on, h) /\ Company(t, h)
  <2>1. \A r \in s.inviteList[h] : r \in Players /\ (h \in t.invitations[r] <=> h \in s.invitations[r])
    BY <1>0, <1>8 DEF PartyStates
  <2>2. \A r \in Players : t.party[r] = h <=> s.party[r] = h
    BY <1>9, NoneIsNobody
  <2> QED BY <1>0, <1>5, <1>8, <1>9, <1>11, <2>1, <2>2 DEF Listed, Company, Party!CanDisband
<1>13. Listed(t, on, g)
  <2>1. s.memberList[g] = <<>> /\ s.inviteList[g] = {} /\ Roster(t, g) = {}
    BY <1>0, <1>11, RosterType DEF Listed
  <2>2. \A r \in Players : s.party[r] # g
    BY <1>0, <1>11, <2>1, NoneIsNobody DEF Listed
  <2>3. Distinct(t.memberList[g])
    BY <1>5, <2>1 DEF Distinct
  <2> QED BY <1>8, <1>9, <2>1, <2>2, <2>3, NoneIsNobody DEF Listed
<1>14. Company(t, g)
  BY <1>8 DEF Company, Party!CanDisband
<1> QED BY <1>7, <1>10, <1>12, <1>13, <1>14 DEF Consistent, t

(* An invited player becomes a member.                                     *)
LEMMA JoinAgrees ==
  ASSUME NEW s, NEW on \in SUBSET Players, Consistent(s, on), NEW g \in Parties,
         s.leader[g] # None, NEW p \in on, s.party[p] = None
  PROVE  Consistent([s EXCEPT !.memberList[g] = Append(@, p), !.party[p] = g,
                              !.inviteList[g] = @ \ {p}, !.invitations[p] = @ \ {g}], on)
<1> DEFINE more == Append(s.memberList[g], p)
           t == [s EXCEPT !.memberList[g] = Append(@, p), !.party[p] = g,
                          !.inviteList[g] = @ \ {p}, !.invitations[p] = @ \ {g}]
<1>0. s \in PartyStates /\ Remembered(s) /\ \A h \in Parties : Listed(s, on, h) /\ Company(s, h)
  BY DEF Consistent
<1>1. t.inviteList = [s.inviteList EXCEPT ![g] = @ \ {p}]
  BY <1>0 DEF PartyStates
<1>2. t.invitations = [s.invitations EXCEPT ![p] = @ \ {g}]
  BY <1>0 DEF PartyStates
<1>3. t.party = [s.party EXCEPT ![p] = g]
  BY <1>0 DEF PartyStates
<1>4. t.memberList = [s.memberList EXCEPT ![g] = more]
  BY <1>0 DEF PartyStates
<1>5. t.leader = s.leader /\ t.strayed = s.strayed
  BY <1>0 DEF PartyStates
<1>6. t = [x \in PartyFields |-> t[x]]
  BY <1>0 DEF PartyStates, PartyFields
<1>7. p \notin Roster(s, g) /\ p # s.leader[g]
  BY <1>0, NoneIsNobody DEF Listed
<1>8. s.memberList[g] \in Seq(Players) /\ Distinct(s.memberList[g])
  BY <1>0, RosterType DEF Listed
<1>9. /\ more \in Seq(Players) /\ Distinct(more) /\ more # <<>>
      /\ Party!Elements(more) = Roster(s, g) \cup {p}
  BY <1>7, <1>8, AtTheEnd DEF Roster
<1> HIDE DEF t, more
<1>10. t \in PartyStates
  <2>1. /\ t.inviteList \in [Parties -> SUBSET Players]
        /\ t.invitations \in [Players -> SUBSET Parties]
    BY <1>0, <1>1, <1>2 DEF PartyStates
  <2>2. /\ t.party \in [Players -> Parties \cup {None}]
        /\ t.memberList \in [Parties -> Seq(Players)]
    BY <1>0, <1>3, <1>4, <1>9 DEF PartyStates
  <2>3. /\ t.leader \in [Parties -> Players \cup {None}]
        /\ t.strayed \in SUBSET (Players \X Parties)
    BY <1>0, <1>5 DEF PartyStates
  <2> QED BY <1>6, <2>1, <2>2, <2>3, IsPartyState
<1>11. /\ t.inviteList[g] = s.inviteList[g] \ {p}
       /\ \A h \in Parties \ {g} : t.inviteList[h] = s.inviteList[h]
       /\ t.invitations[p] = s.invitations[p] \ {g}
       /\ \A r \in Players \ {p} : t.invitations[r] = s.invitations[r]
  BY <1>0, <1>1, <1>2 DEF PartyStates
<1>12. /\ t.party[p] = g /\ \A r \in Players \ {p} : t.party[r] = s.party[r]
       /\ t.memberList[g] = more
       /\ \A h \in Parties \ {g} : t.memberList[h] = s.memberList[h]
  BY <1>0, <1>3, <1>4 DEF PartyStates
<1>13. Remembered(t)
  BY <1>0, <1>5, <1>11 DEF Remembered
<1>14. Roster(t, g) = Roster(s, g) \cup {p} /\ \A h \in Parties \ {g} : Roster(t, h) = Roster(s, h)
  BY <1>9, <1>12 DEF Roster
<1>15. ASSUME NEW h \in Parties \ {g}
       PROVE  Listed(t, on, h) /\ Company(t, h)
  <2>1. \A r \in s.inviteList[h] : r \in Players /\ (h \in t.invitations[r] <=> h \in s.invitations[r])
    BY <1>0, <1>11 DEF PartyStates
  <2>2. \A r \in Players : t.party[r] = h <=> s.party[r] = h
    BY <1>12, NoneIsNobody
  <2> QED BY <1>0, <1>5, <1>11, <1>12, <1>14, <2>1, <2>2 DEF Listed, Company, Party!CanDisband
<1>16. Listed(t, on, g)
  <2>0. Listed(s, on, g)
    BY <1>0
  <2>1. \A r \in Players : t.party[r] = g <=> r = t.leader[g] \/ r \in Roster(t, g)
    BY <1>5, <1>12, <1>14, <2>0 DEF Listed
  <2>2. /\ t.leader[g] \notin Roster(t, g) /\ t.leader[g] # None /\ t.leader[g] \in on
        /\ Roster(t, g) \subseteq on /\ t.inviteList[g] \subseteq on
    BY <1>5, <1>7, <1>11, <1>14, <2>0 DEF Listed
  <2>3. \A r \in s.inviteList[g] \ {p} : r \in Players /\ t.invitations[r] = s.invitations[r]
    BY <1>0, <1>11 DEF PartyStates
  <2>4. \A r \in t.inviteList[g] : g \in t.invitations[r]
    BY <1>11, <2>0, <2>3 DEF Listed
  <2>5. Distinct(t.memberList[g])
    BY <1>9, <1>12
  <2> QED BY <2>1, <2>2, <2>4, <2>5 DEF Listed
<1>17. Company(t, g)
  BY <1>9, <1>12 DEF Company, Party!CanDisband
<1> QED BY <1>10, <1>13, <1>15, <1>16, <1>17 DEF Consistent, t

(* A player takes back all its invitations: parties of one end with them.  *)
LEMMA ClearAgrees ==
  ASSUME NEW s, NEW on, Consistent(s, on), NEW p \in Players
  PROVE  LET t == Party!ClearInvitations(s, p) IN
         Consistent(t, on) /\ t.invitations[p] = {}
<1> DEFINE inviting == {g \in s.invitations[p] : p \in s.inviteList[g]}
           ended == {g \in inviting : s.memberList[g] = <<>> /\ s.inviteList[g] = {p}}
           alone == {s.leader[g] : g \in ended}
           t == Party!ClearInvitations(s, p)
<1>0. s \in PartyStates /\ Remembered(s) /\ \A h \in Parties : Listed(s, on, h) /\ Company(s, h)
  BY DEF Consistent
<1>1. t.invitations = [s.invitations EXCEPT ![p] = {}]
  BY <1>0 DEF Party!ClearInvitations, PartyStates
<1>2. t.inviteList = [g \in Parties |-> IF g \in inviting THEN s.inviteList[g] \ {p}
                                                          ELSE s.inviteList[g]]
  BY <1>0 DEF Party!ClearInvitations, PartyStates
<1>3. t.party = [q \in Players |-> IF q \in alone THEN None ELSE s.party[q]]
  BY <1>0 DEF Party!ClearInvitations, PartyStates
<1>4. t.leader = [g \in Parties |-> IF g \in ended THEN None ELSE s.leader[g]]
  BY <1>0 DEF Party!ClearInvitations, PartyStates
<1>5. t.memberList = s.memberList /\ t.strayed = s.strayed
  BY <1>0 DEF Party!ClearInvitations, PartyStates
<1>6. t = [x \in PartyFields |-> t[x]]
  BY <1>0 DEF Party!ClearInvitations, PartyStates, PartyFields
<1>7. /\ ended \subseteq Parties
      /\ \A g \in ended : /\ s.memberList[g] = <<>> /\ s.inviteList[g] = {p}
                          /\ s.leader[g] \in alone
      /\ \A g \in Parties : p \in s.inviteList[g] => g \in inviting
      /\ \A g \in inviting : g \notin ended => s.memberList[g] # <<>> \/ s.inviteList[g] # {p}
  BY <1>0 DEF PartyStates, Listed
<1>8. \A q \in alone : \E g \in ended : q = s.leader[g]
  OBVIOUS
<1>9. \A g \in inviting : g \in Parties /\ p \in s.inviteList[g]
  BY <1>0 DEF PartyStates
<1>a. ended \subseteq inviting
  OBVIOUS
<1> HIDE DEF t, inviting, ended, alone
<1>10. t \in PartyStates
  <2>1. /\ t.inviteList \in [Parties -> SUBSET Players]
        /\ t.invitations \in [Players -> SUBSET Parties]
    BY <1>0, <1>1, <1>2 DEF PartyStates
  <2>2. /\ t.party \in [Players -> Parties \cup {None}]
        /\ t.leader \in [Parties -> Players \cup {None}]
    BY <1>0, <1>3, <1>4 DEF PartyStates
  <2>3. /\ t.memberList \in [Parties -> Seq(Players)]
        /\ t.strayed \in SUBSET (Players \X Parties)
    BY <1>0, <1>5 DEF PartyStates
  <2> QED BY <1>6, <2>1, <2>2, <2>3, IsPartyState
<1>11. /\ \A g \in Parties : t.inviteList[g] = s.inviteList[g] \ {p}
       /\ t.invitations[p] = {}
       /\ \A q \in Players \ {p} : t.invitations[q] = s.invitations[q]
       /\ \A q \in Players : t.party[q] = IF q \in alone THEN None ELSE s.party[q]
       /\ \A g \in Parties : t.leader[g] = IF g \in ended THEN None ELSE s.leader[g]
  <2>1. \A g \in Parties : g \notin inviting => s.inviteList[g] = s.inviteList[g] \ {p}
    BY <1>7
  <2> QED BY <1>0, <1>1, <1>2, <1>3, <1>4, <2>1 DEF PartyStates
<1>12. Remembered(t)
  BY <1>0, <1>5, <1>11 DEF Remembered
<1>13. ASSUME NEW g \in Parties
       PROVE  Listed(t, on, g)
  <2>0. Listed(s, on, g) /\ Roster(t, g) = Roster(s, g)
    BY <1>0, <1>5 DEF Roster
  <2>1. \A r \in t.inviteList[g] : r \in Players /\ g \in t.invitations[r]
    BY <1>0, <1>11, <2>0 DEF Listed, PartyStates
  <2>2. CASE g \in ended
    <3>1. Roster(t, g) = {} /\ s.memberList[g] = <<>>
      BY <1>0, <1>7, <2>0, <2>2, RosterType
    <3>2. t.leader[g] = None /\ t.inviteList[g] = {}
      BY <1>7, <1>11, <2>2
    <3>3. \A q \in Players : s.party[q] = g => q \in alone
      BY <1>7, <2>0, <2>2, <3>1 DEF Listed
    <3>4. \A q \in Players : t.party[q] # g
      BY <1>11, <3>3, NoneIsNobody
    <3> QED BY <1>5, <2>0, <3>1, <3>2, <3>4, NoneIsNobody DEF Listed
  <2>3. CASE g \notin ended
    <3>1. \A q \in Players : q \in alone => s.party[q] # g
      <4> SUFFICES ASSUME NEW q \in Players, q \in alone
                   PROVE  s.party[q] # g
        OBVIOUS
      <4>1. PICK h \in ended : q = s.leader[h]
        BY <1>8
      <4>2. s.party[q] = h
        BY <1>0, <1>7, <4>1 DEF Listed
      <4> QED BY <2>3, <4>2
    <3>2. \A q \in Players : t.party[q] = g <=> s.party[q] = g
      BY <1>11, <3>1, NoneIsNobody
    <3>3. t.leader[g] = s.leader[g]
      BY <1>11, <2>3
    <3>4. t.inviteList[g] \subseteq s.inviteList[g]
      BY <1>11
    <3> QED BY <1>5, <2>0, <2>1, <3>2, <3>3, <3>4 DEF Listed
  <2> QED BY <2>2, <2>3
<1>14. ASSUME NEW g \in Parties
       PROVE  Company(t, g)
  <2>1. CASE g \in ended
    BY <1>11, <2>1 DEF Company
  <2>2. CASE g \notin ended
    <3>1. t.leader[g] = s.leader[g] /\ Company(s, g)
      BY <1>0, <1>11, <2>2
    <3>2. t.inviteList[g] = {} => s.inviteList[g] = {} \/ s.inviteList[g] = {p}
      BY <1>11
    <3>3. s.inviteList[g] = {p} => s.memberList[g] # <<>>
      BY <1>7, <2>2
    <3> QED BY <1>5, <3>1, <3>2, <3>3 DEF Company, Party!CanDisband
  <2> QED BY <2>1, <2>2
<1> QED BY <1>10, <1>11, <1>12, <1>13, <1>14 DEF Consistent, t
-----------------------------------------------------------------------------
(* The state of the parties in a behaviour: agreement is invariant.        *)
CompanyInv ==
  /\ Consistent(Party!State, x1)
  /\ x1 \in SUBSET Players
  /\ x8 \in BOOLEAN

LEMMA BecomeIs ==
  ASSUME NEW r, r \in PartyStates, Party!Become(r)
  PROVE  (Party!State)' = r
<1>1. (Party!State)' = [party |-> r.party, invitations |-> r.invitations, leader |-> r.leader,
                        memberList |-> r.memberList, inviteList |-> r.inviteList,
                        strayed |-> r.strayed]
  BY DEF Party!State, Party!Become
<1> QED BY <1>1 DEF PartyStates

LEMMA MoreInTheGame ==
  ASSUME NEW s, NEW on, NEW more, Consistent(s, on), on \subseteq more
  PROVE  Consistent(s, more)
BY DEF Consistent, Listed

(* Who leaves the game is on no list.                                      *)
LEMMA GoneAgrees ==
  ASSUME NEW s, NEW on, Consistent(s, on), NEW p \in Players,
         s.party[p] = None, s.invitations[p] = {}
  PROVE  Consistent([s EXCEPT !.strayed = {r \in @ : r[1] # p}], on \ {p})
<1> DEFINE t == [s EXCEPT !.strayed = {r \in @ : r[1] # p}]
<1>0. s \in PartyStates /\ Remembered(s) /\ \A h \in Parties : Listed(s, on, h) /\ Company(s, h)
  BY DEF Consistent
<1>1. t.strayed = {r \in s.strayed : r[1] # p}
  BY <1>0 DEF PartyStates
<1>2. /\ t.party = s.party /\ t.leader = s.leader /\ t.memberList = s.memberList
      /\ t.invitations = s.invitations /\ t.inviteList = s.inviteList
  BY <1>0 DEF PartyStates
<1>3. t = [x \in PartyFields |-> t[x]]
  BY <1>0 DEF PartyStates, PartyFields
<1> HIDE DEF t
<1>4. t \in PartyStates
  <2>1. /\ t.party \in [Players -> Parties \cup {None}]
        /\ t.invitations \in [Players -> SUBSET Parties]
        /\ t.leader \in [Parties -> Players \cup {None}]
        /\ t.memberList \in [Parties -> Seq(Players)]
        /\ t.inviteList \in [Parties -> SUBSET Players]
    BY <1>0, <1>2 DEF PartyStates
  <2>2. t.strayed \in SUBSET (Players \X Parties)
    BY <1>0, <1>1 DEF PartyStates
  <2> QED BY <1>3, <2>1, <2>2, IsPartyState
<1>5. Remembered(t)
  <2> SUFFICES ASSUME NEW g \in Parties, NEW q \in Players, g \in t.invitations[q],
                      q \notin t.inviteList[g]
               PROVE  <<q, g>> \in t.strayed
    BY DEF Remembered
  <2>1. q # p /\ <<q, g>> \in s.strayed
    BY <1>0, <1>2 DEF Remembered
  <2>2. <<q, g>>[1] = q
    OBVIOUS
  <2> QED BY <1>1, <2>1, <2>2
<1>6. ASSUME NEW g \in Parties
      PROVE  Listed(t, on \ {p}, g) /\ Company(t, g)
  <2>1. Listed(s, on, g) /\ Company(s, g) /\ Roster(t, g) = Roster(s, g)
    BY <1>0, <1>2 DEF Roster
  <2>2. p # s.leader[g] /\ p \notin Roster(s, g)
    BY <2>1, NoneIsNobody DEF Listed
  <2>3. p \notin s.inviteList[g]
    BY <2>1 DEF Listed
  <2> QED BY <1>2, <2>1, <2>2, <2>3 DEF Listed, Company, Party!CanDisband
<1> QED BY <1>4, <1>5, <1>6 DEF Consistent, t

LEMMA PartyInit ==
  ASSUME Party!Init
  PROVE  CompanyInv
<1> DEFINE s == Party!State
<1>1. /\ s.party = [p \in Players |-> None] /\ s.invitations = [p \in Players |-> {}]
      /\ s.leader = [g \in Parties |-> None] /\ s.memberList = [g \in Parties |-> <<>>]
      /\ s.inviteList = [g \in Parties |-> {}] /\ s.strayed = {}
  BY DEF Party!State, Party!Init
<1>2. s = [x \in PartyFields |-> s[x]]
  BY DEF Party!State, PartyFields
<1>3. x1 = {} /\ x8 = FALSE
  BY DEF Party!Init
<1> HIDE DEF s
<1>4. s \in PartyStates
  <2>1. /\ s.party \in [Players -> Parties \cup {None}]
        /\ s.invitations \in [Players -> SUBSET Parties]
        /\ s.leader \in [Parties -> Players \cup {None}]
        /\ s.inviteList \in [Parties -> SUBSET Players]
        /\ s.strayed \in SUBSET (Players \X Parties)
    BY <1>1
  <2>2. s.memberList \in [Parties -> Seq(Players)]
    BY <1>1
  <2> QED BY <1>2, <2>1, <2>2, IsPartyState
<1>5. Remembered(s)
  BY <1>1 DEF Remembered
<1>6. ASSUME NEW g \in Parties
      PROVE  Listed(s, x1, g) /\ Company(s, g)
  <2>1. s.memberList[g] = <<>> /\ s.leader[g] = None /\ s.inviteList[g] = {}
    BY <1>1
  <2>2. Roster(s, g) = {} /\ Distinct(s.memberList[g])
    BY <1>4, <2>1, RosterType DEF Distinct
  <2>3. \A p \in Players : s.party[p] = None
    BY <1>1
  <2> QED BY <1>1, <1>3, <2>1, <2>2, <2>3, NoneIsNobody DEF Listed, Company
<1> QED BY <1>3, <1>4, <1>5, <1>6 DEF CompanyInv, Consistent, s

LEMMA PartyStepKeeps ==
  ASSUME CompanyInv, Party!Next
  PROVE  CompanyInv'
<1> DEFINE s == Party!State
<1>0. /\ Consistent(s, x1) /\ x1 \in SUBSET Players /\ x8 \in BOOLEAN
      /\ s \in PartyStates
  BY DEF CompanyInv, Consistent
<1>a. /\ s.party = x2 /\ s.invitations = x3 /\ s.leader = x4
      /\ s.memberList = x5 /\ s.inviteList = x6 /\ s.strayed = x7
  BY DEF Party!State
<1>b. \A g \in Parties : Listed(s, x1, g)
  BY <1>0 DEF Consistent
<1>c. \A p \in Players : s.party[p] # None => s.party[p] \in Parties
  BY <1>0 DEF PartyStates
<1>d. ASSUME NEW r, Consistent(r, x1), Party!Become(r), UNCHANGED <<x1, x8>>
      PROVE  CompanyInv'
  <2>1. (Party!State)' = r
    BY <1>d, BecomeIs DEF Consistent
  <2> QED BY <1>0, <1>d, <2>1 DEF CompanyInv
<1>e. ASSUME NEW p \in Players, NEW q \in Players, Party!IsInviting(p, q)
      PROVE  /\ s.party[p] \in Parties /\ s.leader[s.party[p]] = p
             /\ s.leader[s.party[p]] # None
  BY <1>a, <1>c, <1>e, NoneIsNobody DEF Party!IsInviting
<1>1. ASSUME NEW p \in Players, NEW q \in Players, Party!InviteToParty(p, q)
      PROVE  CompanyInv'
  <2>0. {p, q} \subseteq x1 /\ UNCHANGED <<x1, x8>>
    BY <1>1, Zenon DEF Party!InviteToParty
  <2>1. p \in x1 /\ q \in x1 /\ UNCHANGED <<x1, x8>>
    BY <2>0
  <2>2. ASSUME x2[p] = None, NEW g \in Parties, x4[g] = None,
               Party!Become(Party!InviteTo([s EXCEPT !.party[p] = g, !.leader[g] = p], g, q))
        PROVE  CompanyInv'
    <3>1. Consistent(Party!InviteTo([s EXCEPT !.party[p] = g, !.leader[g] = p], g, q), x1)
      <4>1. s.party[p] = None /\ s.leader[g] = None
        BY <1>a, <2>2
      <4> HIDE DEF s
      <4> QED BY <1>0, <2>1, <2>2, <4>1, FoundAgrees, Zenon
    <3> QED BY <1>d, <2>1, <2>2, <3>1
  <2>3. ASSUME x2[p] # None, x4[x2[p]] = p, Party!Become(Party!InviteTo(s, x2[p], q))
        PROVE  CompanyInv'
    <3>1. x2[p] \in Parties /\ s.leader[x2[p]] # None
      BY <1>a, <1>c, <2>3, NoneIsNobody
    <3>2. Consistent(Party!InviteTo(s, x2[p], q), x1)
      <4> HIDE DEF s
      <4> QED BY <1>0, <2>1, <3>1, InviteAgrees, Zenon
    <3> QED BY <1>d, <2>1, <2>3, <3>2
  <2> QED BY <1>1, <2>2, <2>3, Zenon DEF Party!InviteToParty
<1>2. ASSUME NEW p \in Players, NEW q \in Players, Party!JoinParty(p, q)
      PROVE  CompanyInv'
  <2> DEFINE g == x2[q]
             r == [s EXCEPT !.memberList[g] = Append(@, p), !.party[p] = g,
                            !.inviteList[g] = @ \ {p}, !.invitations[p] = @ \ {g}]
  <2>0. /\ {p, q} \subseteq x1 /\ UNCHANGED <<x1, x8>> /\ Party!IsInviting(q, p)
        /\ x2[p] = None /\ Party!Become(r)
    BY <1>2, Zenon DEF Party!JoinParty
  <2>1. /\ p \in x1 /\ UNCHANGED <<x1, x8>> /\ Party!IsInviting(q, p)
        /\ x2[p] = None /\ Party!Become(r)
    BY <2>0
  <2>2. s.party[p] = None /\ g \in Parties /\ s.leader[g] # None
    BY <1>a, <1>e, <2>1
  <2>3. Consistent(r, x1)
    <3> HIDE DEF s, g
    <3> QED BY <1>0, <2>1, <2>2, JoinAgrees, Zenon
  <2> HIDE DEF r
  <2> QED BY <1>d, <2>1, <2>3
<1>3. ASSUME NEW p \in Players, NEW q \in Players, Party!PassPartyLeadership(p, q)
      PROVE  CompanyInv'
  <2> DEFINE g == x2[p]
             r == Party!PassLeadership(s, g, q)
  <2>1. /\ UNCHANGED <<x1, x8>> /\ x2[p] # None /\ x4[x2[p]] = p
        /\ q \in Party!Elements(x5[g]) /\ Party!Become(r)
    BY <1>3 DEF Party!PassPartyLeadership
  <2>2. g \in Parties /\ s.leader[g] # None /\ q \in Roster(s, g)
    BY <1>a, <1>c, <2>1, NoneIsNobody DEF Roster
  <2>3. Consistent(r, x1)
    <3> HIDE DEF s, g
    <3> QED BY <1>0, <2>2, PassLeadershipAgrees
  <2> HIDE DEF r
  <2> QED BY <1>d, <2>1, <2>3
<1>4. ASSUME NEW p \in Players, NEW q \in Players, Party!RevokeInvitation(p, q)
      PROVE  CompanyInv'
  <2> DEFINE g == x2[p]
             r == Party!RemoveInvite(s, g, q)
  <2>1. UNCHANGED <<x1, x8>> /\ Party!IsInviting(p, q) /\ Party!Become(r)
    BY <1>4 DEF Party!RevokeInvitation
  <2>2. g \in Parties
    BY <1>a, <1>e, <2>1
  <2>3. Consistent(r, x1)
    <3> HIDE DEF s, g
    <3> QED BY <1>0, <2>2, RemoveInviteAgrees
  <2> HIDE DEF r
  <2> QED BY <1>d, <2>1, <2>3
<1>5. ASSUME NEW p \in Players, Party!LeaveParty(p)
      PROVE  CompanyInv'
  <2> DEFINE r == Party!Leave(s, p)
  <2>1. UNCHANGED <<x1, x8>> /\ x2[p] # None /\ Party!Become(r)
    BY <1>5 DEF Party!LeaveParty
  <2>2. s.party[p] # None
    BY <1>a, <2>1
  <2>3. Consistent(r, x1)
    <3> HIDE DEF s
    <3> QED BY <1>0, <2>2, LeaveAgrees
  <2> HIDE DEF r
  <2> QED BY <1>d, <2>1, <2>3
<1>6. ASSUME NEW p \in Players, Party!Login(p)
      PROVE  CompanyInv'
  <2>1. /\ x1' = x1 \cup {p} /\ x8' = x8
        /\ UNCHANGED <<x2, x3, x4, x5, x6, x7>>
    BY <1>6 DEF Party!Login
  <2>2. (Party!State)' = s
    BY <2>1 DEF Party!State
  <2>3. Consistent(s, x1 \cup {p})
    <3> HIDE DEF s
    <3> QED BY <1>0, MoreInTheGame
  <2> QED BY <1>0, <2>1, <2>2, <2>3 DEF CompanyInv
<1>7. ASSUME NEW p \in Players, Party!Disappear(p)
      PROVE  CompanyInv'
  <2> DEFINE cleared == Party!ClearInvitations(s, p)
             left == IF cleared.party[p] # None THEN Party!Leave(cleared, p) ELSE cleared
             r == [left EXCEPT !.strayed = {x \in @ : x[1] # p}]
  <2>1. Party!Become(r) /\ x1' = x1 \ {p} /\ x8' = x8
    BY <1>7 DEF Party!Disappear
  <2> HIDE DEF s
  <2>2. Consistent(cleared, x1) /\ cleared.invitations[p] = {}
    BY <1>0, ClearAgrees
  <2> HIDE DEF cleared
  <2>3. Consistent(left, x1) /\ left.party[p] = None /\ left.invitations[p] = {}
    <3>1. CASE cleared.party[p] # None
      <4>1. left = Party!Leave(cleared, p)
        BY <3>1
      <4> HIDE DEF left
      <4> QED BY <2>2, <3>1, <4>1, LeaveAgrees
    <3>2. CASE cleared.party[p] = None
      BY <2>2, <3>2
    <3> QED BY <3>1, <3>2
  <2> HIDE DEF left
  <2>4. Consistent(r, x1 \ {p})
    BY <2>3, GoneAgrees
  <2> HIDE DEF r
  <2>5. (Party!State)' = r
    BY <2>1, <2>4, BecomeIs DEF Consistent
  <2> QED BY <1>0, <2>1, <2>4, <2>5 DEF CompanyInv
<1>8. ASSUME NEW p \in Players, Party!DisappearInvitedByNobody(p)
      PROVE  CompanyInv'
  <2>1. x8' = TRUE /\ UNCHANGED <<x1, x2, x3, x4, x5, x6, x7>>
    BY <1>8 DEF Party!DisappearInvitedByNobody
  <2>2. (Party!State)' = s
    BY <2>1 DEF Party!State
  <2> QED BY <1>0, <2>1, <2>2 DEF CompanyInv
<1> QED BY <1>1, <1>2, <1>3, <1>4, <1>5, <1>6, <1>7, <1>8 DEF Party!Next, Party!PlayerStep

LEMMA CompanyInvStutters ==
  ASSUME CompanyInv, Untouched
  PROVE  CompanyInv'
<1>1. UNCHANGED <<x1, x2, x3, x4, x5, x6, x7, x8>>
  BY DEF Untouched
<1>2. (Party!State)' = Party!State
  BY <1>1 DEF Party!State
<1> QED BY <1>1, <1>2 DEF CompanyInv

LEMMA CompanyInvIsEnough ==
  ASSUME CompanyInv
  PROVE  /\ Party!TypeOK /\ Party!MembersAgree /\ Party!InvitationsAgree
         /\ Party!PartyHasCompany
<1> DEFINE s == Party!State
<1>0. /\ s \in PartyStates /\ Remembered(s)
      /\ \A g \in Parties : Listed(s, x1, g) /\ Company(s, g)
      /\ x1 \in SUBSET Players /\ x8 \in BOOLEAN
  BY DEF CompanyInv, Consistent
<1>1. /\ s.party = x2 /\ s.invitations = x3 /\ s.leader = x4
      /\ s.memberList = x5 /\ s.inviteList = x6 /\ s.strayed = x7
  BY DEF Party!State
<1> HIDE DEF s
<1>2. Party!TypeOK
  BY <1>0, <1>1 DEF Party!TypeOK, PartyStates
<1>3. Party!MembersAgree
  <2> SUFFICES ASSUME NEW g \in Parties
               PROVE  /\ {p \in Players : x2[p] = g} = ({x4[g]} \ {None}) \cup Roster(s, g)
                      /\ x4[g] \notin Roster(s, g)
                      /\ Distinct(x5[g])
                      /\ ({x4[g]} \ {None}) \cup Roster(s, g) \subseteq x1
    BY <1>1 DEF Party!MembersAgree, Roster, Distinct
  <2>1. Listed(s, x1, g) /\ Roster(s, g) \subseteq Players /\ x4[g] \in Players \cup {None}
    BY <1>0, <1>1, RosterType DEF PartyStates
  <2>2. {p \in Players : x2[p] = g} = ({x4[g]} \ {None}) \cup Roster(s, g)
    BY <1>1, <2>1, NoneIsNobody DEF Listed
  <2> QED BY <1>1, <2>1, <2>2 DEF Listed
<1>4. Party!InvitationsAgree
  <2>1. ASSUME NEW g \in Parties, NEW p \in Players
        PROVE  /\ p \in x6[g] => p \in x1 /\ x4[g] # None /\ g \in x3[p]
               /\ g \in x3[p] => p \in x6[g] \/ <<p, g>> \in x7
    <3>1. g \in x3[p] => p \in x6[g] \/ <<p, g>> \in x7
      BY <1>0, <1>1 DEF Remembered
    <3>2. Listed(s, x1, g)
      BY <1>0
    <3> QED BY <1>1, <3>1, <3>2 DEF Listed
  <2> QED BY <2>1, Zenon DEF Party!InvitationsAgree
<1>5. Party!PartyHasCompany
  BY <1>0, <1>1 DEF Party!PartyHasCompany, Company, Party!CanDisband
<1> QED BY <1>2, <1>3, <1>4, <1>5
-----------------------------------------------------------------------------
(* Beds.  What is stored is as consistent as what is in memory, or a       *)
(* restart would spoil it.                                                 *)
StoredHalvesAgree == \A b \in Beds : Partner[b] # None => x5[b] = x5[Partner[b]]

BedInv ==
  /\ Bed!TypeOK
  /\ Bed!SleepersAgree
  /\ StoredHalvesAgree

LEMMA BedFacts ==
  /\ Partner \in [Beds -> Beds \cup {None}]
  /\ \A b \in Beds : Partner[b] # None => Partner[b] # b /\ Partner[Partner[b]] = b
  /\ None \notin Sleepers /\ None \notin Beds
BY PartsAssumption DEF Bed!BedAssumption

LEMMA HalvesOfABed ==
  /\ \A b \in Beds : b \in Bed!Halves(b) /\ Bed!Halves(b) \subseteq Beds
  /\ \A b \in Beds, c \in Beds : c \in Bed!Halves(b) <=> b = c \/ Partner[b] = c
  /\ \A b \in Beds, c \in Beds : c \in Bed!Halves(b) => b \in Bed!Halves(c)
BY BedFacts DEF Bed!Halves

LEMMA BedInit ==
  ASSUME Bed!Init
  PROVE  BedInv
BY BedFacts DEF Bed!Init, BedInv, Bed!TypeOK, Bed!SleepersAgree, StoredHalvesAgree, Bed!BedsOf

(* Waking whom a bed shows leaves beds and map in agreement.               *)
LEMMA WokenAgrees ==
  ASSUME BedInv, NEW b \in Beds, x3[b] # None, Bed!Woken(b)
  PROVE  /\ x3' \in [Beds -> Sleepers \cup {None}]
         /\ x4' \in [Sleepers -> Beds \cup {None}]
         /\ x6' \subseteq x6
         /\ \A c \in Beds : Partner[c] # None => x3'[c] = x3'[Partner[c]]
         /\ \A p \in Sleepers : x4'[p] # None => x3'[x4'[p]] = p
         /\ \A p \in Sleepers \ x6' : \A c \in Beds : x3'[c] = p =>
              /\ x3[c] = p /\ p # x3[b] /\ p \notin x6
              /\ x4'[p] = x4[p]
<1> USE BedFacts
<1>1. /\ x3 \in [Beds -> Sleepers \cup {None}] /\ x4 \in [Sleepers -> Beds \cup {None}]
      /\ x6 \subseteq Sleepers
      /\ \A c \in Beds : Partner[c] # None => x3[c] = x3[Partner[c]]
      /\ \A p \in Sleepers : x4[p] # None => x3[x4[p]] = p
      /\ \A p \in Sleepers \ x6 : \A c \in Beds : x3[c] = p => x4[p] \in Bed!Halves(c)
  BY DEF BedInv, Bed!TypeOK, Bed!SleepersAgree, Bed!BedsOf
<1>2. /\ x4' = [p \in Sleepers |-> IF p = x3[b] THEN None ELSE x4[p]]
      /\ x3' = [c \in Beds |-> IF c \in Bed!Halves(b) THEN None ELSE x3[c]]
      /\ x6' = {p \in x6 : {c \in Beds : x3'[c] = p} # {}}
  BY DEF Bed!Woken, Bed!BedsOf
<1>3. /\ x3' \in [Beds -> Sleepers \cup {None}] /\ x4' \in [Sleepers -> Beds \cup {None}]
      /\ x6' \subseteq x6
  BY <1>1, <1>2
<1>4. /\ \A c \in Beds : x3'[c] = IF c \in Bed!Halves(b) THEN None ELSE x3[c]
      /\ \A p \in Sleepers : x4'[p] = IF p = x3[b] THEN None ELSE x4[p]
  BY <1>2
<1>5. \A c \in Bed!Halves(b) : x3[c] = x3[b]
  BY <1>1, HalvesOfABed
<1>6. \A c \in Beds : Partner[c] # None => x3'[c] = x3'[Partner[c]]
  <2> SUFFICES ASSUME NEW c \in Beds, Partner[c] # None
               PROVE  x3'[c] = x3'[Partner[c]]
    OBVIOUS
  <2>1. Partner[c] \in Beds /\ Partner[Partner[c]] = c
    OBVIOUS
  <2>2. c \in Bed!Halves(b) <=> Partner[c] \in Bed!Halves(b)
    BY <2>1, HalvesOfABed
  <2> QED BY <1>1, <1>4, <2>1, <2>2
<1>7. \A p \in Sleepers : x4'[p] # None => x3'[x4'[p]] = p
  <2> SUFFICES ASSUME NEW p \in Sleepers, x4'[p] # None
               PROVE  x3'[x4'[p]] = p
    OBVIOUS
  <2>1. p # x3[b] /\ x4'[p] = x4[p] /\ x4[p] \in Beds /\ x3[x4[p]] = p
    BY <1>1, <1>4
  <2> QED BY <1>4, <1>5, <2>1
<1>8. ASSUME NEW p \in Sleepers \ x6', NEW c \in Beds, x3'[c] = p
      PROVE  x3[c] = p /\ p # x3[b] /\ p \notin x6 /\ x4'[p] = x4[p]
  <2>1. x3[c] = p /\ c \notin Bed!Halves(b)
    BY <1>4, <1>8
  <2>2. p \notin x6
    BY <1>2, <1>8
  <2>3. p # x3[b]
    <3> SUFFICES ASSUME p = x3[b]
                 PROVE  FALSE
      OBVIOUS
    <3>1. x4[p] \in Bed!Halves(c) /\ x4[p] \in Bed!Halves(b)
      BY <1>1, <2>1, <2>2
    <3> QED BY <2>1, <3>1, HalvesOfABed
  <2> QED BY <1>4, <2>1, <2>2, <2>3
<1> QED BY <1>3, <1>6, <1>7, <1>8

LEMMA BedStepKeeps ==
  ASSUME BedInv, Bed!Next
  PROVE  BedInv'
<1> USE BedFacts
<1>0. /\ x1 \subseteq Sleepers /\ x2 \subseteq x1
      /\ x3 \in [Beds -> Sleepers \cup {None}] /\ x5 \in [Beds -> Sleepers \cup {None}]
      /\ x4 \in [Sleepers -> Beds \cup {None}] /\ x6 \subseteq Sleepers
      /\ \A c \in Beds : Partner[c] # None => x3[c] = x3[Partner[c]]
      /\ \A c \in Beds : Partner[c] # None => x5[c] = x5[Partner[c]]
      /\ \A p \in Sleepers : x4[p] # None => x3[x4[p]] = p
      /\ \A p \in Sleepers \ x6 : \A c \in Beds : x3[c] = p =>
           x4[p] \in Bed!Halves(c) /\ (p \in x1 => p \in x2)
  BY DEF BedInv, Bed!TypeOK, Bed!SleepersAgree, Bed!BedsOf, StoredHalvesAgree
<1>a. SUFFICES
        /\ x1' \subseteq Sleepers /\ x2' \subseteq x1'
        /\ x3' \in [Beds -> Sleepers \cup {None}] /\ x5' \in [Beds -> Sleepers \cup {None}]
        /\ x4' \in [Sleepers -> Beds \cup {None}] /\ x6' \subseteq Sleepers
        /\ \A c \in Beds : Partner[c] # None => x3'[c] = x3'[Partner[c]]
        /\ \A c \in Beds : Partner[c] # None => x5'[c] = x5'[Partner[c]]
        /\ \A p \in Sleepers : x4'[p] # None => x3'[x4'[p]] = p
        /\ \A p \in Sleepers \ x6' : \A c \in Beds : x3'[c] = p =>
             x4'[p] \in Bed!Halves(c) /\ (p \in x1' => p \in x2')
  BY DEF BedInv, Bed!TypeOK, Bed!SleepersAgree, Bed!BedsOf, StoredHalvesAgree
<1>1. CASE \E p \in Sleepers, b \in Beds : Bed!Sleep(p, b)
  <2> PICK p \in Sleepers, b \in Beds : Bed!Sleep(p, b)
    BY <1>1
  <2>1. /\ p \in x1 /\ x3[b] = None
        /\ x4' = [x4 EXCEPT ![p] = b]
        /\ x3' = [c \in Beds |-> IF c \in Bed!Halves(b) THEN p ELSE x3[c]]
        /\ x2' = x2 \cup {p}
        /\ x6' = IF {c \in Beds : x3[c] = p} # {} THEN x6 \cup {p} ELSE x6
        /\ x1' = x1 /\ x5' = x5
    BY DEF Bed!Sleep, Bed!BedsOf
  <2>2. /\ \A c \in Beds : x3'[c] = IF c \in Bed!Halves(b) THEN p ELSE x3[c]
        /\ x4'[p] = b /\ \A q \in Sleepers \ {p} : x4'[q] = x4[q]
    BY <1>0, <2>1
  <2>3. \A c \in Bed!Halves(b) : x3[c] = None
    BY <1>0, <2>1, HalvesOfABed
  <2>4. \A c \in Beds : Partner[c] # None => x3'[c] = x3'[Partner[c]]
    <3> SUFFICES ASSUME NEW c \in Beds, Partner[c] # None
                 PROVE  x3'[c] = x3'[Partner[c]]
      OBVIOUS
    <3>1. Partner[c] \in Beds /\ Partner[Partner[c]] = c
      OBVIOUS
    <3>2. c \in Bed!Halves(b) <=> Partner[c] \in Bed!Halves(b)
      BY <3>1, HalvesOfABed
    <3> QED BY <1>0, <2>2, <3>1, <3>2
  <2>5. \A q \in Sleepers : x4'[q] # None => x3'[x4'[q]] = q
    <3>1. x3'[x4'[p]] = p
      BY <2>2, HalvesOfABed
    <3>2. ASSUME NEW q \in Sleepers \ {p}, x4'[q] # None
          PROVE  x3'[x4'[q]] = q
      <4>1. x4[q] \in Beds /\ x4'[q] = x4[q] /\ x3[x4[q]] = q
        BY <1>0, <2>2, <3>2
      <4> QED BY <2>2, <2>3, <4>1
    <3> QED BY <3>1, <3>2
  <2>6. ASSUME NEW q \in Sleepers \ x6', NEW c \in Beds, x3'[c] = q
        PROVE  x4'[q] \in Bed!Halves(c) /\ (q \in x1' => q \in x2')
    <3>1. CASE q = p
      <4>1. x3[c] # p
        BY <2>1, <2>6, <3>1
      <4>2. c \in Bed!Halves(b)
        BY <2>2, <2>6, <3>1, <4>1
      <4> QED BY <2>1, <2>2, <3>1, <4>2, HalvesOfABed
    <3>2. CASE q # p
      <4>1. q \notin x6 /\ x3[c] = q
        BY <2>1, <2>2, <2>6, <3>2
      <4> QED BY <1>0, <2>1, <2>2, <3>2, <4>1
    <3> QED BY <3>1, <3>2
  <2>7. /\ x3' \in [Beds -> Sleepers \cup {None}] /\ x4' \in [Sleepers -> Beds \cup {None}]
        /\ x6' \subseteq Sleepers
    BY <1>0, <2>1
  <2> QED BY <1>0, <2>1, <2>4, <2>5, <2>6, <2>7
<1>2. CASE \E p \in Sleepers, b \in Beds : Bed!Wake(p, b)
  <2> PICK p \in Sleepers, b \in Beds : Bed!Wake(p, b)
    BY <1>2
  <2>1. x3[b] # None /\ Bed!Woken(b) /\ UNCHANGED <<x1, x2, x5>>
    BY DEF Bed!Wake
  <2>2. /\ x3' \in [Beds -> Sleepers \cup {None}] /\ x4' \in [Sleepers -> Beds \cup {None}]
        /\ x6' \subseteq x6
        /\ \A c \in Beds : Partner[c] # None => x3'[c] = x3'[Partner[c]]
        /\ \A q \in Sleepers : x4'[q] # None => x3'[x4'[q]] = q
        /\ \A q \in Sleepers \ x6' : \A c \in Beds : x3'[c] = q =>
             /\ x3[c] = q /\ q # x3[b] /\ q \notin x6 /\ x4'[q] = x4[q]
    BY <2>1, WokenAgrees
  <2> QED BY <1>0, <2>1, <2>2
<1>3. CASE \E p \in Sleepers : Bed!Leave(p)
  BY <1>0, <1>3 DEF Bed!Leave
<1>4. CASE \E p \in Sleepers : Bed!Login(p)
  <2> PICK p \in Sleepers : Bed!Login(p)
    BY <1>4
  <2>1. p \notin x1 /\ x1' = x1 \cup {p} /\ UNCHANGED <<x2, x5>>
    BY DEF Bed!Login
  <2>2. CASE x4[p] = None
    <3>1. UNCHANGED <<x3, x4, x6>>
      BY <2>2 DEF Bed!Login
    <3>2. \A c \in Beds : p \notin x6 => x3[c] # p
      BY <1>0, <2>2, HalvesOfABed
    <3> QED BY <1>0, <2>1, <3>1, <3>2
  <2>3. CASE x4[p] # None
    <3> DEFINE b == x4[p]
    <3>1. Bed!Woken(b) /\ b \in Beds /\ x3[b] = p
      BY <1>0, <2>3 DEF Bed!Login
    <3> HIDE DEF b
    <3>2. /\ x3' \in [Beds -> Sleepers \cup {None}] /\ x4' \in [Sleepers -> Beds \cup {None}]
          /\ x6' \subseteq x6
          /\ \A c \in Beds : Partner[c] # None => x3'[c] = x3'[Partner[c]]
          /\ \A q \in Sleepers : x4'[q] # None => x3'[x4'[q]] = q
          /\ \A q \in Sleepers \ x6' : \A c \in Beds : x3'[c] = q =>
               /\ x3[c] = q /\ q # x3[b] /\ q \notin x6 /\ x4'[q] = x4[q]
      BY <3>1, WokenAgrees
    <3> QED BY <1>0, <2>1, <3>1, <3>2
  <2> QED BY <2>2, <2>3
<1>5. CASE Bed!Clean
  BY <1>0, <1>5 DEF Bed!Clean, Bed!BedsOf
<1>6. CASE Bed!Save
  BY <1>0, <1>6 DEF Bed!Save
<1>7. CASE Bed!Restart
  <2>1. /\ x1' = {} /\ x2' = {} /\ x3' = x5 /\ x5' = x5
        /\ x6' = {p \in Sleepers : \E b, c \in Bed!BedsOf(x5, p) : c \notin Bed!Halves(b)}
        /\ x4' \in [Sleepers -> Beds \cup {None}]
        /\ \A p \in Sleepers : IF Bed!BedsOf(x5, p) = {} THEN x4'[p] = None
                                                         ELSE x4'[p] \in Bed!BedsOf(x5, p)
    BY <1>7 DEF Bed!Restart
  <2>2. \A p \in Sleepers : x4'[p] # None => x4'[p] \in Bed!BedsOf(x5, p)
    BY <2>1
  <2>3. ASSUME NEW p \in Sleepers \ x6', NEW c \in Beds, x3'[c] = p
        PROVE  x4'[p] \in Bed!Halves(c)
    <3>1. c \in Bed!BedsOf(x5, p)
      BY <2>1, <2>3 DEF Bed!BedsOf
    <3>2. x4'[p] \in Bed!BedsOf(x5, p)
      BY <2>1, <3>1
    <3> QED BY <2>1, <2>3, <3>1, <3>2
  <2>4. \A p \in Sleepers : x4'[p] # None => x3'[x4'[p]] = p
    BY <2>1, <2>2 DEF Bed!BedsOf
  <2> QED BY <1>0, <2>1, <2>3, <2>4
<1> QED BY <1>1, <1>2, <1>3, <1>4, <1>5, <1>6, <1>7 DEF Bed!Next
-----------------------------------------------------------------------------
(* Houses.  The letters an owner has got tell the day of the eviction.     *)
HS == House!HouseSet

HouseType ==
  /\ x1 \in 1 .. MaxDay
  /\ x2 \in [HS -> Tenants \cup {None}]
  /\ x3 \in [HS -> 0 .. MaxDay + Period]
  /\ x4 \in [HS -> 0 .. WarningsLimit]
  /\ x5 \in [HS -> 0 .. MaxDay]
  /\ x6 \subseteq House!Deals
  /\ x7 \in [HS -> 0 .. MaxDay + WarningsLimit]
  /\ x8 \subseteq HS /\ x9 \subseteq HS

(* Nobody owes rent for a house without an owner.                          *)
UnownedIsClear == \A h \in HS : x2[h] = None => x4[h] = 0

(* Who has got letters knows from the last one when the house is lost.     *)
LettersTell ==
  \A h \in HS : x2[h] # None /\ x4[h] > 0 => x7[h] = x5[h] + WarningsLimit + 1 - x4[h]

(* A deal that nothing has come between can still be carried out.          *)
DealsStand ==
  \A d \in x6 : ~d.stale =>
    x2[d.house] = d.seller /\ \A h \in HS : x2[h] # d.buyer

OneEach ==
  \A p \in Tenants : \A g, h \in HS \ x9 : x2[g] = p /\ x2[h] = p => g = h

EvictedInTime == \A h \in x8 : x7[h] > 0 /\ x1 >= x7[h]

HouseInv ==
  /\ HouseType
  /\ UnownedIsClear
  /\ LettersTell
  /\ DealsStand
  /\ OneEach
  /\ EvictedInTime

LEMMA HouseFacts ==
  /\ Period \in Nat \ {0} /\ WarningsLimit \in Nat \ {0} /\ MaxDay \in Nat \ {0}
  /\ None \notin Tenants
  /\ Houses \in Seq(HS)
BY PartsAssumption DEF House!HouseAssumption, HS

LEMMA HouseInit ==
  ASSUME House!Init
  PROVE  HouseInv
BY HouseFacts DEF House!Init, HouseInv, HouseType, UnownedIsClear, LettersTell, DealsStand,
                  OneEach, EvictedInTime, HS

(* What the calls hand on.                                                 *)
HouseFields == {"owner", "paidUntil", "warnings", "lastWarning", "notice", "evicted"}

HouseStates ==
  [owner : [HS -> Tenants \cup {None}], paidUntil : [HS -> 0 .. MaxDay + Period],
   warnings : [HS -> 0 .. WarningsLimit], lastWarning : [HS -> 0 .. MaxDay],
   notice : [HS -> 0 .. MaxDay + WarningsLimit], evicted : SUBSET HS]

(* The accounts of one house.                                              *)
Clear(s, h) == s.owner[h] = None => s.warnings[h] = 0
Told(s, h) ==
  s.owner[h] # None /\ s.warnings[h] > 0 =>
    s.notice[h] = s.lastWarning[h] + WarningsLimit + 1 - s.warnings[h]

Alike(s, t, h) ==
  /\ t.owner[h] = s.owner[h] /\ t.paidUntil[h] = s.paidUntil[h]
  /\ t.warnings[h] = s.warnings[h] /\ t.lastWarning[h] = s.lastWarning[h]
  /\ t.notice[h] = s.notice[h]

LEMMA SetOwnerAccounts ==
  ASSUME HouseType, NEW s \in HouseStates, NEW h \in HS, NEW p \in Tenants \cup {None},
         Clear(s, h), Told(s, h)
  PROVE  LET t == House!SetOwnerEx(s, h, p) IN
         /\ t \in HouseStates
         /\ t.owner[h] = p
         /\ \A g \in HS \ {h} : Alike(s, t, g)
         /\ Clear(t, h) /\ Told(t, h)
         /\ t.evicted = s.evicted
<1> DEFINE t == House!SetOwnerEx(s, h, p)
<1>0. x1 \in 0 .. MaxDay
  BY HouseFacts DEF HouseType
<1>1. CASE s.owner[h] = p
  BY <1>1 DEF House!SetOwnerEx, Alike
<1>2. CASE s.owner[h] # p
  <2> DEFINE w == IF s.owner[h] = None THEN s.warnings[h] ELSE 0
             u == IF s.owner[h] = None THEN s.paidUntil[h] ELSE 0
             l == IF p = None THEN 0 ELSE x1
  <2>1. t.owner = [s.owner EXCEPT ![h] = p]
    BY <1>2 DEF House!SetOwnerEx, HouseStates
  <2>2. t.warnings = [s.warnings EXCEPT ![h] = w]
    BY <1>2 DEF House!SetOwnerEx, HouseStates
  <2>3. t.paidUntil = [s.paidUntil EXCEPT ![h] = u]
    BY <1>2 DEF House!SetOwnerEx, HouseStates
  <2>4. t.lastWarning = [s.lastWarning EXCEPT ![h] = l]
    BY <1>2 DEF House!SetOwnerEx, HouseStates
  <2>5. t.notice = [s.notice EXCEPT ![h] = 0] /\ t.evicted = s.evicted
    BY <1>2 DEF House!SetOwnerEx, HouseStates
  <2>6. t = [x \in HouseFields |-> t[x]]
    BY <1>2 DEF House!SetOwnerEx, HouseStates, HouseFields
  <2>7. w = 0
    BY DEF Clear
  <2>8. u \in 0 .. MaxDay + Period /\ l \in 0 .. MaxDay
    BY <1>0, HouseFacts DEF HouseStates
  <2> HIDE DEF t, w, u, l
  <2>9. t \in HouseStates
    <3>1. /\ t.owner \in [HS -> Tenants \cup {None}]
          /\ t.paidUntil \in [HS -> 0 .. MaxDay + Period]
          /\ t.lastWarning \in [HS -> 0 .. MaxDay]
          /\ t.evicted \in SUBSET HS
      BY <2>1, <2>3, <2>4, <2>5, <2>8 DEF HouseStates
    <3>2. t.warnings \in [HS -> 0 .. WarningsLimit]
      BY <2>2, <2>7, HouseFacts DEF HouseStates
    <3>3. t.notice \in [HS -> 0 .. MaxDay + WarningsLimit]
      BY <2>5, HouseFacts DEF HouseStates
    <3> QED BY <2>6, <3>1, <3>2, <3>3 DEF HouseStates, HouseFields
  <2>10. t.owner[h] = p /\ t.warnings[h] = 0
    BY <2>1, <2>2, <2>7 DEF HouseStates
  <2>11. \A g \in HS \ {h} : Alike(s, t, g)
    BY <2>1, <2>2, <2>3, <2>4, <2>5 DEF HouseStates, Alike
  <2> QED BY <2>5, <2>9, <2>10, <2>11 DEF Clear, Told, t
<1> QED BY <1>1, <1>2

(* A rent that is due: a house is lost after the announced day only.       *)
LEMMA PayHouseAccounts ==
  ASSUME HouseType, NEW s \in HouseStates, s.evicted = {}, NEW h \in HS,
         s.owner[h] # None, Clear(s, h), Told(s, h),
         NEW fate \in {"unfit", "free", "pays", "fails"}
  PROVE  LET t == House!PayHouse(s, h, fate) IN
         /\ t \in HouseStates
         /\ t.owner[h] \in {s.owner[h], None}
         /\ Clear(t, h) /\ Told(t, h)
         /\ h \in t.evicted => t.notice[h] > 0 /\ x1 >= t.notice[h]
<1> DEFINE t == House!PayHouse(s, h, fate)
           out == House!SetOwnerEx(s, h, None)
<1>0. x1 \in 1 .. MaxDay /\ MaxDay \in Nat /\ Period \in Nat /\ WarningsLimit \in Nat \ {0}
  BY HouseFacts DEF HouseType
<1>a. /\ out \in HouseStates /\ out.owner[h] = None
      /\ Clear(out, h) /\ Told(out, h) /\ out.evicted = {}
  BY SetOwnerAccounts
<1>b. s.warnings[h] \in 0 .. WarningsLimit /\ s.lastWarning[h] \in 0 .. MaxDay
  BY DEF HouseStates
<1> HIDE DEF out
<1>1. CASE fate = "free"
  BY <1>1 DEF House!PayHouse
<1>2. CASE fate = "unfit"
  BY <1>a, <1>2 DEF House!PayHouse, out
<1>3. CASE fate = "pays"
  <2>1. t.paidUntil = [s.paidUntil EXCEPT ![h] = x1 + Period]
    BY <1>3 DEF House!PayHouse, HouseStates
  <2>2. /\ t.owner = s.owner /\ t.warnings = s.warnings /\ t.lastWarning = s.lastWarning
        /\ t.notice = s.notice /\ t.evicted = {}
    BY <1>3 DEF House!PayHouse, HouseStates
  <2>3. t = [x \in HouseFields |-> t[x]]
    BY <1>3 DEF House!PayHouse, HouseStates, HouseFields
  <2> HIDE DEF t
  <2>4. t.paidUntil \in [HS -> 0 .. MaxDay + Period]
    BY <1>0, <2>1 DEF HouseStates
  <2>5. t \in HouseStates
    BY <2>2, <2>3, <2>4 DEF HouseStates, HouseFields
  <2> QED BY <2>2, <2>5 DEF Clear, Told, t
<1>4. CASE fate = "fails" /\ x1 < s.lastWarning[h] + 1
  BY <1>4 DEF House!PayHouse
<1>5. CASE fate = "fails" /\ ~(x1 < s.lastWarning[h] + 1) /\ s.warnings[h] < WarningsLimit
  <2> DEFINE lastDay == x1 + WarningsLimit - s.warnings[h]
  <2>1. t.warnings = [s.warnings EXCEPT ![h] = @ + 1]
    BY <1>5 DEF House!PayHouse, HouseStates
  <2>2. t.lastWarning = [s.lastWarning EXCEPT ![h] = x1]
    BY <1>5 DEF House!PayHouse, HouseStates
  <2>3. t.notice = [s.notice EXCEPT ![h] = lastDay]
    BY <1>5 DEF House!PayHouse, HouseStates
  <2>4. t.owner = s.owner /\ t.paidUntil = s.paidUntil /\ t.evicted = {}
    BY <1>5 DEF House!PayHouse, HouseStates
  <2>5. t = [x \in HouseFields |-> t[x]]
    BY <1>5 DEF House!PayHouse, HouseStates, HouseFields
  <2>6. /\ lastDay \in 0 .. MaxDay + WarningsLimit
        /\ lastDay = x1 + WarningsLimit + 1 - (s.warnings[h] + 1)
        /\ s.warnings[h] + 1 \in 0 .. WarningsLimit /\ s.warnings[h] + 1 > 0
        /\ x1 \in 0 .. MaxDay
    BY <1>0, <1>b, <1>5
  <2> HIDE DEF t, lastDay
  <2>7. t.warnings \in [HS -> 0 .. WarningsLimit]
    BY <2>1, <2>6 DEF HouseStates
  <2>8. t.lastWarning \in [HS -> 0 .. MaxDay]
    BY <2>2, <2>6 DEF HouseStates
  <2>9. t.notice \in [HS -> 0 .. MaxDay + WarningsLimit]
    BY <2>3, <2>6 DEF HouseStates
  <2>10. t \in HouseStates
    BY <2>4, <2>5, <2>7, <2>8, <2>9 DEF HouseStates, HouseFields
  <2>11. /\ t.warnings[h] = s.warnings[h] + 1 /\ t.lastWarning[h] = x1
         /\ t.notice[h] = lastDay
    BY <2>1, <2>2, <2>3 DEF HouseStates
  <2> QED BY <2>4, <2>6, <2>10, <2>11 DEF Clear, Told, t
<1>6. CASE fate = "fails" /\ ~(x1 < s.lastWarning[h] + 1) /\ ~(s.warnings[h] < WarningsLimit)
  <2>0. t = [out EXCEPT !.evicted = @ \cup {h}, !.notice[h] = s.notice[h]]
    BY <1>6 DEF House!PayHouse, out
  <2>1. t.notice = [out.notice EXCEPT ![h] = s.notice[h]]
    BY <1>a, <2>0 DEF HouseStates
  <2>2. t.evicted = out.evicted \cup {h}
    BY <1>a, <2>0 DEF HouseStates
  <2>3. /\ t.owner = out.owner /\ t.paidUntil = out.paidUntil /\ t.warnings = out.warnings
        /\ t.lastWarning = out.lastWarning
    BY <1>a, <2>0 DEF HouseStates
  <2>4. t = [x \in HouseFields |-> t[x]]
    BY <1>a, <2>0 DEF HouseStates, HouseFields
  <2> HIDE DEF t
  <2>5. t.notice \in [HS -> 0 .. MaxDay + WarningsLimit]
    BY <1>a, <2>1 DEF HouseStates
  <2>6. t \in HouseStates
    BY <1>a, <2>2, <2>3, <2>4, <2>5 DEF HouseStates, HouseFields
  <2>7. t.notice[h] = s.notice[h]
    BY <1>a, <2>1 DEF HouseStates
  <2>8. s.warnings[h] = WarningsLimit /\ s.warnings[h] > 0
    BY <1>0, <1>b, <1>6
  <2>9. s.notice[h] = s.lastWarning[h] + WarningsLimit + 1 - WarningsLimit
    BY <2>8 DEF Told
  <2>10. s.notice[h] > 0 /\ x1 >= s.notice[h]
    BY <1>0, <1>b, <1>6, <2>9
  <2> QED BY <1>a, <2>3, <2>6, <2>7, <2>10 DEF Clear, Told, t
<1> QED BY <1>1, <1>2, <1>3, <1>4, <1>5, <1>6

LEMMA StandingAgrees ==
  ASSUME NEW s \in HouseStates, NEW open, open \subseteq House!Deals
  PROVE  /\ House!Standing(s, open) \subseteq House!Deals
         /\ \A d \in House!Standing(s, open) : ~d.stale =>
              s.owner[d.house] = d.seller /\ \A h \in HS : s.owner[h] # d.buyer
<1> SUFFICES ASSUME NEW d \in House!Standing(s, open)
             PROVE  /\ d \in House!Deals
                    /\ ~d.stale =>
                         s.owner[d.house] = d.seller /\ \A h \in HS : s.owner[h] # d.buyer
  OBVIOUS
<1>1. PICK c \in open : d = [c EXCEPT !.stale = @ \/ s.owner[c.house] # c.seller
                                                 \/ House!Owned(s, c.buyer) # {}]
  BY DEF House!Standing
<1>2. c \in House!Deals
  OBVIOUS
<1>3. d.house = c.house /\ d.seller = c.seller /\ d.buyer = c.buyer
  BY <1>1, <1>2 DEF House!Deals
<1>4. d.stale = (c.stale \/ s.owner[c.house] # c.seller \/ House!Owned(s, c.buyer) # {})
  BY <1>1, <1>2 DEF House!Deals
<1>5. d = [house |-> c.house, seller |-> c.seller, buyer |-> c.buyer,
           stale |-> (c.stale \/ s.owner[c.house] # c.seller \/ House!Owned(s, c.buyer) # {})]
  BY <1>1, <1>2 DEF House!Deals
<1>6. d \in House!Deals
  BY <1>2, <1>5 DEF House!Deals
<1>7. ASSUME ~d.stale
      PROVE  s.owner[d.house] = d.seller /\ \A h \in HS : s.owner[h] # d.buyer
  <2>1. s.owner[c.house] = c.seller /\ House!Owned(s, c.buyer) = {}
    BY <1>4, <1>7
  <2> QED BY <1>3, <2>1 DEF House!Owned, HS
<1> QED BY <1>6, <1>7

(* The accounts in memory, as a record.                                    *)
LEMMA AccountsInMemory ==
  ASSUME HouseInv
  PROVE  LET s == House!State IN
         /\ s \in HouseStates /\ s.evicted = {}
         /\ s.owner = x2 /\ s.paidUntil = x3 /\ s.warnings = x4 /\ s.lastWarning = x5
         /\ s.notice = x7
         /\ \A h \in HS : Clear(s, h) /\ Told(s, h)
<1> DEFINE s == House!State
<1>1. /\ s.evicted = {} /\ s.owner = x2 /\ s.paidUntil = x3 /\ s.warnings = x4
      /\ s.lastWarning = x5 /\ s.notice = x7
  BY DEF House!State
<1>2. s = [x \in HouseFields |-> s[x]]
  BY DEF House!State, HouseFields
<1> HIDE DEF s
<1>3. s \in HouseStates
  BY <1>1, <1>2 DEF HouseInv, HouseType, HouseStates, HouseFields
<1>4. \A h \in HS : Clear(s, h) /\ Told(s, h)
  BY <1>1 DEF HouseInv, UnownedIsClear, LettersTell, Clear, Told
<1> QED BY <1>1, <1>3, <1>4 DEF s

(* What the new accounts must satisfy.                                     *)
LEMMA NewAccounts ==
  ASSUME HouseInv, NEW s \in HouseStates, House!Become(s), x1' = x1,
         \A h \in HS : Clear(s, h) /\ Told(s, h),
         \A h \in s.evicted : s.notice[h] > 0 /\ x1 >= s.notice[h],
         x6' \subseteq House!Deals,
         \A d \in x6' : ~d.stale =>
           s.owner[d.house] = d.seller /\ \A h \in HS : s.owner[h] # d.buyer,
         x9' \subseteq HS,
         \A p \in Tenants : \A g, h \in HS \ x9' : s.owner[g] = p /\ s.owner[h] = p => g = h
  PROVE  HouseInv'
<1>1. /\ x2' = s.owner /\ x3' = s.paidUntil /\ x4' = s.warnings /\ x5' = s.lastWarning
      /\ x7' = s.notice /\ x8' = s.evicted
  BY DEF House!Become
<1>2. HouseType'
  BY <1>1 DEF HouseInv, HouseType, HouseStates
<1>3. UnownedIsClear' /\ LettersTell'
  BY <1>1 DEF UnownedIsClear, LettersTell, Clear, Told
<1>4. DealsStand'
  BY <1>1 DEF DealsStand
<1>5. OneEach'
  BY <1>1 DEF OneEach
<1>6. EvictedInTime'
  BY <1>1 DEF EvictedInTime
<1> QED BY <1>2, <1>3, <1>4, <1>5, <1>6 DEF HouseInv

LEMMA FirstOwnedIsOwned ==
  ASSUME NEW p, House!Owned(House!State, p) # {}
  PROVE  House!FirstOwned(p) \in HS /\ x2[House!FirstOwned(p)] = p
<1> DEFINE T == {i \in DOMAIN Houses : x2[Houses[i]] = p}
<1>1. T # {}
  BY DEF House!Owned, House!State, House!HouseSet
<1>2. T \subseteq Nat
  <2>1. DOMAIN Houses = 1 .. Len(Houses) /\ Len(Houses) \in Nat
    BY HouseFacts
  <2> QED BY <2>1
<1>4. PICK i \in T : \A j \in T : i <= j
  <2> HIDE DEF T
  <2> QED BY <1>1, <1>2, LeastNumber
<1>6. i \in DOMAIN Houses /\ x2[Houses[i]] = p
      /\ \A j \in DOMAIN Houses : x2[Houses[j]] = p => i <= j
  BY <1>4
<1> DEFINE first == CHOOSE k \in DOMAIN Houses :
                      /\ x2[Houses[k]] = p
                      /\ \A j \in DOMAIN Houses : x2[Houses[j]] = p => k <= j
<1>7. first \in DOMAIN Houses /\ x2[Houses[first]] = p
  BY <1>6
<1>8. House!FirstOwned(p) = Houses[first]
  BY DEF House!FirstOwned
<1> HIDE DEF first
<1> QED BY <1>7, <1>8 DEF HS, House!HouseSet

LEMMA HouseStepKeeps ==
  ASSUME HouseInv, House!Next
  PROVE  HouseInv'
<1> DEFINE s == House!State
<1>0. /\ s \in HouseStates /\ s.evicted = {}
      /\ s.owner = x2 /\ s.paidUntil = x3 /\ s.warnings = x4 /\ s.lastWarning = x5
      /\ s.notice = x7
      /\ \A h \in HS : Clear(s, h) /\ Told(s, h)
  BY AccountsInMemory
<1>a. /\ HouseType /\ DealsStand /\ OneEach /\ EvictedInTime
      /\ UnownedIsClear /\ LettersTell /\ x6 \subseteq House!Deals /\ x9 \subseteq HS
  BY DEF HouseInv, HouseType
<1>b. ASSUME NEW h \in HS, NEW p \in Tenants \cup {None}
      PROVE  LET t == House!SetOwnerEx(s, h, p) IN
             /\ t \in HouseStates /\ t.evicted = {}
             /\ \A g \in HS : Clear(t, g) /\ Told(t, g)
             /\ t.owner[h] = p /\ \A g \in HS \ {h} : t.owner[g] = x2[g]
  <2> DEFINE t == House!SetOwnerEx(s, h, p)
  <2> HIDE DEF s
  <2>1. /\ t \in HouseStates /\ t.owner[h] = p /\ \A g \in HS \ {h} : Alike(s, t, g)
        /\ Clear(t, h) /\ Told(t, h) /\ t.evicted = {}
    BY <1>0, <1>a, SetOwnerAccounts
  <2> HIDE DEF t
  <2>2. \A g \in HS \ {h} : Clear(t, g) /\ Told(t, g) /\ t.owner[g] = x2[g]
    BY <1>0, <2>1 DEF Alike, Clear, Told
  <2> QED BY <2>1, <2>2 DEF t
<1>1. CASE House!PayHouses
  <2> PICK fate \in [{h \in HS : House!RentIsDue(s, h, x1)} -> {"unfit", "free", "pays", "fails"}] :
        /\ House!Become(House!Paid(fate))
        /\ x6' = House!Standing(House!Paid(fate), x6)
        /\ x9' = x9 \ {h \in HS : House!Paid(fate).owner[h] = None}
        /\ x1' = x1
    BY <1>1 DEF House!PayHouses, HS
  <2> DEFINE t == House!Paid(fate)
             after(h) == IF h \in DOMAIN fate THEN House!PayHouse(s, h, fate[h]) ELSE s
  <2>1. /\ \A h \in HS : /\ t.owner[h] = after(h).owner[h]
                         /\ t.warnings[h] = after(h).warnings[h]
                         /\ t.lastWarning[h] = after(h).lastWarning[h]
                         /\ t.notice[h] = after(h).notice[h]
                         /\ t.paidUntil[h] = after(h).paidUntil[h]
        /\ t.evicted = {h \in HS : h \in after(h).evicted}
    BY DEF House!Paid, HS
  <2>2. /\ t = [x \in HouseFields |-> t[x]]
        /\ t.owner = [h \in HS |-> t.owner[h]]
        /\ t.warnings = [h \in HS |-> t.warnings[h]]
        /\ t.lastWarning = [h \in HS |-> t.lastWarning[h]]
        /\ t.notice = [h \in HS |-> t.notice[h]]
        /\ t.paidUntil = [h \in HS |-> t.paidUntil[h]]
    <3>1. t = [x \in HouseFields |-> t[x]]
      <4> DEFINE ow == [h \in HS |-> after(h).owner[h]]
                 pu == [h \in HS |-> after(h).paidUntil[h]]
                 wa == [h \in HS |-> after(h).warnings[h]]
                 lw == [h \in HS |-> after(h).lastWarning[h]]
                 no == [h \in HS |-> after(h).notice[h]]
                 ev == {h \in HS : h \in after(h).evicted}
      <4>1. t = [owner |-> ow, paidUntil |-> pu, warnings |-> wa, lastWarning |-> lw,
                 notice |-> no, evicted |-> ev]
        BY DEF House!Paid, HS
      <4> HIDE DEF t, ow, pu, wa, lw, no, ev
      <4> QED BY <4>1 DEF HouseFields
    <3>2. /\ t.owner = [h \in HS |-> t.owner[h]]
          /\ t.warnings = [h \in HS |-> t.warnings[h]]
      BY DEF House!Paid, HS
    <3>3. /\ t.lastWarning = [h \in HS |-> t.lastWarning[h]]
          /\ t.notice = [h \in HS |-> t.notice[h]]
          /\ t.paidUntil = [h \in HS |-> t.paidUntil[h]]
      BY DEF House!Paid, HS
    <3> QED BY <3>1, <3>2, <3>3
  <2>3. ASSUME NEW h \in HS
        PROVE  /\ after(h) \in HouseStates
               /\ after(h).owner[h] \in {x2[h], None}
               /\ Clear(after(h), h) /\ Told(after(h), h)
               /\ h \in after(h).evicted => after(h).notice[h] > 0 /\ x1 >= after(h).notice[h]
    <3>1. CASE h \notin DOMAIN fate
      BY <1>0, <3>1
    <3>2. CASE h \in DOMAIN fate
      <4>1. fate[h] \in {"unfit", "free", "pays", "fails"} /\ s.owner[h] # None
        BY <3>2 DEF House!RentIsDue
      <4> DEFINE r == House!PayHouse(s, h, fate[h])
      <4>2. after(h) = r
        BY <3>2
      <4> HIDE DEF s
      <4>3. /\ r \in HouseStates /\ r.owner[h] \in {s.owner[h], None}
            /\ Clear(r, h) /\ Told(r, h)
            /\ h \in r.evicted => r.notice[h] > 0 /\ x1 >= r.notice[h]
        BY <1>0, <1>a, <4>1, PayHouseAccounts
      <4> HIDE DEF r
      <4> QED BY <1>0, <4>2, <4>3
    <3> QED BY <3>1, <3>2
  <2> HIDE DEF t, after, s
  <2>4. t \in HouseStates
    <3>1. \A h \in HS : /\ t.owner[h] \in Tenants \cup {None}
                        /\ t.warnings[h] \in 0 .. WarningsLimit
                        /\ t.lastWarning[h] \in 0 .. MaxDay
                        /\ t.notice[h] \in 0 .. MaxDay + WarningsLimit
                        /\ t.paidUntil[h] \in 0 .. MaxDay + Period
      BY <2>1, <2>3 DEF HouseStates
    <3>2. /\ t.owner \in [HS -> Tenants \cup {None}]
          /\ t.warnings \in [HS -> 0 .. WarningsLimit]
          /\ t.lastWarning \in [HS -> 0 .. MaxDay]
          /\ t.notice \in [HS -> 0 .. MaxDay + WarningsLimit]
          /\ t.paidUntil \in [HS -> 0 .. MaxDay + Period]
      BY <2>2, <3>1
    <3>3. t.evicted \in SUBSET HS
      BY <2>1
    <3> QED BY <2>2, <3>2, <3>3 DEF HouseStates, HouseFields
  <2>5. \A h \in HS : Clear(t, h) /\ Told(t, h)
    BY <2>1, <2>3 DEF Clear, Told
  <2>6. \A h \in t.evicted : t.notice[h] > 0 /\ x1 >= t.notice[h]
    BY <2>1, <2>3
  <2>7. \A h \in HS : t.owner[h] \in {x2[h], None}
    BY <2>1, <2>3
  <2>8. /\ House!Become(t) /\ x6' = House!Standing(t, x6) /\ x1' = x1
        /\ x9' = x9 \ {h \in HS : t.owner[h] = None}
    BY DEF t
  <2>9. \A p \in Tenants : \A g, h \in HS \ x9' : t.owner[g] = p /\ t.owner[h] = p => g = h
    <3> SUFFICES ASSUME NEW p \in Tenants, NEW g \in HS \ x9', NEW h \in HS \ x9',
                        t.owner[g] = p, t.owner[h] = p
                 PROVE  g = h
      OBVIOUS
    <3>1. x2[g] = p /\ x2[h] = p /\ g \notin x9 /\ h \notin x9
      BY <2>7, <2>8, HouseFacts
    <3> QED BY <1>a, <3>1 DEF OneEach
  <2>10. /\ x6' \subseteq House!Deals
         /\ \A d \in x6' : ~d.stale =>
              t.owner[d.house] = d.seller /\ \A h \in HS : t.owner[h] # d.buyer
    BY <1>a, <2>4, <2>8, StandingAgrees
  <2>11. x9' \subseteq HS
    BY <1>a, <2>8
  <2> QED BY <2>4, <2>5, <2>6, <2>8, <2>9, <2>10, <2>11, NewAccounts
<1>2. CASE House!NextDay
  <2>1. /\ x1 < MaxDay /\ x1' = x1 + 1 /\ x8' = {}
        /\ UNCHANGED <<x2, x3, x4, x5, x6, x7, x9>>
    BY <1>2 DEF House!NextDay
  <2>2. x1' \in 1 .. MaxDay
    BY <1>a, <2>1, HouseFacts DEF HouseType
  <2> QED BY <1>a, <2>1, <2>2 DEF HouseInv, HouseType, DealsStand, OneEach, EvictedInTime,
                                  UnownedIsClear, LettersTell
<1>3. ASSUME NEW p \in Tenants, NEW h \in HS, House!BuyHouse(p, h)
      PROVE  HouseInv'
  <2> DEFINE t == House!SetOwnerEx(s, h, p)
  <2>1. /\ House!Owned(s, p) = {} /\ x2[h] = None
        /\ House!Become(t) /\ x6' = House!Standing(t, x6) /\ x1' = x1 /\ x9' = x9
    BY <1>3 DEF House!BuyHouse
  <2>2. \A g \in HS : x2[g] # p
    BY <1>0, <2>1 DEF House!Owned, HS
  <2>3. /\ t \in HouseStates /\ t.evicted = {}
        /\ \A g \in HS : Clear(t, g) /\ Told(t, g)
        /\ t.owner[h] = p /\ \A g \in HS \ {h} : t.owner[g] = x2[g]
    BY <1>b
  <2> HIDE DEF t
  <2>4. \A q \in Tenants : \A f, g \in HS \ x9' : t.owner[f] = q /\ t.owner[g] = q => f = g
    <3> SUFFICES ASSUME NEW q \in Tenants, NEW f \in HS \ x9', NEW g \in HS \ x9',
                        t.owner[f] = q, t.owner[g] = q
                 PROVE  f = g
      OBVIOUS
    <3>1. CASE q = p
      BY <2>2, <2>3, <3>1
    <3>2. CASE q # p
      BY <1>a, <2>1, <2>3, <3>2 DEF OneEach
    <3> QED BY <3>1, <3>2
  <2>5. /\ x6' \subseteq House!Deals
        /\ \A d \in x6' : ~d.stale =>
             t.owner[d.house] = d.seller /\ \A g \in HS : t.owner[g] # d.buyer
    BY <1>a, <2>1, <2>3, StandingAgrees
  <2> QED BY <1>a, <2>1, <2>3, <2>4, <2>5, NewAccounts
<1>4. ASSUME NEW p \in Tenants, NEW h \in HS, House!LeaveHouse(p, h)
      PROVE  HouseInv'
  <2> DEFINE t == House!SetOwnerEx(s, h, None)
  <2>1. /\ House!Become(t) /\ x6' = House!Standing(t, x6) /\ x1' = x1 /\ x9' = x9 \ {h}
    BY <1>4 DEF House!LeaveHouse
  <2>2. /\ t \in HouseStates /\ t.evicted = {}
        /\ \A g \in HS : Clear(t, g) /\ Told(t, g)
        /\ t.owner[h] = None /\ \A g \in HS \ {h} : t.owner[g] = x2[g]
    BY <1>b
  <2> HIDE DEF t
  <2>3. \A q \in Tenants : \A f, g \in HS \ x9' : t.owner[f] = q /\ t.owner[g] = q => f = g
    <3> SUFFICES ASSUME NEW q \in Tenants, NEW f \in HS \ x9', NEW g \in HS \ x9',
                        t.owner[f] = q, t.owner[g] = q
                 PROVE  f = g
      OBVIOUS
    <3>1. f # h /\ g # h
      BY <2>2, HouseFacts
    <3>2. x2[f] = q /\ x2[g] = q /\ f \notin x9 /\ g \notin x9
      BY <2>1, <2>2, <3>1
    <3> QED BY <1>a, <3>2 DEF OneEach
  <2>4. /\ x6' \subseteq House!Deals
        /\ \A d \in x6' : ~d.stale =>
             t.owner[d.house] = d.seller /\ \A g \in HS : t.owner[g] # d.buyer
    BY <1>a, <2>1, <2>2, StandingAgrees
  <2>5. x9' \subseteq HS
    BY <1>a, <2>1
  <2> QED BY <2>1, <2>2, <2>3, <2>4, <2>5, NewAccounts
<1>5. ASSUME NEW p \in Tenants, NEW q \in Tenants, House!SellHouse(p, q)
      PROVE  HouseInv'
  <2> DEFINE h == House!FirstOwned(p)
             deal == [house |-> h, seller |-> p, buyer |-> q, stale |-> FALSE]
  <2>a. PICK day \in {x3[h], x1 + Period} : House!Become([s EXCEPT !.paidUntil[h] = day])
    BY <1>5 DEF House!SellHouse
  <2> DEFINE t == [s EXCEPT !.paidUntil[h] = day]
  <2>1. /\ House!MaySell(p, q) /\ House!Become(t) /\ x6' = x6 \cup {deal}
        /\ x1' = x1 /\ x9' = x9
    BY <1>5, <2>a DEF House!SellHouse
  <2>2. h \in HS /\ x2[h] = p /\ \A g \in HS : x2[g] # q
    BY <1>0, <2>1, FirstOwnedIsOwned DEF House!MaySell, House!Owned, HS
  <2> HIDE DEF h
  <2>3. t.paidUntil = [s.paidUntil EXCEPT ![h] = day]
    BY <1>0 DEF HouseStates
  <2>4. /\ t.owner = s.owner /\ t.warnings = s.warnings /\ t.lastWarning = s.lastWarning
        /\ t.notice = s.notice /\ t.evicted = s.evicted
    BY <1>0 DEF HouseStates
  <2>5. t = [x \in HouseFields |-> t[x]]
    BY <1>0 DEF HouseStates, HouseFields
  <2>6. day \in 0 .. MaxDay + Period
    BY <1>0, <1>a, <2>2, HouseFacts DEF HouseStates, HouseType
  <2> HIDE DEF t, s
  <2>7. t \in HouseStates
    <3>1. t.paidUntil \in [HS -> 0 .. MaxDay + Period]
      BY <1>0, <2>3, <2>6 DEF HouseStates
    <3> QED BY <1>0, <2>4, <2>5, <3>1 DEF HouseStates, HouseFields
  <2>8. \A g \in HS : Clear(t, g) /\ Told(t, g)
    BY <1>0, <2>4 DEF Clear, Told
  <2>9. deal \in House!Deals
    BY <2>2 DEF House!Deals, HS
  <2>10. \A d \in x6' : ~d.stale =>
            t.owner[d.house] = d.seller /\ \A g \in HS : t.owner[g] # d.buyer
    <3>1. t.owner = x2
      BY <1>0, <2>4
    <3> QED BY <1>a, <2>1, <2>2, <3>1 DEF DealsStand
  <2>11. \A r \in Tenants : \A f, g \in HS \ x9' : t.owner[f] = r /\ t.owner[g] = r => f = g
    BY <1>0, <1>a, <2>1, <2>4 DEF OneEach
  <2>12. x6' \subseteq House!Deals
    BY <1>a, <2>1, <2>9
  <2> QED BY <1>0, <1>a, <2>1, <2>4, <2>7, <2>8, <2>10, <2>11, <2>12, NewAccounts
<1>6. ASSUME NEW d \in x6, House!CloseDeal(d)
      PROVE  HouseInv'
  <2> DEFINE h == d.house
             t == House!SetOwnerEx(s, h, d.buyer)
  <2>1. /\ House!Become(t) /\ x6' = House!Standing(t, x6 \ {d}) /\ x1' = x1
        /\ x9' = IF d.stale THEN x9 \cup {h} ELSE x9 \ {h}
    BY <1>6 DEF House!CloseDeal
  <2>2. h \in HS /\ d.buyer \in Tenants
    BY <1>a DEF House!Deals, HS
  <2>3. /\ t \in HouseStates /\ t.evicted = {}
        /\ \A g \in HS : Clear(t, g) /\ Told(t, g)
        /\ t.owner[h] = d.buyer /\ \A g \in HS \ {h} : t.owner[g] = x2[g]
    BY <1>b, <2>2
  <2> HIDE DEF t, h
  <2>4. \A q \in Tenants : \A f, g \in HS \ x9' : t.owner[f] = q /\ t.owner[g] = q => f = g
    <3> SUFFICES ASSUME NEW q \in Tenants, NEW f \in HS \ x9', NEW g \in HS \ x9',
                        t.owner[f] = q, t.owner[g] = q
                 PROVE  f = g
      OBVIOUS
    <3>1. CASE f # h /\ g # h
      BY <1>a, <2>1, <2>3, <3>1 DEF OneEach
    <3>2. CASE ~d.stale /\ (f = h \/ g = h)
      <4>1. \A k \in HS : x2[k] # d.buyer
        BY <1>a, <3>2 DEF DealsStand
      <4> QED BY <2>3, <3>2, <4>1
    <3>3. CASE d.stale /\ (f = h \/ g = h)
      BY <2>1, <3>3
    <3> QED BY <3>1, <3>2, <3>3
  <2>5. /\ x6' \subseteq House!Deals
        /\ \A c \in x6' : ~c.stale =>
             t.owner[c.house] = c.seller /\ \A g \in HS : t.owner[g] # c.buyer
    <3>1. x6 \ {d} \subseteq House!Deals
      BY <1>a
    <3> QED BY <2>1, <2>3, <3>1, StandingAgrees
  <2>6. x9' \subseteq HS
    BY <1>a, <2>1, <2>2
  <2> QED BY <2>1, <2>3, <2>4, <2>5, <2>6, NewAccounts
<1>7. ASSUME NEW d \in x6, House!CancelDeal(d)
      PROVE  HouseInv'
  <2>1. x6' = x6 \ {d} /\ x8' = {} /\ UNCHANGED <<x1, x2, x3, x4, x5, x7, x9>>
    BY <1>7 DEF House!CancelDeal
  <2> QED BY <1>a, <2>1 DEF HouseInv, HouseType, DealsStand, OneEach, EvictedInTime,
                            UnownedIsClear, LettersTell
<1> QED BY <1>1, <1>2, <1>3, <1>4, <1>5, <1>6, <1>7 DEF House!Next, HS

LEMMA HouseInvIsEnough ==
  ASSUME HouseInv
  PROVE  House!TypeOK /\ House!OneHouseEach /\ House!NoticeIsKept
<1>1. House!TypeOK
  BY DEF HouseInv, HouseType, House!TypeOK, HS
<1>2. House!NoticeIsKept
  BY DEF HouseInv, EvictedInTime, House!NoticeIsKept
<1>3. ASSUME NEW p \in Tenants
      PROVE  House!Cardinality(House!Owned(House!State, p) \ x9) <= 1
  <2> DEFINE own == House!Owned(House!State, p) \ x9
  <2>1. \A g, h \in own : g = h
    BY DEF HouseInv, OneEach, House!Owned, House!State, HS
  <2> HIDE DEF own
  <2>2. own = {} \/ \E h : own = {h}
    BY <2>1
  <2>3. Cardinality(own) <= 1
    <3>1. CASE own = {}
      <4>1. Cardinality(own) = 0
        BY <3>1, FS_EmptySet
      <4> QED BY <4>1
    <3>2. CASE \E h : own = {h}
      <4>1. PICK h : own = {h}
        BY <3>2
      <4>2. Cardinality(own) = 1
        BY <4>1, FS_Singleton
      <4> QED BY <4>2
    <3> QED BY <2>2, <3>1, <3>2
  <2>4. House!Cardinality(own) = Cardinality(own)
    BY DEF House!Cardinality, Cardinality
  <2> QED BY <2>3, <2>4 DEF own
<1> QED BY <1>1, <1>2, <1>3 DEF House!OneHouseEach

LEMMA HouseInvStutters ==
  ASSUME HouseInv, Untouched
  PROVE  HouseInv'
BY DEF Untouched, HouseInv, HouseType, UnownedIsClear, LettersTell, DealsStand, OneEach,
       EvictedInTime

LEMMA BedInvStutters ==
  ASSUME BedInv, Untouched
  PROVE  BedInv'
BY DEF Untouched, BedInv, Bed!TypeOK, Bed!SleepersAgree, Bed!BedsOf, StoredHalvesAgree
-----------------------------------------------------------------------------
(* Walking.  The invariant is stated of a record of the state, as the      *)
(* handlers call each other.                                               *)
WalkNumbers == 1 .. (MaxWalks + 2)
Errands == {<<"update">>} \cup {<<"walk", n>> : n \in 1 .. MaxSteps}
Conditions == {"resting", "busy", "rooted", "following", "pathed", "removed"}

WalkStates ==
  [left : 0 .. MaxSteps, walkTask : BOOLEAN, eventOf : [Walk!EventKinds -> 0 .. (MaxWalks + 2)],
   events : SUBSET [kind : Walk!EventKinds, id : WalkNumbers], posted : Seq(Errands),
   is : SUBSET Conditions, stranded : SUBSET {"task", "steps"}, doubled : BOOLEAN]

(* The scheduler has nothing of a kind, or only what can be stopped.       *)
NoneOf(s, k) == \A e \in s.events : e.kind # k
Stoppable(s) ==
  \A e \in s.events : e.id = s.eventOf[e.kind] \/ (e.kind = "walk" /\ s.doubled)

(* A step that waits and a path, as StepOrWalk has it.                     *)
StepIsAlone(s) ==
  NoneOf(s, "step") \/ s.left = 0 \/ "following" \in s.is \/ "steps" \in s.stranded

(* What holds in the middle of a handler as well.                          *)
Orderly(s) ==
  /\ s \in WalkStates /\ "removed" \notin s.is
  /\ Stoppable(s)
  /\ s.walkTask => NoneOf(s, "arrival")

Sound(s) ==
  /\ Orderly(s) /\ StepIsAlone(s)
  /\ s.left = 0 \/ "steps" \in s.stranded \/ s.eventOf["walk"] # 0

(* The walk event that a player names is in the scheduler, but while it is *)
(* carried out.                                                            *)
WalkIsScheduled(s) ==
  s.eventOf["walk"] # 0 => \E e \in s.events : e.kind = "walk" /\ e.id = s.eventOf["walk"]

WalkIsPosted(s) == \E k \in DOMAIN s.posted : s.posted[k][1] = "walk"
TaskHasWalk(s) ==
  s.walkTask => "task" \in s.stranded \/ s.eventOf["walk"] # 0 \/ WalkIsPosted(s)

FewWalks(s) == Cardinality(Walk!Of(s, "walk")) <= MaxWalks

WalkInv ==
  /\ Walk!State \in WalkStates /\ FewWalks(Walk!State)
  /\ "removed" \notin x6 => Sound(Walk!State) /\ WalkIsScheduled(Walk!State) /\ TaskHasWalk(Walk!State)
  /\ "removed" \in x6 => x1 = 0 /\ ~x2 /\ x4 = {} /\ x5 = <<>>

WalkFields ==
  {"left", "walkTask", "eventOf", "events", "posted", "is", "stranded", "doubled"}

LEMMA IsWalkState ==
  ASSUME NEW t, t = [x \in WalkFields |-> t[x]],
         t.left \in 0 .. MaxSteps, t.walkTask \in BOOLEAN,
         t.eventOf \in [Walk!EventKinds -> 0 .. (MaxWalks + 2)],
         t.events \in SUBSET [kind : Walk!EventKinds, id : WalkNumbers],
         t.posted \in Seq(Errands), t.is \in SUBSET Conditions,
         t.stranded \in SUBSET {"task", "steps"}, t.doubled \in BOOLEAN
  PROVE  t \in WalkStates
BY DEF WalkStates, WalkFields

(* One handler's part: what holds still holds, and the scheduler gets no   *)
(* walk event, or one, that it had not.                                    *)
Leads(s, t) ==
  /\ Sound(t)
  /\ WalkIsScheduled(s) => WalkIsScheduled(t)
  /\ TaskHasWalk(s) => TaskHasWalk(t)
Adds(s, t, new) == \A e \in t.events : e.kind = "walk" => e \in s.events \/ e \in new
Keeps(s, t) == Leads(s, t) /\ Adds(s, t, {})
KeepsOrAdds(s, t) == Leads(s, t) /\ \E e : Adds(s, t, {e})

(* The same without a promise that t is sound.                             *)
Carries(s, t) ==
  /\ WalkIsScheduled(s) => WalkIsScheduled(t)
  /\ TaskHasWalk(s) => TaskHasWalk(t)
  /\ Adds(s, t, {})

LEMMA CarriesThenKeeps ==
  ASSUME NEW r, NEW s, NEW t, Carries(r, s), Keeps(s, t)
  PROVE  Keeps(r, t)
BY DEF Keeps, Carries, Leads, Adds

LEMMA CarriesThenAdds ==
  ASSUME NEW r, NEW s, NEW t, Carries(r, s), KeepsOrAdds(s, t)
  PROVE  KeepsOrAdds(r, t)
BY DEF Carries, KeepsOrAdds, Leads, Adds

LEMMA KeepsTwice ==
  ASSUME NEW r, NEW s, NEW t, Keeps(r, s), Keeps(s, t)
  PROVE  Keeps(r, t)
BY DEF Keeps, Leads, Adds

LEMMA KeepsThenAdds ==
  ASSUME NEW r, NEW s, NEW t, Keeps(r, s), KeepsOrAdds(s, t)
  PROVE  KeepsOrAdds(r, t)
BY DEF Keeps, KeepsOrAdds, Leads, Adds

LEMMA AddsThenKeeps ==
  ASSUME NEW r, NEW s, NEW t, KeepsOrAdds(r, s), Keeps(s, t)
  PROVE  KeepsOrAdds(r, t)
BY DEF Keeps, KeepsOrAdds, Leads, Adds

LEMMA KeepsMayAdd ==
  ASSUME NEW s, NEW t, Keeps(s, t)
  PROVE  KeepsOrAdds(s, t)
BY DEF Keeps, KeepsOrAdds, Adds

LEMMA KeepsItself ==
  ASSUME NEW s, Sound(s)
  PROVE  Keeps(s, s)
BY DEF Keeps, Leads, Adds

(* What stopping and adding an event leave alone.                          *)
SameButEvents(s, t) ==
  /\ t.left = s.left /\ t.walkTask = s.walkTask /\ t.posted = s.posted
  /\ t.is = s.is /\ t.stranded = s.stranded /\ t.doubled = s.doubled

FewerKinds(s, t) == \A j : NoneOf(s, j) => NoneOf(t, j)

LEMMA StopEventIs ==
  ASSUME NEW s \in WalkStates, NEW k \in Walk!EventKinds
  PROVE  LET t == Walk!StopEvent(s, k) IN
         /\ t \in WalkStates /\ SameButEvents(s, t)
         /\ t.events = {e \in s.events : ~(e.kind = k /\ e.id = s.eventOf[k])}
         /\ t.eventOf = [s.eventOf EXCEPT ![k] = 0]
<1> DEFINE t == Walk!StopEvent(s, k)
<1>1. t = [s EXCEPT !.events = {e \in @ : ~(e.kind = k /\ e.id = s.eventOf[k])}, !.eventOf[k] = 0]
  BY DEF Walk!StopEvent
<1> HIDE DEF t
<1>2. /\ t.events = {e \in s.events : ~(e.kind = k /\ e.id = s.eventOf[k])}
      /\ t.eventOf = [s.eventOf EXCEPT ![k] = 0]
      /\ SameButEvents(s, t)
  BY <1>1 DEF WalkStates, SameButEvents
<1>3. /\ t.events \in SUBSET [kind : Walk!EventKinds, id : WalkNumbers]
      /\ t.eventOf \in [Walk!EventKinds -> 0 .. (MaxWalks + 2)]
  BY <1>2, PartsAssumption DEF WalkStates, Walk!WalkAssumption
<1>4. t \in WalkStates
  BY <1>1, <1>3 DEF WalkStates
<1> QED BY <1>2, <1>4 DEF t

(* A number for an event that none of its kind has.                        *)
Unused(s, k, n) ==
  /\ n \in WalkNumbers /\ n # s.eventOf[k]
  /\ \A e \in s.events : e.kind = k => e.id # n

LEMMA AddEventIs ==
  ASSUME NEW s \in WalkStates, NEW k \in Walk!EventKinds, \E n : Unused(s, k, n)
  PROVE  LET t == Walk!AddEvent(s, k) IN
         /\ t \in WalkStates /\ SameButEvents(s, t)
         /\ \E n : /\ Unused(s, k, n)
                   /\ t.events = s.events \cup {[kind |-> k, id |-> n]}
                   /\ t.eventOf = [s.eventOf EXCEPT ![k] = n]
<1> DEFINE n == Walk!Fresh(s, k)
           t == Walk!AddEvent(s, k)
<1>1. Unused(s, k, n)
  <2>1. PICK i : Unused(s, k, i)
    OBVIOUS
  <2>2. n = CHOOSE j \in WalkNumbers : j # s.eventOf[k] /\ \A e \in Walk!Of(s, k) : e.id # j
    BY DEF Walk!Fresh, WalkNumbers
  <2>3. \E j \in WalkNumbers : j # s.eventOf[k] /\ \A e \in Walk!Of(s, k) : e.id # j
    BY <2>1 DEF Unused, Walk!Of
  <2> HIDE DEF n
  <2>4. n \in WalkNumbers /\ n # s.eventOf[k] /\ \A e \in Walk!Of(s, k) : e.id # n
    BY <2>2, <2>3, Zenon
  <2> QED BY <2>4 DEF Unused, Walk!Of
<1>2. t = [s EXCEPT !.events = @ \cup {[kind |-> k, id |-> n]}, !.eventOf[k] = n]
  BY DEF Walk!AddEvent
<1> HIDE DEF n, t
<1>3. n \in 1 .. (MaxWalks + 2)
  BY <1>1 DEF Unused, WalkNumbers
<1>4. /\ t.events = s.events \cup {[kind |-> k, id |-> n]}
      /\ t.eventOf = [s.eventOf EXCEPT ![k] = n]
      /\ SameButEvents(s, t)
  BY <1>2 DEF WalkStates, SameButEvents
<1>5. /\ t.events \in SUBSET [kind : Walk!EventKinds, id : WalkNumbers]
      /\ t.eventOf \in [Walk!EventKinds -> 0 .. (MaxWalks + 2)]
  BY <1>3, <1>4, PartsAssumption DEF WalkStates, WalkNumbers, Walk!WalkAssumption
<1>6. t \in WalkStates
  BY <1>2, <1>5 DEF WalkStates
<1> QED BY <1>1, <1>4, <1>6 DEF t

(* Walk counts as this module does.                                        *)
LEMMA SameCount ==
  ASSUME NEW S
  PROVE  Walk!Cardinality(S) = Cardinality(S)
BY Zenon DEF Cardinality, Walk!Cardinality

LEMMA FourKinds ==
  /\ {"walk", "arrival", "action", "step"} = Walk!EventKinds
  /\ 1 \in WalkNumbers /\ MaxSteps \in Nat /\ MaxWalks \in Nat \ {0}
BY PartsAssumption DEF Walk!EventKinds, WalkNumbers, Walk!WalkAssumption

LEMMA WalksAreFinite ==
  ASSUME NEW s \in WalkStates
  PROVE  /\ IsFiniteSet(WalkNumbers) /\ Cardinality(WalkNumbers) = MaxWalks + 2
         /\ IsFiniteSet(Walk!Of(s, "walk")) /\ Cardinality(Walk!Of(s, "walk")) \in Nat
<1> DEFINE events == {[kind |-> "walk", id |-> n] : n \in WalkNumbers}
           f == [n \in WalkNumbers |-> [kind |-> "walk", id |-> n]]
<1>1. IsFiniteSet(WalkNumbers) /\ Cardinality(WalkNumbers) = MaxWalks + 2
  <2>1. 1 \in Int /\ MaxWalks + 2 \in Int /\ ~(1 > MaxWalks + 2)
        /\ (MaxWalks + 2) - 1 + 1 = MaxWalks + 2
    BY FourKinds
  <2> QED BY <2>1, FS_Interval DEF WalkNumbers
<1>2. f \in Surjection(WalkNumbers, events)
  BY DEF Surjection
<1>3. IsFiniteSet(events)
  <2> HIDE DEF events, f
  <2> QED BY <1>1, <1>2, FS_Surjection
<1>4. Walk!Of(s, "walk") \subseteq events
  BY DEF WalkStates, Walk!Of
<1>5. IsFiniteSet(Walk!Of(s, "walk"))
  BY <1>3, <1>4, FS_Subset
<1> QED BY <1>1, <1>5, FS_CardinalityType

(* There are more numbers than walk events and the one named.              *)
LEMMA SpareNumber ==
  ASSUME NEW s \in WalkStates, FewWalks(s)
  PROVE  \E n : Unused(s, "walk", n)
<1> DEFINE walks == Walk!Of(s, "walk")
           f == [e \in walks |-> e.id]
           taken == {e.id : e \in walks}
<1>1. walks \subseteq [kind : Walk!EventKinds, id : WalkNumbers]
  BY DEF WalkStates, Walk!Of
<1>2. IsFiniteSet(WalkNumbers) /\ Cardinality(WalkNumbers) = MaxWalks + 2
  BY WalksAreFinite
<1>3. taken \subseteq WalkNumbers
  BY <1>1
<1>4. IsFiniteSet(taken)
  BY <1>2, <1>3, FS_Subset
<1>5. IsFiniteSet(walks)
  BY WalksAreFinite
<1>6. f \in Surjection(walks, taken)
  BY DEF Surjection
<1>7. Cardinality(taken) <= Cardinality(walks) /\ Cardinality(walks) <= MaxWalks
  BY <1>5, <1>6, FS_Surjection DEF FewWalks
<1> DEFINE named == taken \cup {s.eventOf["walk"]}
<1>8. IsFiniteSet(named) /\ Cardinality(named) <= Cardinality(taken) + 1
  <2>1. Cardinality(taken) \in Nat
    BY <1>4, FS_CardinalityType
  <2>2. /\ IsFiniteSet(named)
        /\ Cardinality(named) =
             IF s.eventOf["walk"] \in taken THEN Cardinality(taken) ELSE Cardinality(taken) + 1
    <3> HIDE DEF taken
    <3> QED BY <1>4, FS_AddElement
  <2> HIDE DEF taken, named
  <2> QED BY <2>1, <2>2
<1>9. Cardinality(taken) \in Nat /\ Cardinality(walks) \in Nat /\ Cardinality(named) \in Nat
  BY <1>4, <1>5, <1>8, FS_CardinalityType
<1>10. ~(WalkNumbers \subseteq named)
  <2>1. Cardinality(named) < MaxWalks + 2
    <3> HIDE DEF taken, walks, named
    <3> QED BY <1>7, <1>8, <1>9, FourKinds
  <2>2. WalkNumbers \subseteq named => Cardinality(WalkNumbers) <= Cardinality(named)
    <3> HIDE DEF named
    <3> QED BY <1>8, FS_Subset
  <2> HIDE DEF named
  <2> QED BY <1>2, <1>9, <2>1, <2>2, FourKinds
<1>11. PICK n \in WalkNumbers : n \notin named
  BY <1>10
<1> QED BY <1>11 DEF Unused, Walk!Of

LEMMA KeepsFewWalks ==
  ASSUME NEW s \in WalkStates, NEW t, Keeps(s, t), FewWalks(s)
  PROVE  FewWalks(t)
<1>1. Walk!Of(t, "walk") \subseteq Walk!Of(s, "walk")
  BY DEF Keeps, Adds, Walk!Of
<1>2. Cardinality(Walk!Of(t, "walk")) <= Cardinality(Walk!Of(s, "walk"))
  BY <1>1, WalksAreFinite, FS_Subset
<1>3. Cardinality(Walk!Of(s, "walk")) \in Nat /\ Cardinality(Walk!Of(t, "walk")) \in Nat
  BY WalksAreFinite DEF Keeps, Leads, Sound, Orderly
<1> QED BY <1>2, <1>3, FourKinds DEF FewWalks

(* Nothing is left of a kind whose event was stopped.                      *)
Stopped(s, t, k) ==
  /\ Orderly(t) /\ SameButEvents(s, t) /\ NoneOf(t, k)
  /\ t.eventOf = [s.eventOf EXCEPT ![k] = 0]
  /\ t.events = {e \in s.events : e.kind # k}
  /\ FewerKinds(s, t)

LEMMA StopEventLeaves ==
  ASSUME NEW s, Orderly(s), NEW k \in {"arrival", "action", "step"}
  PROVE  Stopped(s, Walk!StopEvent(s, k), k)
<1> DEFINE t == Walk!StopEvent(s, k)
<1>1. s \in WalkStates /\ k \in Walk!EventKinds
  BY FourKinds DEF Orderly
<1>2. /\ t \in WalkStates /\ SameButEvents(s, t)
      /\ t.events = {e \in s.events : ~(e.kind = k /\ e.id = s.eventOf[k])}
      /\ t.eventOf = [s.eventOf EXCEPT ![k] = 0]
  BY <1>1, StopEventIs
<1> HIDE DEF t
<1>3. \A e \in s.events : e.kind = k => e.id = s.eventOf[k]
  BY DEF Orderly, Stoppable
<1>4. t.events = {e \in s.events : e.kind # k}
  BY <1>2, <1>3
<1>5. NoneOf(t, k) /\ FewerKinds(s, t)
  BY <1>4 DEF FewerKinds, NoneOf
<1>6. s.eventOf \in [Walk!EventKinds -> 0 .. (MaxWalks + 2)] /\ \A e \in s.events : e.kind \in Walk!EventKinds
  BY <1>1 DEF WalkStates
<1>7. Stoppable(t)
  BY <1>2, <1>4, <1>6 DEF Orderly, Stoppable, SameButEvents
<1>8. Orderly(t)
  BY <1>2, <1>5, <1>7 DEF Orderly, FewerKinds, SameButEvents
<1> QED BY <1>2, <1>4, <1>5, <1>8 DEF t, Stopped

LEMMA StopEventKeeps ==
  ASSUME NEW s, Sound(s), NEW k \in {"arrival", "action", "step"}
  PROVE  Keeps(s, Walk!StopEvent(s, k))
<1> DEFINE t == Walk!StopEvent(s, k)
<1>1. /\ Orderly(t) /\ SameButEvents(s, t)
      /\ t.eventOf = [s.eventOf EXCEPT ![k] = 0]
      /\ t.events = {e \in s.events : e.kind # k}
      /\ FewerKinds(s, t)
  <2>1. Stopped(s, t, k)
    BY StopEventLeaves DEF Sound
  <2> HIDE DEF t
  <2> QED BY <2>1 DEF Stopped
<1> HIDE DEF t
<1>2. t.eventOf["walk"] = s.eventOf["walk"]
  BY <1>1, FourKinds DEF Sound, Orderly, WalkStates
<1>3. Sound(t)
  BY <1>1, <1>2 DEF Sound, FewerKinds, SameButEvents, StepIsAlone
<1>4. WalkIsScheduled(s) => WalkIsScheduled(t)
  BY <1>1, <1>2 DEF WalkIsScheduled
<1>5. TaskHasWalk(s) => TaskHasWalk(t)
  BY <1>1, <1>2 DEF TaskHasWalk, WalkIsPosted, SameButEvents
<1>6. Adds(s, t, {})
  BY <1>1 DEF Adds
<1> QED BY <1>3, <1>4, <1>5, <1>6 DEF Keeps, Leads, t

(* An event is added when there is none of its kind.                       *)
LEMMA AddEventKeeps ==
  ASSUME NEW s, Sound(s), NEW k \in {"arrival", "action", "step"}, NoneOf(s, k),
         k = "arrival" => ~s.walkTask,
         k = "step" => s.left = 0 \/ "following" \in s.is \/ "steps" \in s.stranded
  PROVE  LET t == Walk!AddEvent(s, k) IN Keeps(s, t) /\ SameButEvents(s, t)
<1> DEFINE t == Walk!AddEvent(s, k)
<1>1. s \in WalkStates /\ k \in Walk!EventKinds
  BY FourKinds DEF Sound, Orderly
<1>2. \E n : Unused(s, k, n)
  <2>1. 1 \in WalkNumbers /\ 2 \in WalkNumbers /\ 1 # 2
    BY FourKinds DEF WalkNumbers
  <2> QED BY <2>1 DEF Unused, NoneOf
<1>3. /\ t \in WalkStates /\ SameButEvents(s, t)
      /\ \E n : /\ Unused(s, k, n)
                /\ t.events = s.events \cup {[kind |-> k, id |-> n]}
                /\ t.eventOf = [s.eventOf EXCEPT ![k] = n]
  BY <1>1, <1>2, AddEventIs
<1> HIDE DEF t
<1>4. PICK n : /\ t.events = s.events \cup {[kind |-> k, id |-> n]}
               /\ t.eventOf = [s.eventOf EXCEPT ![k] = n]
  BY <1>3
<1>5. /\ s.eventOf \in [Walk!EventKinds -> 0 .. (MaxWalks + 2)]
      /\ \A e \in s.events : e.kind \in Walk!EventKinds
  BY <1>1 DEF WalkStates
<1>6. t.eventOf["walk"] = s.eventOf["walk"]
  BY <1>4, <1>5, FourKinds
<1>7. Stoppable(t)
  <2>1. t.doubled = s.doubled /\ Stoppable(s)
    BY <1>3 DEF SameButEvents, Sound, Orderly
  <2>2. t.eventOf[k] = n /\ \A j \in Walk!EventKinds : j # k => t.eventOf[j] = s.eventOf[j]
    BY <1>1, <1>4, <1>5
  <2>3. ASSUME NEW e \in t.events
        PROVE  e.id = t.eventOf[e.kind] \/ (e.kind = "walk" /\ t.doubled)
    <3>1. CASE e \in s.events
      <4>1. e.kind \in Walk!EventKinds /\ e.kind # k
        BY <1>5, <3>1 DEF NoneOf
      <4> QED BY <2>1, <2>2, <3>1, <4>1 DEF Stoppable
    <3>2. CASE e = [kind |-> k, id |-> n]
      BY <2>2, <3>2
    <3> QED BY <1>4, <3>1, <3>2
  <2> QED BY <2>3 DEF Stoppable
<1>8. \A j : j # k => (NoneOf(t, j) <=> NoneOf(s, j))
  BY <1>4 DEF NoneOf
<1>9. Orderly(t)
  BY <1>3, <1>7, <1>8 DEF Sound, Orderly, SameButEvents
<1>10. Sound(t)
  BY <1>3, <1>6, <1>8, <1>9 DEF Sound, SameButEvents, StepIsAlone
<1>11. WalkIsScheduled(s) => WalkIsScheduled(t)
  BY <1>4, <1>6 DEF WalkIsScheduled
<1>12. TaskHasWalk(s) => TaskHasWalk(t)
  BY <1>3, <1>6 DEF TaskHasWalk, WalkIsPosted, SameButEvents
<1>13. Adds(s, t, {})
  BY <1>4 DEF Adds
<1> QED BY <1>3, <1>10, <1>11, <1>12, <1>13 DEF Keeps, Leads, t

LEMMA SameTwice ==
  ASSUME NEW r, NEW s, NEW t, SameButEvents(r, s), SameButEvents(s, t)
  PROVE  SameButEvents(r, t)
BY DEF SameButEvents

(* SetNextActionTask and SetNextWalkTask.                                  *)
LEMMA SetNextKeeps ==
  ASSUME NEW s, Sound(s), NEW k \in {"action", "step"}, NEW some \in BOOLEAN,
         k = "step" /\ some => s.left = 0 \/ "following" \in s.is \/ "steps" \in s.stranded
  PROVE  LET t == Walk!SetNext(s, k, some) IN
         Keeps(s, t) /\ SameButEvents(s, t) /\ (~some => NoneOf(t, k))
<1> DEFINE u == Walk!StopEvent(s, k)
           t == Walk!AddEvent(u, k)
<1>1. Keeps(s, u) /\ SameButEvents(s, u) /\ NoneOf(u, k)
  <2>1. Stopped(s, u, k) /\ Keeps(s, u)
    BY StopEventLeaves, StopEventKeeps DEF Sound
  <2> HIDE DEF u
  <2> QED BY <2>1 DEF Stopped
<1> HIDE DEF u
<1>2. Sound(u)
  BY <1>1 DEF Keeps, Leads
<1>3. ASSUME some
      PROVE  Keeps(u, t) /\ SameButEvents(u, t)
  <2>1. k = "step" => u.left = 0 \/ "following" \in u.is \/ "steps" \in u.stranded
    BY <1>1, <1>3 DEF SameButEvents
  <2> QED BY <1>1, <1>2, <2>1, AddEventKeeps
<1> HIDE DEF t
<1>4. Walk!SetNext(s, k, some) = IF some THEN t ELSE u
  BY DEF Walk!SetNext, t, u
<1>5. CASE some
  BY <1>1, <1>3, <1>4, <1>5, KeepsTwice, SameTwice
<1>6. CASE ~some
  BY <1>1, <1>4, <1>6
<1> QED BY <1>5, <1>6

(* The walk event is stopped.                                              *)
LEMMA StopWalkEventLeaves ==
  ASSUME NEW s, Orderly(s)
  PROVE  LET t == Walk!StopEvent(s, "walk") IN
         /\ Orderly(t) /\ SameButEvents(s, t)
         /\ t.eventOf["walk"] = 0
         /\ Adds(s, t, {})
         /\ FewerKinds(s, t)
<1> DEFINE t == Walk!StopEvent(s, "walk")
<1>1. s \in WalkStates /\ "walk" \in Walk!EventKinds
  BY FourKinds DEF Orderly
<1>2. /\ t \in WalkStates /\ SameButEvents(s, t)
      /\ t.events = {e \in s.events : ~(e.kind = "walk" /\ e.id = s.eventOf["walk"])}
      /\ t.eventOf = [s.eventOf EXCEPT !["walk"] = 0]
  BY <1>1, StopEventIs
<1> HIDE DEF t
<1>3. /\ s.eventOf \in [Walk!EventKinds -> 0 .. (MaxWalks + 2)]
      /\ \A e \in s.events : e.kind \in Walk!EventKinds
  BY <1>1 DEF WalkStates
<1>4. Stoppable(t)
  <2>1. t.doubled = s.doubled /\ Stoppable(s)
    BY <1>2 DEF SameButEvents, Orderly
  <2>2. ASSUME NEW e \in t.events
        PROVE  e.id = t.eventOf[e.kind] \/ (e.kind = "walk" /\ t.doubled)
    <3>1. CASE e.kind = "walk"
      BY <1>2, <2>1, <3>1 DEF Stoppable
    <3>2. CASE e.kind # "walk"
      BY <1>2, <1>3, <2>1, <3>2 DEF Stoppable
    <3> QED BY <3>1, <3>2
  <2> QED BY <2>2 DEF Stoppable
<1>5. FewerKinds(s, t)
  BY <1>2 DEF FewerKinds, NoneOf
<1>6. Orderly(t)
  BY <1>2, <1>4, <1>5 DEF Orderly, FewerKinds, SameButEvents
<1>7. t.eventOf["walk"] = 0 /\ Adds(s, t, {})
  BY <1>1, <1>2, <1>3 DEF Adds
<1> QED BY <1>2, <1>5, <1>6, <1>7 DEF t

(* stopEventWalk: of who has no walk event, the steps that are left are    *)
(* those the history names.                                                *)
LEMMA StopEventWalkKeeps ==
  ASSUME NEW s, Orderly(s), s.left = 0 \/ "steps" \in s.stranded \/ s.eventOf["walk"] # 0
  PROVE  LET t == Walk!StopEventWalk(s) IN
         /\ Keeps(s, t) /\ t.is = s.is
         /\ t.left = 0 \/ "steps" \in t.stranded
<1> DEFINE u == Walk!StopEvent(s, "walk")
           v == Walk!StopEvent(u, "arrival")
           r == [v EXCEPT !.walkTask = FALSE, !.stranded = @ \ {"task"}, !.left = 0]
           w == [u EXCEPT !.stranded = @ \cup {"task"}]
           t == Walk!StopEventWalk(s)
<1>1. t = IF s.eventOf["walk"] = 0 THEN s ELSE IF s.left > 0 THEN r ELSE w
  BY DEF Walk!StopEventWalk, Walk!SetNextWalkActionTask
<1>2. /\ Orderly(u) /\ SameButEvents(s, u) /\ u.eventOf["walk"] = 0 /\ Adds(s, u, {})
  BY StopWalkEventLeaves
<1> HIDE DEF u
<1>3. /\ Orderly(v) /\ SameButEvents(u, v)
      /\ v.eventOf = [u.eventOf EXCEPT !["arrival"] = 0]
      /\ v.events = {e \in u.events : e.kind # "arrival"}
  <2>1. Stopped(u, v, "arrival")
    BY <1>2, StopEventLeaves
  <2> HIDE DEF v
  <2> QED BY <2>1 DEF Stopped
<1> HIDE DEF v
<1>4. s.left \in Nat /\ s \in WalkStates /\ u \in WalkStates /\ v \in WalkStates
  <2>1. s \in WalkStates /\ u \in WalkStates /\ v \in WalkStates
    BY <1>2, <1>3 DEF Orderly
  <2>2. s.left \in 0 .. MaxSteps
    BY <2>1 DEF WalkStates
  <2> QED BY <2>1, <2>2, FourKinds
<1>5. CASE s.eventOf["walk"] = 0
  <2>1. t = s /\ (s.left = 0 \/ "steps" \in s.stranded)
    BY <1>1, <1>5
  <2>2. Sound(s)
    BY <2>1 DEF Sound, StepIsAlone
  <2> HIDE DEF t
  <2>3. Keeps(s, t)
    BY <2>1, <2>2, KeepsItself
  <2> QED BY <2>1, <2>3 DEF t
<1>6. CASE s.eventOf["walk"] # 0 /\ s.left > 0
  <2>1. t = r
    BY <1>1, <1>6
  <2>2. /\ r.left = 0 /\ r.walkTask = FALSE /\ r.eventOf = v.eventOf /\ r.events = v.events
        /\ r.is = v.is /\ r.doubled = v.doubled
    BY <1>4 DEF WalkStates
  <2>3. r \in WalkStates
    <3>1. r = [x \in WalkFields |-> r[x]]
      BY <1>4 DEF WalkStates, WalkFields
    <3>2. r.posted = v.posted /\ r.stranded = v.stranded \ {"task"}
      BY <1>4 DEF WalkStates
    <3> HIDE DEF r
    <3>a. r.left \in 0 .. MaxSteps
      BY <2>2, FourKinds
    <3>e. r.walkTask \in BOOLEAN
      BY <2>2, Zenon
    <3>b. v.doubled \in BOOLEAN
      BY <1>4 DEF WalkStates
    <3>c. r.doubled \in BOOLEAN
      BY <2>2, <3>b, Zenon
    <3>d. /\ r.eventOf \in [Walk!EventKinds -> 0 .. (MaxWalks + 2)]
          /\ r.events \in SUBSET [kind : Walk!EventKinds, id : WalkNumbers]
      BY <1>4, <2>2 DEF WalkStates
    <3>4. /\ r.posted \in Seq(Errands) /\ r.is \in SUBSET Conditions
          /\ r.stranded \in SUBSET {"task", "steps"}
      BY <1>4, <2>2, <3>2 DEF WalkStates
    <3> QED BY <3>1, <3>a, <3>e, <3>c, <3>d, <3>4, IsWalkState
  <2> HIDE DEF r, t
  <2>4. r.eventOf["walk"] = 0
    BY <1>2, <1>3, <1>4, <2>2, FourKinds DEF WalkStates
  <2>5. Orderly(r)
    BY <1>3, <2>2, <2>3 DEF Orderly, Stoppable
  <2>6. Sound(r) /\ WalkIsScheduled(r) /\ TaskHasWalk(r)
    BY <2>2, <2>4, <2>5 DEF Sound, StepIsAlone, WalkIsScheduled, TaskHasWalk
  <2>7. Adds(s, r, {}) /\ r.is = s.is
    BY <1>2, <1>3, <2>2 DEF Adds, SameButEvents
  <2> QED BY <2>1, <2>2, <2>6, <2>7 DEF Keeps, Leads, t
<1>7. CASE s.eventOf["walk"] # 0 /\ ~(s.left > 0)
  <2>1. t = w
    BY <1>1, <1>7
  <2>2. /\ w.left = u.left /\ w.walkTask = u.walkTask /\ w.eventOf = u.eventOf /\ w.events = u.events
        /\ w.is = u.is /\ w.doubled = u.doubled /\ w.stranded = u.stranded \cup {"task"}
    BY <1>4 DEF WalkStates
  <2>3. w \in WalkStates
    BY <1>4 DEF WalkStates
  <2> HIDE DEF w, t
  <2>4. w.left = 0
    BY <1>2, <1>4, <1>7, <2>2 DEF SameButEvents
  <2>5. Orderly(w)
    BY <1>2, <2>2, <2>3 DEF Orderly, Stoppable, NoneOf
  <2>6. Sound(w) /\ WalkIsScheduled(w) /\ TaskHasWalk(w)
    BY <1>2, <2>2, <2>4, <2>5 DEF Sound, StepIsAlone, WalkIsScheduled, TaskHasWalk
  <2>7. Adds(s, w, {}) /\ w.is = s.is
    BY <1>2, <2>2 DEF Adds, SameButEvents
  <2> QED BY <2>1, <2>4, <2>6, <2>7 DEF Keeps, Leads, t
<1> QED BY <1>5, <1>6, <1>7

LEMMA StopWalkKeeps ==
  ASSUME NEW s, Sound(s)
  PROVE  LET t == Walk!StopWalk(s) IN
         /\ Keeps(s, t) /\ t.is = s.is
         /\ t.left = 0 \/ "steps" \in t.stranded
<1>1. CASE s.left = 0
  BY <1>1, KeepsItself DEF Walk!StopWalk
<1>2. CASE s.left # 0
  BY <1>2, StopEventWalkKeeps DEF Walk!StopWalk, Sound
<1> QED BY <1>1, <1>2

(* A walk event is there or added.                                         *)
LEMMA AddEventWalkKeeps ==
  ASSUME NEW s, Orderly(s), StepIsAlone(s), FewWalks(s)
  PROVE  LET t == Walk!AddEventWalk(s) IN
         /\ Sound(t) /\ SameButEvents(s, t) /\ t.eventOf["walk"] # 0
         /\ WalkIsScheduled(s) => WalkIsScheduled(t)
         /\ TaskHasWalk(t)
         /\ \E e : Adds(s, t, {e})
<1> DEFINE t == Walk!AddEventWalk(s)
<1>1. CASE s.eventOf["walk"] # 0
  <2>1. t = s
    BY <1>1 DEF Walk!AddEventWalk
  <2> HIDE DEF t
  <2>2. Sound(s) /\ TaskHasWalk(s) /\ SameButEvents(s, s) /\ Adds(s, s, {})
    BY <1>1 DEF Sound, TaskHasWalk, SameButEvents, Adds
  <2>3. \E e : Adds(s, s, {e})
    BY <2>2 DEF Adds
  <2> QED BY <1>1, <2>1, <2>2, <2>3 DEF t
<1>2. CASE s.eventOf["walk"] = 0
  <2>0. s \in WalkStates /\ "walk" \in Walk!EventKinds
    BY FourKinds DEF Orderly
  <2>1. t = Walk!AddEvent(s, "walk")
    BY <1>2 DEF Walk!AddEventWalk
  <2>2. \E n : Unused(s, "walk", n)
    BY <2>0, SpareNumber
  <2> HIDE DEF t
  <2>3. /\ t \in WalkStates /\ SameButEvents(s, t)
        /\ \E n : /\ Unused(s, "walk", n)
                  /\ t.events = s.events \cup {[kind |-> "walk", id |-> n]}
                  /\ t.eventOf = [s.eventOf EXCEPT !["walk"] = n]
    BY <2>0, <2>1, <2>2, AddEventIs
  <2>4. PICK n : /\ Unused(s, "walk", n)
                 /\ t.events = s.events \cup {[kind |-> "walk", id |-> n]}
                 /\ t.eventOf = [s.eventOf EXCEPT !["walk"] = n]
    BY <2>3
  <2>5. /\ s.eventOf \in [Walk!EventKinds -> 0 .. (MaxWalks + 2)]
        /\ \A e \in s.events : e.kind \in Walk!EventKinds /\ e.id # 0
    BY <2>0 DEF WalkStates, WalkNumbers
  <2>6. n # 0 /\ t.eventOf["walk"] = n /\ \A j \in Walk!EventKinds : j # "walk" => t.eventOf[j] = s.eventOf[j]
    BY <2>0, <2>4, <2>5 DEF Unused, WalkNumbers
  <2>7. Stoppable(t)
    <3>1. t.doubled = s.doubled /\ Stoppable(s)
      BY <2>3 DEF SameButEvents, Orderly
    <3>2. ASSUME NEW e \in t.events
          PROVE  e.id = t.eventOf[e.kind] \/ (e.kind = "walk" /\ t.doubled)
      <4>1. CASE e = [kind |-> "walk", id |-> n]
        BY <2>6, <4>1
      <4>2. CASE e \in s.events /\ e.kind = "walk"
        BY <1>2, <2>5, <3>1, <4>2 DEF Stoppable
      <4>3. CASE e \in s.events /\ e.kind # "walk"
        BY <2>5, <2>6, <3>1, <4>3 DEF Stoppable
      <4> QED BY <2>4, <4>1, <4>2, <4>3
    <3> QED BY <3>2 DEF Stoppable
  <2>8. \A j : j # "walk" => (NoneOf(t, j) <=> NoneOf(s, j))
    BY <2>4 DEF NoneOf
  <2>9. Orderly(t) /\ StepIsAlone(t)
    BY <2>3, <2>7, <2>8 DEF Orderly, SameButEvents, StepIsAlone
  <2>10. Sound(t) /\ TaskHasWalk(t)
    BY <2>6, <2>9 DEF Sound, TaskHasWalk
  <2>11. WalkIsScheduled(t)
    <3>1. [kind |-> "walk", id |-> n] \in t.events
      BY <2>4
    <3> QED BY <2>6, <3>1 DEF WalkIsScheduled
  <2>12. Adds(s, t, {[kind |-> "walk", id |-> n]})
    BY <2>4 DEF Adds
  <2> QED BY <2>3, <2>6, <2>10, <2>11, <2>12 DEF t
<1> QED BY <1>1, <1>2

(* What a change of the steps, the conditions or the history leaves alone. *)
SameEvents(s, t) ==
  /\ t.walkTask = s.walkTask /\ t.eventOf = s.eventOf /\ t.events = s.events
  /\ t.posted = s.posted /\ t.doubled = s.doubled

LEMMA SameEventsCarry ==
  ASSUME NEW s, Orderly(s), NEW t \in WalkStates, SameEvents(s, t), "removed" \notin t.is,
         "task" \in s.stranded => "task" \in t.stranded
  PROVE  /\ Orderly(t) /\ Carries(s, t)
         /\ FewWalks(s) => FewWalks(t)
         /\ \A k : NoneOf(s, k) <=> NoneOf(t, k)
<1>1. \A k : NoneOf(s, k) <=> NoneOf(t, k)
  BY DEF NoneOf, SameEvents
<1>2. Stoppable(t)
  BY DEF Stoppable, Orderly, SameEvents
<1>3. Orderly(t)
  BY <1>1, <1>2 DEF Orderly, SameEvents
<1>4. Carries(s, t)
  <2>1. WalkIsScheduled(s) => WalkIsScheduled(t)
    BY DEF WalkIsScheduled, SameEvents
  <2>2. TaskHasWalk(s) => TaskHasWalk(t)
    BY DEF TaskHasWalk, WalkIsPosted, SameEvents
  <2>3. Adds(s, t, {})
    BY DEF Adds, SameEvents
  <2> QED BY <2>1, <2>2, <2>3 DEF Carries
<1>5. FewWalks(s) => FewWalks(t)
  BY DEF FewWalks, Walk!Of, SameEvents
<1> QED BY <1>1, <1>3, <1>4, <1>5

LEMMA CarriesSound ==
  ASSUME NEW s, NEW t, Carries(s, t), Sound(t)
  PROVE  Keeps(s, t)
BY DEF Carries, Keeps, Leads

LEMMA NowKeeps ==
  ASSUME NEW s, Sound(s), NEW what \in Conditions \ {"removed"}
  PROVE  LET t == Walk!Now(s, what) IN
         /\ Keeps(s, t) /\ t.left = s.left /\ t.stranded = s.stranded /\ t.is = s.is \cup {what}
         /\ FewWalks(s) => FewWalks(t)
<1> DEFINE t == Walk!Now(s, what)
<1>1. /\ t \in WalkStates /\ SameEvents(s, t) /\ t.left = s.left /\ t.stranded = s.stranded
      /\ t.is = s.is \cup {what}
  BY DEF Walk!Now, Sound, Orderly, WalkStates, SameEvents
<1> HIDE DEF t
<1>2. "removed" \notin t.is
  BY <1>1 DEF Sound, Orderly
<1>3. Orderly(t) /\ Carries(s, t) /\ (FewWalks(s) => FewWalks(t)) /\ (NoneOf(s, "step") => NoneOf(t, "step"))
  BY <1>1, <1>2, SameEventsCarry DEF Sound
<1>4. Sound(t)
  BY <1>1, <1>3 DEF Sound, StepIsAlone, SameEvents
<1>5. Keeps(s, t)
  BY <1>3, <1>4, CarriesSound
<1> QED BY <1>1, <1>3, <1>5 DEF t

(* A condition ends.                                                       *)
LEMMA NoMoreCarries ==
  ASSUME NEW s, Sound(s), NEW what
  PROVE  LET t == Walk!NoMore(s, what) IN
         /\ Orderly(t) /\ Carries(s, t)
         /\ t.left = s.left /\ t.stranded = s.stranded /\ t.eventOf = s.eventOf
         /\ t.is = s.is \ {what}
         /\ what # "following" \/ t.left = 0 \/ "steps" \in t.stranded => Sound(t)
         /\ FewWalks(s) => FewWalks(t)
<1> DEFINE t == Walk!NoMore(s, what)
<1>1. /\ t \in WalkStates /\ SameEvents(s, t) /\ t.left = s.left /\ t.stranded = s.stranded
      /\ t.is = s.is \ {what}
  BY DEF Walk!NoMore, Sound, Orderly, WalkStates, SameEvents
<1> HIDE DEF t
<1>2. "removed" \notin t.is
  BY <1>1 DEF Sound, Orderly
<1>3. Orderly(t) /\ Carries(s, t) /\ (FewWalks(s) => FewWalks(t)) /\ (NoneOf(s, "step") => NoneOf(t, "step"))
  BY <1>1, <1>2, SameEventsCarry DEF Sound
<1>4. what # "following" \/ t.left = 0 \/ "steps" \in t.stranded => Sound(t)
  BY <1>1, <1>3 DEF Sound, StepIsAlone, SameEvents
<1> QED BY <1>1, <1>3, <1>4 DEF t, SameEvents

LEMMA FollowNobodyKeeps ==
  ASSUME NEW s, Sound(s)
  PROVE  LET t == Walk!FollowNobody(s) IN
         Keeps(s, t) /\ (t.left = 0 \/ "steps" \in t.stranded)
<1> DEFINE u == Walk!NoMore(s, "following")
           t == Walk!StopEventWalk(u)
<1>1. /\ Orderly(u) /\ Carries(s, u)
      /\ u.left = s.left /\ u.stranded = s.stranded /\ u.eventOf = s.eventOf
  BY NoMoreCarries
<1> HIDE DEF u
<1>2. u.left = 0 \/ "steps" \in u.stranded \/ u.eventOf["walk"] # 0
  BY <1>1 DEF Sound
<1>3. Keeps(u, t) /\ (t.left = 0 \/ "steps" \in t.stranded)
  BY <1>1, <1>2, StopEventWalkKeeps
<1> HIDE DEF t
<1>4. Keeps(s, t)
  BY <1>1, <1>3, CarriesThenKeeps
<1> QED BY <1>3, <1>4 DEF Walk!FollowNobody, t, u

(* A walk that is refused or jumped over.                                  *)
LEMMA StrandedKeeps ==
  ASSUME NEW s, Sound(s)
  PROVE  LET t == [s EXCEPT !.stranded = @ \cup {"task"}] IN Keeps(s, t) /\ TaskHasWalk(t)
<1> DEFINE t == [s EXCEPT !.stranded = @ \cup {"task"}]
<1>1. /\ t \in WalkStates /\ SameEvents(s, t) /\ t.left = s.left
      /\ t.stranded = s.stranded \cup {"task"} /\ t.is = s.is
  BY DEF Sound, Orderly, WalkStates, SameEvents
<1> HIDE DEF t
<1>2. Orderly(t) /\ Carries(s, t) /\ (NoneOf(s, "step") => NoneOf(t, "step"))
  BY <1>1, SameEventsCarry DEF Sound, Orderly
<1>3. Sound(t)
  BY <1>1, <1>2 DEF Sound, StepIsAlone, SameEvents
<1>4. Keeps(s, t) /\ TaskHasWalk(t)
  BY <1>1, <1>2, <1>3, CarriesSound DEF TaskHasWalk
<1> QED BY <1>4 DEF t

(* Steps are given, with an event to go the first.                         *)
LEMMA WalksFrom ==
  ASSUME NEW s, Sound(s), FewWalks(s), NEW u \in WalkStates, SameEvents(s, u),
         u.is = s.is, u.stranded = s.stranded, StepIsAlone(u)
  PROVE  LET t == Walk!AddEventWalk(u) IN KeepsOrAdds(s, t) /\ TaskHasWalk(t)
<1> DEFINE t == Walk!AddEventWalk(u)
<1>1. Orderly(u) /\ Carries(s, u) /\ FewWalks(u)
  BY SameEventsCarry DEF Sound, Orderly
<1>2. /\ Sound(t) /\ (WalkIsScheduled(u) => WalkIsScheduled(t)) /\ TaskHasWalk(t)
      /\ \E e : Adds(u, t, {e})
  BY <1>1, AddEventWalkKeeps
<1> HIDE DEF t
<1>3. KeepsOrAdds(u, t)
  BY <1>2 DEF KeepsOrAdds, Leads
<1>4. KeepsOrAdds(s, t)
  BY <1>1, <1>3, CarriesThenAdds
<1> QED BY <1>2, <1>4 DEF t

LEMMA StartAutoWalkKeeps ==
  ASSUME NEW s, Sound(s), FewWalks(s), NEW n \in 0 .. MaxSteps,
         NoneOf(s, "step") \/ "following" \in s.is
  PROVE  LET t == Walk!StartAutoWalk(s, n) IN KeepsOrAdds(s, t) /\ TaskHasWalk(t)
<1>1. CASE "rooted" \in s.is
  <2> DEFINE t == [s EXCEPT !.stranded = @ \cup {"task"}]
  <2>1. Walk!StartAutoWalk(s, n) = t
    BY <1>1 DEF Walk!StartAutoWalk
  <2>2. Keeps(s, t) /\ TaskHasWalk(t)
    BY StrandedKeeps
  <2> HIDE DEF t
  <2> QED BY <2>1, <2>2, KeepsMayAdd
<1>2. CASE "rooted" \notin s.is
  <2> DEFINE u == [s EXCEPT !.left = n]
  <2>1. Walk!StartAutoWalk(s, n) = Walk!AddEventWalk(u)
    BY <1>2 DEF Walk!StartAutoWalk
  <2>2. u \in WalkStates /\ SameEvents(s, u) /\ u.is = s.is /\ u.stranded = s.stranded
    BY DEF Sound, Orderly, WalkStates, SameEvents
  <2> HIDE DEF u
  <2>3. StepIsAlone(u)
    BY <2>2 DEF StepIsAlone, NoneOf, SameEvents
  <2> QED BY <2>1, <2>2, <2>3, WalksFrom
<1> QED BY <1>1, <1>2

LEMMA SteeredKeeps ==
  ASSUME NEW s, Sound(s), FewWalks(s), NEW n \in 1 .. MaxSteps
  PROVE  KeepsOrAdds(s, Walk!Steered(s, n))
<1> DEFINE u == Walk!SetNext(s, "step", FALSE)
           t == Walk!StartAutoWalk(u, n)
<1>1. Keeps(s, u) /\ NoneOf(u, "step")
  BY SetNextKeeps
<1> HIDE DEF u
<1>2. Sound(u) /\ FewWalks(u)
  BY <1>1, KeepsFewWalks DEF Keeps, Leads, Sound, Orderly
<1>3. n \in 0 .. MaxSteps
  BY FourKinds
<1>4. KeepsOrAdds(u, t)
  BY <1>1, <1>2, <1>3, StartAutoWalkKeeps
<1> HIDE DEF t
<1>5. KeepsOrAdds(s, t)
  BY <1>1, <1>4, KeepsThenAdds
<1> QED BY <1>5 DEF Walk!Steered, Walk!SetNextWalkTask, t, u

LEMMA BringsKeeps ==
  ASSUME NEW s, Sound(s), FewWalks(s), NEW t \in Walk!Brings(s)
  PROVE  KeepsOrAdds(s, t)
<1> DEFINE ways == {s, Walk!StopEventWalk(s), Walk!FollowNobody(s)}
<1>1. ASSUME NEW u \in ways
      PROVE  Keeps(s, u)
  <2>1. Keeps(s, s)
    BY KeepsItself
  <2>2. Keeps(s, Walk!StopEventWalk(s))
    BY StopEventWalkKeeps DEF Sound
  <2>3. Keeps(s, Walk!FollowNobody(s))
    BY FollowNobodyKeeps
  <2> QED BY <2>1, <2>2, <2>3
<1>2. t \in ways \/ \E u \in ways : \E n \in 1 .. MaxSteps : t = Walk!Steered(u, n)
  BY DEF Walk!Brings
<1> HIDE DEF ways
<1>3. CASE t \in ways
  BY <1>1, <1>3, KeepsMayAdd
<1>4. ASSUME NEW u \in ways, NEW n \in 1 .. MaxSteps, t = Walk!Steered(u, n)
      PROVE  KeepsOrAdds(s, t)
  <2>1. Keeps(s, u)
    BY <1>1
  <2>2. Sound(u) /\ FewWalks(u)
    BY <2>1, KeepsFewWalks DEF Keeps, Leads, Sound, Orderly
  <2>3. KeepsOrAdds(u, t)
    BY <1>4, <2>2, SteeredKeeps
  <2> QED BY <2>1, <2>3, KeepsThenAdds
<1> QED BY <1>2, <1>3, <1>4

LEMMA PostKeeps ==
  ASSUME NEW s, Sound(s), NEW what \in Errands
  PROVE  LET t == Walk!Post(s, what) IN
         /\ Keeps(s, t) /\ t.left = s.left /\ t.is = s.is
         /\ what[1] = "walk" => WalkIsPosted(t)
         /\ WalkIsPosted(s) => WalkIsPosted(t)
<1> DEFINE more == Append(s.posted, what)
           t == [s EXCEPT !.posted = more]
<1>0. s \in WalkStates /\ s.posted \in Seq(Errands) /\ more \in Seq(Errands)
  BY DEF Sound, Orderly, WalkStates
<1>a. Walk!Post(s, what) = t
  BY DEF Walk!Post
<1> HIDE DEF more
<1>1. /\ t \in WalkStates /\ t.left = s.left /\ t.is = s.is /\ t.stranded = s.stranded
      /\ t.walkTask = s.walkTask /\ t.eventOf = s.eventOf /\ t.events = s.events
      /\ t.doubled = s.doubled /\ t.posted = more
  BY <1>0 DEF WalkStates
<1> HIDE DEF t
<1>2. s.posted \in Seq(Errands) /\ t.posted = Append(s.posted, what)
  BY <1>0, <1>1 DEF more
<1>3. what[1] = "walk" => WalkIsPosted(t)
  <2>1. Len(s.posted) + 1 \in DOMAIN t.posted /\ t.posted[Len(s.posted) + 1] = what
    BY <1>1, <1>2
  <2> QED BY <2>1 DEF WalkIsPosted
<1>4. WalkIsPosted(s) => WalkIsPosted(t)
  <2>1. \A k \in DOMAIN s.posted : k \in DOMAIN t.posted /\ t.posted[k] = s.posted[k]
    BY <1>1, <1>2
  <2> QED BY <2>1 DEF WalkIsPosted
<1>5. Sound(t)
  <2>1. Orderly(t)
    BY <1>1 DEF Sound, Orderly, Stoppable, NoneOf
  <2> QED BY <1>1, <2>1 DEF Sound, StepIsAlone, NoneOf
<1>6. Keeps(s, t)
  <2>1. WalkIsScheduled(s) => WalkIsScheduled(t)
    BY <1>1 DEF WalkIsScheduled
  <2>2. TaskHasWalk(s) => TaskHasWalk(t)
    BY <1>1, <1>4 DEF TaskHasWalk
  <2>3. Adds(s, t, {})
    BY <1>1 DEF Adds
  <2> QED BY <1>5, <2>1, <2>2, <2>3 DEF Keeps, Leads
<1> QED BY <1>1, <1>a, <1>3, <1>4, <1>6

LEMMA WalkedKeeps ==
  ASSUME NEW s, Sound(s)
  PROVE  Keeps(s, Walk!Walked(s))
<1> DEFINE u == Walk!SetNext(s, "action", FALSE)
           t == Walk!Now(u, "busy")
<1>1. Keeps(s, u)
  BY SetNextKeeps
<1> HIDE DEF u
<1>2. Keeps(u, t)
  BY <1>1, NowKeeps DEF Keeps, Leads, Conditions
<1> HIDE DEF t
<1>3. Keeps(s, t)
  BY <1>1, <1>2, KeepsTwice
<1> QED BY <1>3 DEF Walk!Walked, Walk!SetNextActionTask, t, u

LEMMA MovedKeeps ==
  ASSUME NEW s, Sound(s)
  PROVE  Keeps(s, Walk!Moved(s))
<1> DEFINE u == IF {"following", "pathed"} \subseteq s.is THEN Walk!Post(s, <<"update">>) ELSE s
           t == Walk!Now(u, "resting")
<1>1. Keeps(s, u)
  <2>1. <<"update">> \in Errands
    BY DEF Errands
  <2>2. Keeps(s, Walk!Post(s, <<"update">>)) /\ Keeps(s, s)
    BY <2>1, PostKeeps, KeepsItself
  <2> QED BY <2>2
<1> HIDE DEF u
<1>2. Keeps(u, t)
  BY <1>1, NowKeeps DEF Keeps, Leads, Conditions
<1> HIDE DEF t
<1>3. Keeps(s, t)
  BY <1>1, <1>2, KeepsTwice
<1> QED BY <1>3 DEF Walk!Moved, t, u

LEMMA SteppedKeeps ==
  ASSUME NEW s, Sound(s), FewWalks(s), NEW t \in Walk!Stepped(s)
  PROVE  KeepsOrAdds(s, t)
<1> DEFINE u == Walk!Walked(s)
           v == Walk!Moved(u)
<1>1. t = u \/ t \in Walk!Brings(v)
  BY DEF Walk!Stepped
<1>2. Keeps(s, u)
  BY WalkedKeeps
<1> HIDE DEF u
<1>3. Keeps(u, v)
  BY <1>2, MovedKeeps DEF Keeps, Leads
<1> HIDE DEF v
<1>4. Keeps(s, v)
  BY <1>2, <1>3, KeepsTwice
<1>5. Sound(v) /\ FewWalks(v)
  BY <1>4, KeepsFewWalks DEF Keeps, Leads, Sound, Orderly
<1>6. CASE t = u
  BY <1>2, <1>6, KeepsMayAdd
<1>7. CASE t \in Walk!Brings(v)
  <2>1. KeepsOrAdds(v, t)
    BY <1>5, <1>7, BringsKeeps
  <2> QED BY <1>4, <2>1, KeepsThenAdds
<1> QED BY <1>1, <1>6, <1>7

(* The end of a walk: what waited for it is scheduled.                     *)
LEMMA CompletedKeeps ==
  ASSUME NEW s, Sound(s)
  PROVE  Keeps(s, Walk!Completed(s))
<1>1. CASE s.left = 0 /\ s.walkTask
  <2> DEFINE u == [s EXCEPT !.walkTask = FALSE]
             t == Walk!AddEvent(u, "arrival")
  <2>1. Walk!Completed(s) = t
    BY <1>1 DEF Walk!Completed
  <2>2. /\ u \in WalkStates /\ u.left = s.left /\ u.is = s.is /\ u.stranded = s.stranded
        /\ u.walkTask = FALSE /\ u.eventOf = s.eventOf /\ u.events = s.events
        /\ u.doubled = s.doubled /\ u.posted = s.posted
    BY DEF Sound, Orderly, WalkStates
  <2> HIDE DEF u
  <2>3. Orderly(u)
    BY <2>2 DEF Sound, Orderly, Stoppable
  <2>4. Sound(u)
    BY <2>2, <2>3 DEF Sound, StepIsAlone, NoneOf
  <2>5. Carries(s, u)
    BY <2>2 DEF Carries, WalkIsScheduled, TaskHasWalk, Adds
  <2>6. NoneOf(u, "arrival")
    BY <1>1, <2>2 DEF Sound, Orderly, NoneOf
  <2>7. Keeps(u, t)
    BY <2>2, <2>4, <2>6, AddEventKeeps
  <2> HIDE DEF t
  <2> QED BY <2>1, <2>5, <2>7, CarriesThenKeeps
<1>2. CASE ~(s.left = 0 /\ s.walkTask)
  BY <1>2, KeepsItself DEF Walk!Completed
<1> QED BY <1>1, <1>2

(* The next event of a walk: after it, the event that is named is there.   *)
LEMMA RenewedKeeps ==
  ASSUME NEW s, Sound(s), FewWalks(s)
  PROVE  LET t == Walk!Renewed(s) IN
         Sound(t) /\ WalkIsScheduled(t) /\ (TaskHasWalk(s) => TaskHasWalk(t))
<1>1. CASE s.eventOf["walk"] = 0
  BY <1>1 DEF Walk!Renewed, WalkIsScheduled
<1>2. CASE s.eventOf["walk"] # 0
  <2> DEFINE a == Walk!AddEvent(s, "walk")
             named == \E e \in Walk!Of(s, "walk") : e.id = s.eventOf["walk"]
             t == [a EXCEPT !.doubled = @ \/ named]
  <2>0. s \in WalkStates /\ "walk" \in Walk!EventKinds
    BY FourKinds DEF Sound, Orderly
  <2>1. Walk!Renewed(s) = t
    BY <1>2 DEF Walk!Renewed
  <2>2. \E n : Unused(s, "walk", n)
    BY <2>0, SpareNumber
  <2>3. /\ a \in WalkStates /\ SameButEvents(s, a)
        /\ \E n : /\ Unused(s, "walk", n)
                  /\ a.events = s.events \cup {[kind |-> "walk", id |-> n]}
                  /\ a.eventOf = [s.eventOf EXCEPT !["walk"] = n]
    BY <2>0, <2>2, AddEventIs
  <2> HIDE DEF a
  <2>4. PICK n : /\ Unused(s, "walk", n)
                 /\ a.events = s.events \cup {[kind |-> "walk", id |-> n]}
                 /\ a.eventOf = [s.eventOf EXCEPT !["walk"] = n]
    BY <2>3
  <2>5. /\ t \in WalkStates /\ t.left = a.left /\ t.is = a.is /\ t.stranded = a.stranded
        /\ t.walkTask = a.walkTask /\ t.eventOf = a.eventOf /\ t.events = a.events
        /\ t.posted = a.posted
    BY <2>3 DEF WalkStates
  <2>6. t.doubled <=> s.doubled \/ named
    BY <2>3 DEF WalkStates, SameButEvents
  <2>7. \A e \in s.events : e.kind = "walk" => e.id = s.eventOf["walk"] \/ s.doubled
    BY DEF Sound, Orderly, Stoppable
  <2>8. \A e \in s.events : e.kind = "walk" => t.doubled
    BY <2>6, <2>7 DEF Walk!Of
  <2> HIDE DEF t
  <2>9. /\ s.eventOf \in [Walk!EventKinds -> 0 .. (MaxWalks + 2)]
        /\ \A e \in s.events : e.kind \in Walk!EventKinds
    BY <2>0 DEF WalkStates
  <2>10. /\ n # 0 /\ t.eventOf["walk"] = n
         /\ \A j \in Walk!EventKinds : j # "walk" => t.eventOf[j] = s.eventOf[j]
    BY <2>0, <2>4, <2>5, <2>9 DEF Unused, WalkNumbers
  <2>11. Stoppable(t)
    <3>1. ASSUME NEW e \in t.events
          PROVE  e.id = t.eventOf[e.kind] \/ (e.kind = "walk" /\ t.doubled)
      <4>1. CASE e = [kind |-> "walk", id |-> n]
        BY <2>10, <4>1
      <4>2. CASE e \in s.events /\ e.kind = "walk"
        BY <2>8, <4>2
      <4>3. CASE e \in s.events /\ e.kind # "walk"
        BY <2>9, <2>10, <4>3 DEF Sound, Orderly, Stoppable
      <4> QED BY <2>4, <2>5, <4>1, <4>2, <4>3
    <3> QED BY <3>1 DEF Stoppable
  <2>12. \A j : j # "walk" => (NoneOf(t, j) <=> NoneOf(s, j))
    BY <2>4, <2>5 DEF NoneOf
  <2>13. /\ t.left = s.left /\ t.is = s.is /\ t.stranded = s.stranded /\ t.walkTask = s.walkTask
    BY <2>3, <2>5 DEF SameButEvents
  <2>14. Orderly(t) /\ StepIsAlone(t)
    BY <2>5, <2>11, <2>12, <2>13 DEF Sound, Orderly, StepIsAlone
  <2>15. Sound(t) /\ TaskHasWalk(t)
    BY <2>10, <2>14 DEF Sound, TaskHasWalk
  <2>16. WalkIsScheduled(t)
    <3>1. [kind |-> "walk", id |-> n] \in t.events
      BY <2>4, <2>5
    <3> QED BY <2>10, <3>1 DEF WalkIsScheduled
  <2> QED BY <2>1, <2>15, <2>16
<1> QED BY <1>1, <1>2

(* setNextWalkActionTask.                                                  *)
LEMMA SetNextWalkActionTaskKeeps ==
  ASSUME NEW s, Sound(s), NEW some \in BOOLEAN, some => WalkIsPosted(s)
  PROVE  LET t == Walk!SetNextWalkActionTask(s, some) IN
         Keeps(s, t) /\ t.is = s.is
<1> DEFINE v == Walk!StopEvent(s, "arrival")
           t == [v EXCEPT !.walkTask = some, !.stranded = @ \ {"task"}]
<1>1. Walk!SetNextWalkActionTask(s, some) = t
  BY DEF Walk!SetNextWalkActionTask
<1>2. /\ Orderly(v) /\ SameButEvents(s, v) /\ NoneOf(v, "arrival") /\ FewerKinds(s, v)
  BY StopEventLeaves DEF Sound, Stopped
<1>3. Keeps(s, v)
  BY StopEventKeeps
<1> HIDE DEF v
<1>4. v \in WalkStates
  BY <1>2 DEF Orderly
<1>5. /\ t.left = v.left /\ t.walkTask = some /\ t.eventOf = v.eventOf /\ t.events = v.events
      /\ t.posted = v.posted /\ t.is = v.is /\ t.stranded = v.stranded \ {"task"}
      /\ t.doubled = v.doubled
  BY <1>4 DEF WalkStates
<1>6. t \in WalkStates
  <2>1. t = [x \in WalkFields |-> t[x]]
    BY <1>4 DEF WalkStates, WalkFields
  <2> HIDE DEF t
  <2>2. /\ t.left \in 0 .. MaxSteps /\ t.eventOf \in [Walk!EventKinds -> 0 .. (MaxWalks + 2)]
        /\ t.events \in SUBSET [kind : Walk!EventKinds, id : WalkNumbers]
    BY <1>4, <1>5 DEF WalkStates
  <2>3. /\ t.posted \in Seq(Errands) /\ t.is \in SUBSET Conditions
        /\ t.stranded \in SUBSET {"task", "steps"}
    BY <1>4, <1>5 DEF WalkStates
  <2>4. v.doubled \in BOOLEAN
    BY <1>4 DEF WalkStates
  <2>5. t.walkTask \in BOOLEAN /\ t.doubled \in BOOLEAN
    BY <1>5, <2>4, Zenon
  <2> QED BY <2>1, <2>2, <2>3, <2>5, IsWalkState
<1> HIDE DEF t
<1>7. /\ v.left = s.left /\ v.posted = s.posted /\ v.is = s.is /\ v.stranded = s.stranded
  BY <1>2 DEF SameButEvents
<1>8. NoneOf(t, "arrival") /\ (NoneOf(v, "step") => NoneOf(t, "step"))
  BY <1>2, <1>5 DEF NoneOf
<1>9. Stoppable(t)
  BY <1>2, <1>5 DEF Orderly, Stoppable
<1>10. Orderly(t)
  BY <1>2, <1>5, <1>6, <1>8, <1>9 DEF Orderly
<1>11. Sound(t)
  BY <1>3, <1>5, <1>8, <1>10 DEF Keeps, Leads, Sound, StepIsAlone
<1>12. WalkIsScheduled(s) => WalkIsScheduled(t)
  BY <1>3, <1>5 DEF Keeps, Leads, WalkIsScheduled
<1>13. TaskHasWalk(t)
  BY <1>5, <1>7 DEF TaskHasWalk, WalkIsPosted
<1>14. Adds(s, t, {})
  BY <1>3, <1>5 DEF Keeps, Adds
<1> QED BY <1>1, <1>5, <1>7, <1>11, <1>12, <1>13, <1>14 DEF Keeps, Leads

LEMMA SetNextMayAdd ==
  ASSUME NEW s, Sound(s), NEW some \in BOOLEAN
  PROVE  KeepsOrAdds(s, Walk!SetNextActionTask(s, some))
<1>1. Keeps(s, Walk!SetNext(s, "action", some))
  BY SetNextKeeps
<1> QED BY <1>1, KeepsMayAdd DEF Walk!SetNextActionTask

LEMMA PlayerMoveKeeps ==
  ASSUME NEW s, Sound(s), FewWalks(s), NEW t \in Walk!PlayerMove(s)
  PROVE  KeepsOrAdds(s, t)
<1> DEFINE u == Walk!StopWalk(s)
           v == Walk!Now(u, "busy")
           w == Walk!FollowNobody(u)
<1>1. \/ t = s \/ t = Walk!SetNextWalkTask(v, TRUE) \/ t \in Walk!Stepped(w)
  BY DEF Walk!PlayerMove
<1>2. Keeps(s, u) /\ (u.left = 0 \/ "steps" \in u.stranded)
  BY StopWalkKeeps
<1> HIDE DEF u
<1>3. Sound(u)
  BY <1>2 DEF Keeps, Leads
<1>4. CASE t = s
  BY <1>4, KeepsItself, KeepsMayAdd
<1>5. CASE t = Walk!SetNextWalkTask(v, TRUE)
  <2>1. Keeps(u, v) /\ v.left = u.left /\ v.stranded = u.stranded
    BY <1>3, NowKeeps DEF Conditions
  <2> HIDE DEF v
  <2>2. Keeps(v, t)
    <3>1. Sound(v) /\ (v.left = 0 \/ "steps" \in v.stranded)
      BY <1>2, <2>1 DEF Keeps, Leads
    <3>2. Keeps(v, Walk!SetNext(v, "step", TRUE))
      BY <3>1, SetNextKeeps
    <3> QED BY <1>5, <3>2 DEF Walk!SetNextWalkTask
  <2>3. Keeps(s, t)
    BY <1>2, <2>1, <2>2, KeepsTwice
  <2> QED BY <2>3, KeepsMayAdd
<1>6. CASE t \in Walk!Stepped(w)
  <2>1. Keeps(u, w)
    BY <1>3, FollowNobodyKeeps
  <2> HIDE DEF w
  <2>2. Keeps(s, w)
    BY <1>2, <2>1, KeepsTwice
  <2>3. Sound(w) /\ FewWalks(w)
    BY <2>2, KeepsFewWalks DEF Keeps, Leads, Sound, Orderly
  <2>4. KeepsOrAdds(w, t)
    BY <1>6, <2>3, SteppedKeeps
  <2> QED BY <2>2, <2>4, KeepsThenAdds
<1> QED BY <1>1, <1>4, <1>5, <1>6

(* A walk is set out on, refused or jumped over: then whatever waits for   *)
(* one may.                                                                *)
LEMMA PlayerAutoWalkKeeps ==
  ASSUME NEW s, Sound(s), FewWalks(s), NEW n \in 1 .. MaxSteps,
         NEW t \in Walk!PlayerAutoWalk(s, n)
  PROVE  KeepsOrAdds(s, t) /\ TaskHasWalk(t)
<1> DEFINE u == Walk!SetNext(s, "step", FALSE)
           v == Walk!StopEventWalk(s)
<1>1. \/ t = Walk!StartAutoWalk(u, n)
      \/ t = [v EXCEPT !.stranded = @ \cup {"task"}]
      \/ t = [s EXCEPT !.stranded = @ \cup {"task"}]
  BY DEF Walk!PlayerAutoWalk, Walk!SetNextWalkTask
<1>2. Keeps(s, u) /\ NoneOf(u, "step")
  BY SetNextKeeps
<1>3. Keeps(s, v)
  BY StopEventWalkKeeps DEF Sound
<1> HIDE DEF u, v
<1>4. Sound(u) /\ FewWalks(u) /\ Sound(v)
  BY <1>2, <1>3, KeepsFewWalks DEF Keeps, Leads, Sound, Orderly
<1>5. CASE t = Walk!StartAutoWalk(u, n)
  <2>1. n \in 0 .. MaxSteps
    BY FourKinds
  <2>2. KeepsOrAdds(u, t) /\ TaskHasWalk(t)
    BY <1>2, <1>4, <1>5, <2>1, StartAutoWalkKeeps
  <2> QED BY <1>2, <2>2, KeepsThenAdds
<1>6. CASE t = [v EXCEPT !.stranded = @ \cup {"task"}]
  <2>1. Keeps(v, t) /\ TaskHasWalk(t)
    BY <1>4, <1>6, StrandedKeeps
  <2>2. Keeps(s, t)
    BY <1>3, <2>1, KeepsTwice
  <2> QED BY <2>1, <2>2, KeepsMayAdd
<1>7. CASE t = [s EXCEPT !.stranded = @ \cup {"task"}]
  BY <1>7, StrandedKeeps, KeepsMayAdd
<1> QED BY <1>1, <1>5, <1>6, <1>7

(* getPathToFollowCreature: no path.                                       *)
LEMMA NoPathKeeps ==
  ASSUME NEW s, Sound(s)
  PROVE  Keeps(s, Walk!NoMore([s EXCEPT !.left = 0], "pathed"))
<1> DEFINE u == [s EXCEPT !.left = 0]
           t == Walk!NoMore(u, "pathed")
<1>0. s \in WalkStates /\ 0 \in 0 .. MaxSteps
  BY FourKinds DEF Sound, Orderly
<1>1. /\ u \in WalkStates /\ SameEvents(s, u) /\ u.left = 0 /\ u.is = s.is
      /\ u.stranded = s.stranded
  BY <1>0 DEF WalkStates, SameEvents
<1> HIDE DEF u
<1>2. Orderly(u) /\ Carries(s, u)
  BY <1>1, SameEventsCarry DEF Sound, Orderly
<1>3. Sound(u)
  BY <1>1, <1>2 DEF Sound, StepIsAlone
<1>4. Carries(u, t) /\ Sound(t)
  BY <1>3, NoMoreCarries
<1> HIDE DEF t
<1>5. Keeps(s, t)
  BY <1>2, <1>4, CarriesSound, CarriesThenKeeps
<1> QED BY <1>5 DEF t, u

(* A path: the steps of who is rooted wait without an event.               *)
LEMMA PathKeeps ==
  ASSUME NEW s, Sound(s), FewWalks(s), "following" \in s.is, NEW n \in 0 .. MaxSteps
  PROVE  KeepsOrAdds(s, Walk!StartAutoWalk([Walk!Now(s, "pathed") EXCEPT
           !.left = n, !.stranded = IF "rooted" \in s.is THEN @ \cup {"steps"} ELSE @], n))
<1> DEFINE w == Walk!Now(s, "pathed")
           u == [w EXCEPT !.left = n,
                          !.stranded = IF "rooted" \in s.is THEN @ \cup {"steps"} ELSE @]
           t == Walk!StartAutoWalk(u, n)
<1>1. /\ Keeps(s, w) /\ FewWalks(w) /\ w.is = s.is \cup {"pathed"}
  BY NowKeeps DEF Conditions
<1> HIDE DEF w
<1>2. Sound(w) /\ w \in WalkStates
  BY <1>1 DEF Keeps, Leads, Sound, Orderly
<1>3. /\ u \in WalkStates /\ SameEvents(w, u) /\ u.left = n /\ u.is = w.is
      /\ u.stranded = IF "rooted" \in s.is THEN w.stranded \cup {"steps"} ELSE w.stranded
  BY <1>2 DEF WalkStates, SameEvents
<1> HIDE DEF u
<1>4. "rooted" \in u.is <=> "rooted" \in s.is
  BY <1>1, <1>3
<1>5. CASE "rooted" \in s.is
  <2>1. Orderly(u) /\ Carries(w, u)
    BY <1>2, <1>3, SameEventsCarry DEF Sound, Orderly
  <2>2. Sound(u)
    BY <1>3, <1>5, <2>1 DEF Sound, StepIsAlone
  <2>3. t = [u EXCEPT !.stranded = @ \cup {"task"}]
    BY <1>4, <1>5 DEF Walk!StartAutoWalk
  <2>4. Keeps(u, t)
    BY <2>2, <2>3, StrandedKeeps
  <2> HIDE DEF t
  <2>5. Keeps(s, t)
    BY <1>1, <2>1, <2>4, CarriesThenKeeps, KeepsTwice
  <2>6. KeepsOrAdds(s, t)
    BY <2>5, KeepsMayAdd
  <2> QED BY <2>6 DEF t, u, w
<1>6. CASE "rooted" \notin s.is
  <2> DEFINE v == [u EXCEPT !.left = n]
  <2>1. t = Walk!AddEventWalk(v)
    BY <1>4, <1>6 DEF Walk!StartAutoWalk
  <2>2. v = u
    BY <1>3 DEF WalkStates
  <2> HIDE DEF v, t
  <2>3. StepIsAlone(u) /\ u.stranded = w.stranded
    BY <1>1, <1>3, <1>6 DEF StepIsAlone
  <2>4. KeepsOrAdds(w, t)
    BY <1>1, <1>2, <1>3, <2>1, <2>2, <2>3, WalksFrom
  <2>5. KeepsOrAdds(s, t)
    BY <1>1, <2>4, KeepsThenAdds
  <2> QED BY <2>5 DEF t, u, w
<1> QED BY <1>5, <1>6

LEMMA PursueKeeps ==
  ASSUME NEW s, Sound(s), FewWalks(s), NEW t \in Walk!Pursue(s)
  PROVE  KeepsOrAdds(s, t)
<1>1. CASE "following" \notin s.is
  BY <1>1, KeepsItself, KeepsMayAdd DEF Walk!Pursue
<1>2. CASE "following" \in s.is
  <2>1. \/ t = Walk!NoMore([s EXCEPT !.left = 0], "pathed")
        \/ \E n \in 0 .. MaxSteps :
             t = Walk!StartAutoWalk([Walk!Now(s, "pathed") EXCEPT
                   !.left = n, !.stranded = IF "rooted" \in s.is THEN @ \cup {"steps"} ELSE @], n)
    BY <1>2 DEF Walk!Pursue
  <2> QED BY <1>2, <2>1, NoPathKeeps, PathKeeps, KeepsMayAdd
<1> QED BY <1>1, <1>2

(* A request for what is far away posts the walk it waits for.             *)
LEMMA FarKeeps ==
  ASSUME NEW s, Sound(s), NEW t \in Walk!Far(s)
  PROVE  Keeps(s, t)
<1>1. PICK n \in 1 .. MaxSteps : t = Walk!SetNextWalkActionTask(Walk!Post(s, <<"walk", n>>), TRUE)
  BY DEF Walk!Far
<1> DEFINE u == Walk!Post(s, <<"walk", n>>)
<1>2. <<"walk", n>> \in Errands
  BY DEF Errands
<1>3. Keeps(s, u) /\ WalkIsPosted(u)
  BY <1>2, PostKeeps
<1> HIDE DEF u
<1>4. Keeps(u, t)
  BY <1>1, <1>3, SetNextWalkActionTaskKeeps DEF Keeps, Leads, u
<1> QED BY <1>3, <1>4, KeepsTwice

LEMMA UsedKeeps ==
  ASSUME NEW s, Sound(s)
  PROVE  Keeps(s, Walk!Used(s))
<1> DEFINE u == Walk!SetNext(s, "action", FALSE)
           v == Walk!StopWalk(u)
           t == Walk!Now(v, "busy")
<1>1. Keeps(s, u)
  BY SetNextKeeps
<1> HIDE DEF u
<1>2. Keeps(u, v)
  BY <1>1, StopWalkKeeps DEF Keeps, Leads
<1> HIDE DEF v
<1>3. Keeps(v, t)
  BY <1>2, NowKeeps DEF Keeps, Leads, Conditions
<1> HIDE DEF t
<1>4. Keeps(s, t)
  BY <1>1, <1>2, <1>3, KeepsTwice
<1> QED BY <1>4 DEF Walk!Used, Walk!SetNextActionTask, t, v, u

(* Requests, and the swing of an attacker.                                 *)
LEMMA RequestedKeeps ==
  ASSUME NEW s, Sound(s), NEW t \in Walk!Requested(s) \cup Walk!DoAttacking(s)
  PROVE  KeepsOrAdds(s, t)
<1> DEFINE w == Walk!SetNextActionTask(s, TRUE)
           u == Walk!SetNextActionTask(s, FALSE)
<1>1. \/ t = s \/ t = w \/ t = u \/ t = Walk!Used(s) \/ t \in Walk!Far(s) \/ t \in Walk!Far(u)
  BY DEF Walk!Requested, Walk!DoAttacking, Walk!PlayerUseItem, Walk!PlayerMoveItem,
         Walk!PlayerMoveCreature, Walk!PlayerRotateItem, Walk!Pushed, Walk!Wait
<1>2. Keeps(s, s) /\ Keeps(s, w) /\ Keeps(s, u) /\ Keeps(s, Walk!Used(s))
  BY KeepsItself, SetNextKeeps, UsedKeeps DEF Walk!SetNextActionTask
<1> HIDE DEF w, u
<1>3. t \in Walk!Far(s) => Keeps(s, t)
  BY FarKeeps
<1>4. t \in Walk!Far(u) => Keeps(s, t)
  BY <1>2, FarKeeps, KeepsTwice DEF Keeps, Leads
<1>5. Keeps(s, t)
  BY <1>1, <1>2, <1>3, <1>4
<1> QED BY <1>5, KeepsMayAdd
-----------------------------------------------------------------------------
(* Walking: one step.                                                      *)
Settled(s) == Sound(s) /\ WalkIsScheduled(s) /\ TaskHasWalk(s)

LEMMA AddsSettles ==
  ASSUME NEW s, Settled(s), NEW t, KeepsOrAdds(s, t)
  PROVE  Settled(t)
BY DEF Settled, KeepsOrAdds, Leads

LEMMA KeepsSettles ==
  ASSUME NEW s, Settled(s), NEW t, Keeps(s, t)
  PROVE  Settled(t)
BY DEF Settled, Keeps, Leads

(* An event of another kind than a walk is taken from the scheduler.       *)
LEMMA TakenKeeps ==
  ASSUME NEW s, Sound(s), NEW e \in s.events
  PROVE  LET t == [s EXCEPT !.events = @ \ {e}] IN
         /\ Sound(t) /\ (TaskHasWalk(s) => TaskHasWalk(t))
         /\ FewWalks(s) => FewWalks(t)
         /\ e.kind # "walk" => Keeps(s, t)
         /\ t.events = s.events \ {e}
<1> DEFINE t == [s EXCEPT !.events = @ \ {e}]
<1>0. s \in WalkStates
  BY DEF Sound, Orderly
<1>1. /\ t.left = s.left /\ t.walkTask = s.walkTask /\ t.eventOf = s.eventOf
      /\ t.events = s.events \ {e} /\ t.posted = s.posted /\ t.is = s.is
      /\ t.stranded = s.stranded /\ t.doubled = s.doubled
  BY <1>0 DEF WalkStates
<1>2. t \in WalkStates
  BY <1>0 DEF WalkStates
<1> HIDE DEF t
<1>3. \A k : NoneOf(s, k) => NoneOf(t, k)
  BY <1>1 DEF NoneOf
<1>4. Orderly(t)
  BY <1>1, <1>2, <1>3 DEF Sound, Orderly, Stoppable
<1>5. Sound(t)
  BY <1>1, <1>3, <1>4 DEF Sound, StepIsAlone
<1>6. TaskHasWalk(s) => TaskHasWalk(t)
  BY <1>1 DEF TaskHasWalk, WalkIsPosted
<1>7. Adds(s, t, {})
  BY <1>1 DEF Adds
<1>8. FewWalks(s) => FewWalks(t)
  <2>1. Walk!Of(t, "walk") \subseteq Walk!Of(s, "walk")
    BY <1>1 DEF Walk!Of
  <2>2. IsFiniteSet(Walk!Of(s, "walk")) /\ Cardinality(Walk!Of(s, "walk")) \in Nat
        /\ Cardinality(Walk!Of(t, "walk")) \in Nat
    BY <1>0, <1>2, WalksAreFinite
  <2>3. Cardinality(Walk!Of(t, "walk")) <= Cardinality(Walk!Of(s, "walk"))
    BY <2>1, <2>2, FS_Subset
  <2> QED BY <2>2, <2>3, FourKinds DEF FewWalks
<1>9. e.kind # "walk" => (WalkIsScheduled(s) => WalkIsScheduled(t))
  BY <1>1 DEF WalkIsScheduled
<1> QED BY <1>1, <1>5, <1>6, <1>7, <1>8, <1>9 DEF Keeps, Leads, t

(* A step takes one of the steps that are left.                            *)
LEMMA OneStepLess ==
  ASSUME NEW s, Sound(s), s.left # 0
  PROVE  LET t == [s EXCEPT !.left = @ - 1] IN
         Sound(t) /\ (TaskHasWalk(s) => TaskHasWalk(t)) /\ t.events = s.events
<1> DEFINE t == [s EXCEPT !.left = @ - 1]
<1>0. s \in WalkStates /\ s.left - 1 \in 0 .. MaxSteps
  BY FourKinds DEF Sound, Orderly, WalkStates
<1>1. /\ t \in WalkStates /\ SameEvents(s, t) /\ t.is = s.is /\ t.stranded = s.stranded
  BY <1>0 DEF WalkStates, SameEvents
<1> HIDE DEF t
<1>2. Orderly(t) /\ Carries(s, t) /\ (NoneOf(s, "step") => NoneOf(t, "step"))
  BY <1>1, SameEventsCarry DEF Sound, Orderly
<1>3. Sound(t)
  BY <1>1, <1>2 DEF Sound, StepIsAlone, SameEvents
<1> QED BY <1>1, <1>2, <1>3 DEF Carries, SameEvents, t

(* The walk event that is carried out makes room for the one that a script *)
(* brings.                                                                 *)
LEMMA RoomForOneMore ==
  ASSUME NEW s \in WalkStates, FewWalks(s), NEW e \in s.events, e.kind = "walk",
         NEW t \in WalkStates, NEW new,
         \A f \in t.events : f.kind = "walk" => f \in s.events \ {e} \/ f = new
  PROVE  FewWalks(t)
<1> DEFINE before == Walk!Of(s, "walk")
           after == Walk!Of(t, "walk")
           rest == before \ {e}
<1>1. /\ IsFiniteSet(before) /\ Cardinality(before) \in Nat
      /\ IsFiniteSet(after) /\ Cardinality(after) \in Nat
  BY WalksAreFinite
<1>2. e \in before /\ after \subseteq rest \cup {new}
  BY DEF Walk!Of
<1>3. Cardinality(before) <= MaxWalks
  BY DEF FewWalks
<1> HIDE DEF before, after
<1>4. IsFiniteSet(rest) /\ Cardinality(rest) = Cardinality(before) - 1
  BY <1>1, <1>2, FS_RemoveElement
<1> HIDE DEF rest
<1>5. /\ IsFiniteSet(rest \cup {new})
      /\ Cardinality(rest \cup {new}) =
           IF new \in rest THEN Cardinality(rest) ELSE Cardinality(rest) + 1
  BY <1>4, FS_AddElement
<1>6. Cardinality(after) <= Cardinality(rest \cup {new})
  BY <1>2, <1>5, FS_Subset
<1>7. Cardinality(rest) \in Nat /\ Cardinality(rest \cup {new}) \in Nat
  BY <1>4, <1>5, FS_CardinalityType
<1>8. Cardinality(after) <= MaxWalks
  BY <1>1, <1>3, <1>4, <1>5, <1>6, <1>7, FourKinds
<1> QED BY <1>8 DEF FewWalks, after

LEMMA OnWalkSettles ==
  ASSUME NEW s, Sound(s), FewWalks(s), TaskHasWalk(s), NEW e \in s.events, e.kind = "walk",
         NEW t \in Walk!OnWalk([s EXCEPT !.events = @ \ {e}])
  PROVE  Settled(t)
<1> DEFINE u == [s EXCEPT !.events = @ \ {e}]
           v == [u EXCEPT !.left = @ - 1]
<1>1. Sound(u) /\ FewWalks(u) /\ TaskHasWalk(u) /\ u.events = s.events \ {e}
  BY TakenKeeps
<1> HIDE DEF u
<1>2. PICK w : /\ w = u \/ (u.left # 0 /\ w \in Walk!Stepped(v))
               /\ t = Walk!Renewed(Walk!Completed(w))
  BY DEF Walk!OnWalk, u
<1>3. Sound(w) /\ FewWalks(w) /\ TaskHasWalk(w)
  <2>1. CASE w = u
    BY <1>1, <2>1
  <2>2. CASE u.left # 0 /\ w \in Walk!Stepped(v)
    <3>1. Sound(v) /\ TaskHasWalk(v) /\ v.events = u.events
      BY <1>1, <2>2, OneStepLess
    <3> HIDE DEF v
    <3>2. FewWalks(v)
      BY <1>1, <3>1 DEF FewWalks, Walk!Of
    <3>3. KeepsOrAdds(v, w)
      BY <2>2, <3>1, <3>2, SteppedKeeps
    <3>4. Sound(w) /\ TaskHasWalk(w)
      BY <3>1, <3>3 DEF KeepsOrAdds, Leads
    <3>5. PICK new : Adds(v, w, {new})
      BY <3>3 DEF KeepsOrAdds
    <3>6. \A f \in w.events : f.kind = "walk" => f \in s.events \ {e} \/ f = new
      BY <1>1, <3>1, <3>5 DEF Adds
    <3>7. s \in WalkStates /\ w \in WalkStates
      BY <3>4 DEF Sound, Orderly
    <3> QED BY <3>4, <3>6, <3>7, RoomForOneMore
  <2> QED BY <1>2, <2>1, <2>2
<1> DEFINE c == Walk!Completed(w)
<1>4. Keeps(w, c)
  BY <1>3, CompletedKeeps
<1> HIDE DEF c
<1>5. Sound(c) /\ FewWalks(c) /\ TaskHasWalk(c)
  BY <1>3, <1>4, KeepsFewWalks DEF Keeps, Leads, Sound, Orderly
<1>6. t = Walk!Renewed(c)
  BY <1>2 DEF c
<1> QED BY <1>5, <1>6, RenewedKeeps DEF Settled

(* What Become makes of a state.                                           *)
LEMMA BecomeIsTyped ==
  ASSUME NEW t \in WalkStates, Walk!Become(t)
  PROVE  /\ (Walk!State)' \in WalkStates /\ FewWalks((Walk!State)')
         /\ x1' = t.left /\ x2' = t.walkTask /\ x3' = [k \in Walk!EventKinds |-> Walk!Named(t, k)]
         /\ x4' = t.events /\ x5' = t.posted /\ x6' = t.is
         /\ x7' = {x \in t.stranded : IF x = "task" THEN t.walkTask ELSE t.left > 0}
         /\ x8' = t.doubled
<1>1. /\ x1' = t.left /\ x2' = t.walkTask /\ x3' = [k \in Walk!EventKinds |-> Walk!Named(t, k)]
      /\ x4' = t.events /\ x5' = t.posted /\ x6' = t.is
      /\ x7' = {x \in t.stranded : IF x = "task" THEN t.walkTask ELSE t.left > 0}
      /\ x8' = t.doubled
  BY DEF Walk!Become
<1>2. FewWalks((Walk!State)')
  <2>1. Walk!Cardinality(Walk!Of(t, "walk")) <= MaxWalks
    BY DEF Walk!Become
  <2>2. Cardinality(Walk!Of(t, "walk")) <= MaxWalks
    BY <2>1, SameCount
  <2>3. Walk!Of((Walk!State)', "walk") = Walk!Of(t, "walk")
    BY <1>1 DEF Walk!Of, Walk!State
  <2> QED BY <2>2, <2>3 DEF FewWalks
<1>3. x3' \in [Walk!EventKinds -> 0 .. (MaxWalks + 2)]
  <2>1. \A k \in Walk!EventKinds : Walk!Named(t, k) \in 0 .. (MaxWalks + 2)
    BY FourKinds DEF WalkStates, Walk!Named
  <2> QED BY <1>1, <2>1
<1>4. x7' \in SUBSET {"task", "steps"}
  BY <1>1 DEF WalkStates
<1>5. /\ t.left \in 0 .. MaxSteps /\ t.walkTask \in BOOLEAN
      /\ t.events \in SUBSET [kind : Walk!EventKinds, id : WalkNumbers]
      /\ t.posted \in Seq(Errands) /\ t.is \in SUBSET Conditions /\ t.doubled \in BOOLEAN
  BY DEF WalkStates
<1>6. /\ x1' \in 0 .. MaxSteps /\ x2' \in BOOLEAN
      /\ x4' \in SUBSET [kind : Walk!EventKinds, id : WalkNumbers]
      /\ x5' \in Seq(Errands) /\ x6' \in SUBSET Conditions /\ x8' \in BOOLEAN
  BY <1>1, <1>5, Zenon
<1>7. (Walk!State)' \in WalkStates
  BY <1>3, <1>4, <1>6 DEF WalkStates, Walk!State
<1> QED BY <1>1, <1>2, <1>7

LEMMA BecomeKeeps ==
  ASSUME NEW t, Settled(t), Walk!Become(t)
  PROVE  WalkInv'
<1> DEFINE r == (Walk!State)'
<1>0. t \in WalkStates
  BY DEF Settled, Sound, Orderly
<1>1. /\ r \in WalkStates /\ FewWalks(r)
      /\ x1' = t.left /\ x2' = t.walkTask /\ x3' = [k \in Walk!EventKinds |-> Walk!Named(t, k)]
      /\ x4' = t.events /\ x5' = t.posted /\ x6' = t.is
      /\ x7' = {x \in t.stranded : IF x = "task" THEN t.walkTask ELSE t.left > 0}
      /\ x8' = t.doubled
  BY <1>0, BecomeIsTyped
<1>2. /\ r.left = x1' /\ r.walkTask = x2' /\ r.eventOf = x3' /\ r.events = x4'
      /\ r.posted = x5' /\ r.is = x6' /\ r.stranded = x7' /\ r.doubled = x8'
  BY DEF Walk!State
<1> HIDE DEF r
<1>3. /\ r.left = t.left /\ r.walkTask = t.walkTask /\ r.events = t.events
      /\ r.posted = t.posted /\ r.is = t.is /\ r.doubled = t.doubled
      /\ r.stranded = {x \in t.stranded : IF x = "task" THEN t.walkTask ELSE t.left > 0}
  BY <1>1, <1>2, Zenon
<1>4. \A k \in Walk!EventKinds : r.eventOf[k] = Walk!Named(t, k)
  BY <1>1, <1>2
<1>5. r.eventOf["walk"] = t.eventOf["walk"]
  BY <1>4, FourKinds DEF Walk!Named
<1>6. \A e \in t.events : e.kind \in Walk!EventKinds /\ (e.id = t.eventOf[e.kind] => r.eventOf[e.kind] = e.id)
  <2>1. \A e \in t.events : e.kind \in Walk!EventKinds
    BY <1>0 DEF WalkStates
  <2> QED BY <1>4, <2>1 DEF Walk!Named, Walk!Of
<1>7. Stoppable(r)
  <2>1. \A e \in t.events : e.id = t.eventOf[e.kind] \/ (e.kind = "walk" /\ t.doubled)
    BY DEF Settled, Sound, Orderly, Stoppable
  <2> QED BY <1>3, <1>6, <2>1 DEF Stoppable
<1>8. Orderly(r)
  BY <1>1, <1>3, <1>7 DEF Settled, Sound, Orderly, NoneOf
<1>9. r.left = 0 \/ ("steps" \in t.stranded => "steps" \in r.stranded)
  <2>1. t.left \in Nat
    BY <1>0, FourKinds DEF WalkStates
  <2> QED BY <1>3, <2>1
<1>10. StepIsAlone(r)
  BY <1>3, <1>9 DEF Settled, Sound, StepIsAlone, NoneOf
<1>11. Sound(r)
  BY <1>3, <1>5, <1>8, <1>9, <1>10 DEF Settled, Sound
<1>12. WalkIsScheduled(r)
  BY <1>3, <1>5 DEF Settled, WalkIsScheduled
<1>13. TaskHasWalk(r)
  <2>1. t.walkTask => ("task" \in t.stranded => "task" \in r.stranded)
    BY <1>3
  <2> QED BY <1>3, <1>5, <2>1 DEF Settled, TaskHasWalk, WalkIsPosted
<1>14. "removed" \notin x6'
  BY <1>2, <1>8 DEF Orderly
<1> QED BY <1>1, <1>11, <1>12, <1>13, <1>14 DEF WalkInv, r

(* Who is gone asks for nothing any more.                                  *)
LEMMA BecomeGone ==
  ASSUME NEW t \in WalkStates, Walk!Become(t), "removed" \in t.is,
         t.left = 0, ~t.walkTask, t.events = {}, t.posted = <<>>
  PROVE  WalkInv'
<1>1. /\ (Walk!State)' \in WalkStates /\ FewWalks((Walk!State)')
      /\ x1' = t.left /\ x2' = t.walkTask /\ x4' = t.events /\ x5' = t.posted /\ x6' = t.is
  BY BecomeIsTyped
<1> QED BY <1>1 DEF WalkInv

LEMMA WalkInit ==
  ASSUME Walk!Init
  PROVE  WalkInv
<1> DEFINE s == Walk!State
<1>1. /\ x1 = 0 /\ x2 = FALSE /\ x3 = [k \in Walk!EventKinds |-> 0] /\ x4 = {} /\ x5 = <<>>
      /\ x6 = {} /\ x7 = {} /\ x8 = FALSE
  BY DEF Walk!Init
<1>2. /\ s.left = 0 /\ s.walkTask = FALSE /\ s.eventOf = x3 /\ s.events = {} /\ s.posted = <<>>
      /\ s.is = {} /\ s.stranded = {} /\ s.doubled = FALSE
  BY <1>1 DEF Walk!State
<1>3. s \in WalkStates
  <2>1. x1 \in 0 .. MaxSteps /\ x3 \in [Walk!EventKinds -> 0 .. (MaxWalks + 2)] /\ x5 \in Seq(Errands)
    BY <1>1, FourKinds
  <2> QED BY <1>1, <2>1 DEF WalkStates, Walk!State
<1> HIDE DEF s
<1>4. FewWalks(s)
  <2>1. Walk!Of(s, "walk") = {}
    BY <1>2 DEF Walk!Of
  <2> QED BY <2>1, FS_EmptySet, FourKinds DEF FewWalks
<1>5. s.eventOf["walk"] = 0
  BY <1>1, <1>2, FourKinds
<1>6. Sound(s) /\ WalkIsScheduled(s) /\ TaskHasWalk(s)
  BY <1>2, <1>3, <1>5 DEF Sound, Orderly, StepIsAlone, Stoppable, NoneOf, WalkIsScheduled, TaskHasWalk
<1> QED BY <1>1, <1>3, <1>4, <1>6 DEF WalkInv, s

(* A task of the dispatcher is taken: a walk that was posted starts.       *)
LEMMA PostedIsTaken ==
  ASSUME NEW s, Settled(s), s.posted # <<>>
  PROVE  LET t == [s EXCEPT !.posted = Tail(@)] IN
         /\ Sound(t) /\ WalkIsScheduled(t) /\ (FewWalks(s) => FewWalks(t))
         /\ Head(s.posted)[1] # "walk" => TaskHasWalk(t)
<1> DEFINE rest == Tail(s.posted)
           t == [s EXCEPT !.posted = rest]
<1>0. s \in WalkStates /\ s.posted \in Seq(Errands) /\ rest \in Seq(Errands)
  BY DEF Settled, Sound, Orderly, WalkStates
<1> HIDE DEF rest
<1>1. /\ t \in WalkStates /\ t.left = s.left /\ t.is = s.is /\ t.stranded = s.stranded
      /\ t.walkTask = s.walkTask /\ t.eventOf = s.eventOf /\ t.events = s.events
      /\ t.doubled = s.doubled /\ t.posted = rest
  BY <1>0 DEF WalkStates
<1> HIDE DEF t
<1>2. Orderly(t)
  BY <1>1 DEF Settled, Sound, Orderly, Stoppable, NoneOf
<1>3. Sound(t)
  BY <1>1, <1>2 DEF Settled, Sound, StepIsAlone, NoneOf
<1>4. WalkIsScheduled(t)
  BY <1>1 DEF Settled, WalkIsScheduled
<1>5. FewWalks(s) => FewWalks(t)
  BY <1>1 DEF FewWalks, Walk!Of
<1>6. ASSUME WalkIsPosted(s), Head(s.posted)[1] # "walk"
      PROVE  WalkIsPosted(t)
  <2>1. PICK k \in DOMAIN s.posted : s.posted[k][1] = "walk"
    BY <1>6 DEF WalkIsPosted
  <2>2. k # 1 /\ k \in 1 .. Len(s.posted)
    BY <1>0, <1>6, <2>1
  <2>3. k - 1 \in DOMAIN rest /\ rest[k - 1] = s.posted[k]
    BY <1>0, <2>2 DEF rest
  <2> QED BY <1>1, <2>1, <2>3 DEF WalkIsPosted
<1>7. Head(s.posted)[1] # "walk" => TaskHasWalk(t)
  BY <1>1, <1>6 DEF Settled, TaskHasWalk
<1> QED BY <1>3, <1>4, <1>5, <1>7 DEF t, rest

LEMMA TakePostedSettles ==
  ASSUME NEW s, Settled(s), FewWalks(s), s.posted # <<>>, NEW u, NEW task,
         u = [s EXCEPT !.posted = Tail(@)], task = Head(s.posted),
         NEW t \in IF task[1] = "walk" THEN Walk!PlayerAutoWalk(u, task[2]) ELSE Walk!Pursue(u)
  PROVE  Settled(t)
<1>1. /\ Sound(u) /\ WalkIsScheduled(u) /\ FewWalks(u)
      /\ task[1] # "walk" => TaskHasWalk(u)
  BY PostedIsTaken
<1>2. task \in Errands
  BY DEF Settled, Sound, Orderly, WalkStates
<1>3. CASE task[1] = "walk"
  <2>1. task[2] \in 1 .. MaxSteps
    BY <1>2, <1>3 DEF Errands
  <2>2. t \in Walk!PlayerAutoWalk(u, task[2])
    BY <1>3
  <2>3. KeepsOrAdds(u, t) /\ TaskHasWalk(t)
    BY <1>1, <2>1, <2>2, PlayerAutoWalkKeeps
  <2> QED BY <1>1, <2>3 DEF KeepsOrAdds, Leads, Settled
<1>4. CASE task[1] # "walk"
  <2>1. KeepsOrAdds(u, t)
    BY <1>1, <1>4, PursueKeeps
  <2>2. Settled(u)
    BY <1>1, <1>4 DEF Settled
  <2> QED BY <2>1, <2>2, AddsSettles
<1> QED BY <1>3, <1>4

(* playerFollowCreature.                                                   *)
LEMMA FollowCreatureKeeps ==
  ASSUME NEW s, Sound(s), NEW alone, alone = Walk!FollowNobody(s), NEW clear,
         clear = IF alone.left > 0
                   THEN [Walk!SetNextWalkActionTask(alone, FALSE) EXCEPT !.left = 0] ELSE alone
  PROVE  Keeps(s, alone) /\ Keeps(s, Walk!NoMore(Walk!Now(clear, "following"), "pathed"))
<1>1. Keeps(s, alone)
  BY FollowNobodyKeeps
<1>2. Sound(alone)
  BY <1>1 DEF Keeps, Leads
<1>3. Keeps(alone, clear)
  <2>1. CASE alone.left > 0
    <3> DEFINE u == Walk!SetNextWalkActionTask(alone, FALSE)
               t == [u EXCEPT !.left = 0]
    <3>1. Keeps(alone, u)
      BY <1>2, SetNextWalkActionTaskKeeps
    <3> HIDE DEF u
    <3>2. u \in WalkStates /\ 0 \in 0 .. MaxSteps
      BY <3>1, FourKinds DEF Keeps, Leads, Sound, Orderly
    <3>3. t \in WalkStates /\ SameEvents(u, t) /\ t.left = 0 /\ t.is = u.is /\ t.stranded = u.stranded
      BY <3>2 DEF WalkStates, SameEvents
    <3>4. clear = t
      BY <2>1 DEF u
    <3> HIDE DEF t
    <3>5. Orderly(t) /\ Carries(u, t)
      BY <3>1, <3>3, SameEventsCarry DEF Keeps, Leads, Sound, Orderly
    <3>6. Sound(t)
      BY <3>3, <3>5 DEF Sound, StepIsAlone
    <3>7. Keeps(u, t)
      BY <3>5, <3>6, CarriesSound
    <3>8. Keeps(alone, t)
      BY <3>1, <3>7, KeepsTwice
    <3> QED BY <3>4, <3>8, Zenon
  <2>2. CASE ~(alone.left > 0)
    BY <1>2, <2>2, KeepsItself
  <2> QED BY <2>1, <2>2
<1> DEFINE v == Walk!Now(clear, "following")
           w == Walk!NoMore(v, "pathed")
<1>4. Keeps(clear, v)
  BY <1>3, NowKeeps DEF Keeps, Leads, Conditions
<1> HIDE DEF v
<1>5. Carries(v, w) /\ Sound(w)
  BY <1>4, NoMoreCarries DEF Keeps, Leads
<1> HIDE DEF w
<1>6. Keeps(v, w)
  BY <1>5, CarriesSound
<1>7. Keeps(s, w)
  BY <1>1, <1>3, <1>4, <1>6, KeepsTwice
<1> QED BY <1>1, <1>7 DEF w, v

LEMMA WalkStepKeeps ==
  ASSUME WalkInv, Walk!Next
  PROVE  WalkInv'
<1> DEFINE s == Walk!State
<1>1. /\ s.left = x1 /\ s.walkTask = x2 /\ s.events = x4 /\ s.posted = x5 /\ s.is = x6
  BY DEF Walk!State
<1>2. s \in WalkStates /\ FewWalks(s)
  BY DEF WalkInv
<1>3. CASE Walk!InGame
  <2>0. Settled(s) /\ Sound(s)
    BY <1>3 DEF WalkInv, Walk!InGame, Settled
  <2>1. ASSUME NEW t, KeepsOrAdds(s, t), Walk!Become(t)
        PROVE  WalkInv'
    <3>1. Settled(t)
      BY <2>0, <2>1, AddsSettles
    <3> QED BY <2>1, <3>1, BecomeKeeps
  <2>2. ASSUME NEW t, Keeps(s, t), Walk!Become(t)
        PROVE  WalkInv'
    BY <2>1, <2>2, KeepsMayAdd
  <2>3. CASE Walk!Request
    <3>1. PICK t \in Walk!Requested(s) : Walk!Become(t)
      BY <2>3 DEF Walk!Request, Walk!Packet
    <3> HIDE DEF s
    <3>2. KeepsOrAdds(s, t)
      BY <2>0, RequestedKeeps
    <3> QED BY <2>1, <3>1, <3>2
  <2>4. CASE Walk!PushThing
    <3>1. Walk!Become(Walk!SetNextActionTask(s, TRUE))
      BY <2>4 DEF Walk!PushThing, Walk!Packet, Walk!Wait
    <3> HIDE DEF s
    <3>2. KeepsOrAdds(s, Walk!SetNextActionTask(s, TRUE))
      BY <2>0, SetNextMayAdd
    <3> QED BY <2>1, <3>1, <3>2
  <2>5. CASE Walk!Step
    <3>1. PICK t \in Walk!PlayerMove(s) : Walk!Become(t)
      BY <2>5 DEF Walk!Step, Walk!Packet
    <3> HIDE DEF s
    <3>2. KeepsOrAdds(s, t)
      BY <1>2, <2>0, PlayerMoveKeeps
    <3> QED BY <2>1, <3>1, <3>2
  <2>6. CASE Walk!StopAutoWalk
    <3>1. Walk!Become(Walk!StopWalk(s))
      BY <2>6 DEF Walk!StopAutoWalk, Walk!Packet
    <3> HIDE DEF s
    <3>2. Keeps(s, Walk!StopWalk(s))
      BY <2>0, StopWalkKeeps
    <3> QED BY <2>2, <3>1, <3>2
  <2>7. CASE Walk!CancelAttackAndFollow \/ Walk!TargetLost
    <3>1. Walk!Become(Walk!FollowNobody(s))
      BY <2>7 DEF Walk!CancelAttackAndFollow, Walk!TargetLost, Walk!Packet
    <3> HIDE DEF s
    <3>2. Keeps(s, Walk!FollowNobody(s))
      BY <2>0, FollowNobodyKeeps
    <3> QED BY <2>2, <3>1, <3>2
  <2>8. CASE Walk!FollowCreature
    <3> DEFINE alone == Walk!FollowNobody(s)
               clear == IF alone.left > 0
                          THEN [Walk!SetNextWalkActionTask(alone, FALSE) EXCEPT !.left = 0]
                          ELSE alone
               next == Walk!NoMore(Walk!Now(clear, "following"), "pathed")
    <3>1. Walk!Become(alone) \/ Walk!Become(next)
      BY <2>8 DEF Walk!FollowCreature, Walk!Packet
    <3> HIDE DEF s
    <3>2. Keeps(s, alone) /\ Keeps(s, next)
      BY <2>0, FollowCreatureKeeps
    <3> HIDE DEF alone, next
    <3> QED BY <2>2, <3>1, <3>2
  <2>9. ASSUME NEW n \in 1 .. MaxSteps, Walk!AutoWalk(n)
        PROVE  WalkInv'
    <3>1. PICK t \in Walk!PlayerAutoWalk(s, n) : Walk!Become(t)
      BY <2>9 DEF Walk!AutoWalk, Walk!Packet
    <3> HIDE DEF s
    <3>2. KeepsOrAdds(s, t)
      BY <1>2, <2>0, PlayerAutoWalkKeeps
    <3> QED BY <2>1, <3>1, <3>2
  <2>10. ASSUME NEW n \in 1 .. MaxSteps, Walk!Steer(n)
         PROVE  WalkInv'
    <3>1. Walk!Become(Walk!Steered(s, n))
      BY <2>10 DEF Walk!Steer, Walk!Packet
    <3> HIDE DEF s
    <3>2. KeepsOrAdds(s, Walk!Steered(s, n))
      BY <1>2, <2>0, SteeredKeeps
    <3> QED BY <2>1, <3>1, <3>2
  <2>11. CASE Walk!Think
    <3>1. PICK t \in Walk!Pursue(s) \cup Walk!DoAttacking(s) : Walk!Become(t)
      BY <2>11 DEF Walk!Think, Walk!Packet
    <3> HIDE DEF s
    <3>2. KeepsOrAdds(s, t)
      BY <1>2, <2>0, <3>1, PursueKeeps, RequestedKeeps
    <3> QED BY <2>1, <3>1, <3>2
  <2>12. CASE Walk!TakePosted
    <3> DEFINE task == Head(x5)
               u == [s EXCEPT !.posted = Tail(@)]
    <3>1. /\ s.posted # <<>>
          /\ \E t \in IF task[1] = "walk" THEN Walk!PlayerAutoWalk(u, task[2]) ELSE Walk!Pursue(u) :
               Walk!Become(t)
      BY <1>1, <2>12 DEF Walk!TakePosted
    <3>2. task = Head(s.posted)
      BY <1>1
    <3> HIDE DEF s, u, task
    <3>3. PICK t \in IF task[1] = "walk" THEN Walk!PlayerAutoWalk(u, task[2]) ELSE Walk!Pursue(u) :
            Walk!Become(t)
      BY <3>1
    <3>4. u = [s EXCEPT !.posted = Tail(@)]
      BY DEF u
    <3>5. Settled(t)
      BY <1>2, <2>0, <3>1, <3>2, <3>3, <3>4, TakePostedSettles
    <3> QED BY <3>3, <3>5, BecomeKeeps
  <2>13. ASSUME NEW e \in x4, Walk!EventIsDue(e)
         PROVE  WalkInv'
    <3> DEFINE u == [s EXCEPT !.events = @ \ {e}]
    <3>1. \E t \in CASE e.kind = "walk" -> Walk!OnWalk(u)
                     [] e.kind = "step" -> Walk!PlayerMove(u)
                     [] OTHER -> Walk!Requested(u) \cup Walk!DoAttacking(u) : Walk!Become(t)
      BY <2>13 DEF Walk!EventIsDue
    <3>2. e \in s.events
      BY <1>1
    <3> HIDE DEF s
    <3>3. CASE e.kind = "walk"
      <4>1. PICK t \in Walk!OnWalk(u) : Walk!Become(t)
        BY <3>1, <3>3
      <4>2. Settled(t)
        BY <1>2, <2>0, <3>2, <3>3, OnWalkSettles DEF Settled
      <4> QED BY <4>1, <4>2, BecomeKeeps
    <3>4. CASE e.kind # "walk"
      <4>1. Keeps(s, u) /\ Sound(u) /\ FewWalks(u)
        BY <1>2, <2>0, <3>2, <3>4, TakenKeeps
      <4>2. PICK t \in Walk!PlayerMove(u) \cup Walk!Requested(u) \cup Walk!DoAttacking(u) : Walk!Become(t)
        <5>1. CASE e.kind = "step"
          BY <3>1, <5>1
        <5>2. CASE e.kind # "step"
          BY <3>1, <3>4, <5>2
        <5> QED BY <5>1, <5>2
      <4> HIDE DEF u
      <4>3. KeepsOrAdds(u, t)
        BY <4>1, <4>2, PlayerMoveKeeps, RequestedKeeps
      <4>4. KeepsOrAdds(s, t)
        BY <4>1, <4>3, KeepsThenAdds
      <4> QED BY <2>1, <4>2, <4>4
    <3> QED BY <3>3, <3>4
  <2>14. CASE Walk!TargetMoves
    <3> DEFINE u == Walk!Post(s, <<"update">>)
    <3>1. Walk!Become(u) \/ Walk!Become(Walk!FollowNobody(u))
      BY <2>14 DEF Walk!TargetMoves, Walk!Packet
    <3> HIDE DEF s
    <3>2. Keeps(s, u)
      BY <2>0, PostKeeps DEF Errands
    <3> HIDE DEF u
    <3>3. Keeps(u, Walk!FollowNobody(u))
      BY <3>2, FollowNobodyKeeps DEF Keeps, Leads
    <3>4. Keeps(s, Walk!FollowNobody(u))
      BY <3>2, <3>3, KeepsTwice
    <3> QED BY <2>2, <3>1, <3>2, <3>4
  <2>15. CASE Walk!Teleported
    <3> DEFINE u == Walk!StopEventWalk(s)
    <3>1. Walk!Become(Walk!Now(u, "resting"))
      BY <2>15 DEF Walk!Teleported, Walk!Packet
    <3> HIDE DEF s
    <3>2. Keeps(s, u)
      BY <2>0, StopEventWalkKeeps DEF Sound
    <3> HIDE DEF u
    <3>3. Keeps(u, Walk!Now(u, "resting"))
      BY <3>2, NowKeeps DEF Keeps, Leads, Conditions
    <3>4. Keeps(s, Walk!Now(u, "resting"))
      BY <3>2, <3>3, KeepsTwice
    <3> QED BY <2>2, <3>1, <3>4
  <2>16. CASE Walk!SetNoMove \/ Walk!Rested \/ Walk!Ready
    <3>1. \/ \E what \in {"rooted", "resting", "busy"} : Walk!Become(Walk!NoMore(s, what))
          \/ Walk!Become(Walk!Now(s, "rooted"))
      BY <2>16 DEF Walk!SetNoMove, Walk!Rested, Walk!Ready, Walk!Packet
    <3> HIDE DEF s
    <3>2. ASSUME NEW what \in {"rooted", "resting", "busy"}
          PROVE  Keeps(s, Walk!NoMore(s, what))
      <4>1. Carries(s, Walk!NoMore(s, what)) /\ Sound(Walk!NoMore(s, what))
        BY <2>0, NoMoreCarries
      <4> QED BY <4>1, CarriesSound
    <3>3. Keeps(s, Walk!Now(s, "rooted"))
      BY <2>0, NowKeeps DEF Conditions
    <3> QED BY <2>2, <3>1, <3>2, <3>3
  <2>17. CASE Walk!SetSpeed
    <3>1. \/ Walk!Become(Walk!StopEventWalk(s)) \/ Walk!Become(s)
          \/ Walk!Become(Walk!AddEventWalk(s))
      BY <2>17 DEF Walk!SetSpeed, Walk!Packet
    <3> HIDE DEF s
    <3>2. Keeps(s, s) /\ Keeps(s, Walk!StopEventWalk(s))
      BY <2>0, KeepsItself, StopEventWalkKeeps DEF Sound
    <3>3. KeepsOrAdds(s, Walk!AddEventWalk(s))
      BY <1>2, <2>0, AddEventWalkKeeps DEF Sound, KeepsOrAdds, Leads
    <3> QED BY <2>1, <2>2, <3>1, <3>2, <3>3
  <2>18. CASE Walk!Disappear
    <3> DEFINE t == [s EXCEPT !.left = 0, !.walkTask = FALSE,
                              !.eventOf = [k \in Walk!EventKinds |-> 0],
                              !.events = {}, !.posted = <<>>, !.is = {"removed"}]
    <3>1. Walk!Become(t)
      BY <2>18 DEF Walk!Disappear
    <3> HIDE DEF s
    <3>2. /\ t.left = 0 /\ ~t.walkTask /\ t.events = {} /\ t.posted = <<>> /\ "removed" \in t.is
          /\ t \in WalkStates
      <4>1. /\ 0 \in 0 .. MaxSteps /\ [k \in Walk!EventKinds |-> 0] \in [Walk!EventKinds -> 0 .. (MaxWalks + 2)]
            /\ <<>> \in Seq(Errands) /\ {"removed"} \in SUBSET Conditions
        BY FourKinds DEF Conditions
      <4> QED BY <1>2, <4>1 DEF WalkStates
    <3> HIDE DEF t
    <3> QED BY <3>1, <3>2, BecomeGone
  <2> QED
    BY <2>3, <2>4, <2>5, <2>6, <2>7, <2>8, <2>9, <2>10, <2>11, <2>12, <2>13, <2>14, <2>15,
       <2>16, <2>17, <2>18 DEF Walk!Next
<1>4. CASE ~Walk!InGame
  <2>1. "removed" \in x6 /\ x1 = 0 /\ ~x2 /\ x4 = {} /\ x5 = <<>>
    BY <1>4 DEF WalkInv, Walk!InGame
  <2>2. Walk!Rested \/ Walk!Ready
    BY <1>4, <2>1 DEF Walk!Next, Walk!Request, Walk!PushThing, Walk!Step, Walk!StopAutoWalk,
       Walk!CancelAttackAndFollow, Walk!FollowCreature, Walk!AutoWalk, Walk!Steer, Walk!Think,
       Walk!TakePosted, Walk!TargetMoves, Walk!TargetLost, Walk!Teleported, Walk!SetNoMove,
       Walk!SetSpeed, Walk!Disappear, Walk!Packet
  <2>3. PICK what \in {"resting", "busy"} : Walk!Become(Walk!NoMore(s, what))
    BY <2>2 DEF Walk!Rested, Walk!Ready
  <2> DEFINE t == Walk!NoMore(s, what)
  <2> HIDE DEF s
  <2>4. /\ t.left = x1 /\ t.walkTask = x2 /\ t.events = x4 /\ t.posted = x5
        /\ t.is = x6 \ {what} /\ t \in WalkStates
    BY <1>1, <1>2 DEF WalkStates, Walk!NoMore
  <2>5. "removed" \in t.is /\ t.left = 0 /\ ~t.walkTask /\ t.events = {} /\ t.posted = <<>>
    BY <2>1, <2>4, Zenon
  <2> HIDE DEF t
  <2> QED BY <2>3, <2>4, <2>5, BecomeGone DEF t
<1> QED BY <1>3, <1>4

LEMMA WalkInvStutters ==
  ASSUME WalkInv, Untouched
  PROVE  WalkInv'
<1>1. UNCHANGED <<x1, x2, x3, x4, x5, x6, x7, x8>>
  BY DEF Untouched
<1>2. (Walk!State)' = Walk!State
  BY <1>1 DEF Walk!State
<1> QED BY <1>1, <1>2 DEF WalkInv

LEMMA WalkInvIsEnough ==
  ASSUME WalkInv
  PROVE  /\ Walk!TypeOK /\ Walk!LatestRequestOnly /\ Walk!WalkGoesOn /\ Walk!RequestHasWalk
         /\ Walk!StepOrWalk
<1> DEFINE s == Walk!State
<1>1. /\ s.left = x1 /\ s.walkTask = x2 /\ s.eventOf = x3 /\ s.events = x4 /\ s.posted = x5
      /\ s.is = x6 /\ s.stranded = x7 /\ s.doubled = x8
  BY DEF Walk!State
<1>2. s \in WalkStates /\ x1 \in Nat
  BY <1>1, FourKinds DEF WalkInv, WalkStates
<1>3. Walk!TypeOK
  BY <1>1, <1>2 DEF WalkStates, Walk!TypeOK, WalkNumbers, Conditions
<1>4. CASE "removed" \in x6
  <2>1. x1 = 0 /\ ~x2 /\ x4 = {} /\ x5 = <<>> /\ ~Walk!InGame
    BY <1>4 DEF WalkInv, Walk!InGame
  <2> QED BY <1>3, <2>1 DEF Walk!LatestRequestOnly, Walk!WalkGoesOn, Walk!RequestHasWalk,
                            Walk!StepOrWalk, Walk!Of
<1>5. CASE "removed" \notin x6
  <2>1. Sound(s) /\ WalkIsScheduled(s) /\ TaskHasWalk(s)
    BY <1>5 DEF WalkInv
  <2>2. Walk!Of(s, "arrival") = {} <=> NoneOf(s, "arrival")
    BY DEF Walk!Of, NoneOf
  <2>3. Walk!Of(s, "step") = {} <=> NoneOf(s, "step")
    BY DEF Walk!Of, NoneOf
  <2>4. Walk!LatestRequestOnly
    BY <1>1, <2>1, <2>2 DEF Sound, Orderly, Stoppable, Walk!LatestRequestOnly
  <2>5. Walk!WalkGoesOn
    <3>1. x1 > 0 /\ "steps" \notin x7 => \E e \in s.events : e.kind = "walk" /\ e.id = x3["walk"]
      BY <1>1, <1>2, <2>1 DEF Sound, WalkIsScheduled
    <3> QED BY <3>1 DEF Walk!WalkGoesOn, Walk!Of
  <2>6. Walk!RequestHasWalk
    BY <1>1, <2>1 DEF TaskHasWalk, WalkIsPosted, Walk!RequestHasWalk
  <2>7. Walk!StepOrWalk
    BY <1>1, <1>2, <2>1, <2>3 DEF Sound, StepIsAlone, Walk!StepOrWalk
  <2> QED BY <1>3, <2>4, <2>5, <2>6, <2>7
<1> QED BY <1>4, <1>5
-----------------------------------------------------------------------------
(* Spawns.  A monster is an object exactly as long as the list or the game *)
(* has a reference to it; the game has one to every living one.            *)
Alive == {"inside", "outside"}

(* What a monster is to the spawn: listed under k, st, sp, rc, hd are its  *)
(* state, whether it knows the spawn, its references and whether the game  *)
(* holds one.                                                              *)
Accounted(k, st, sp, rc, hd) ==
  /\ rc = (IF k # None THEN 1 ELSE 0) + (IF hd THEN 1 ELSE 0)
  /\ rc = 0 <=> st = None
  /\ st \in Alive => hd
  /\ k # None => sp
  /\ sp => k # None \/ st = "removed"

MonstersAccounted ==
  \A m \in Monsters : Accounted(x2[m], x3[m], m \in x4, x5[m], m \in x6)
OneInABlock ==
  \A l, m \in Monsters : x2[l] = x2[m] /\ x2[l] \notin {0, None} => l = m
NothingBeforeStart == ~x1 => ~x8 /\ \A m \in Monsters : x2[m] = None
DeadAreSought == \A m \in Monsters : x2[m] # None /\ x3[m] = "removed" => x8

SpawnTypes ==
  /\ x1 \in BOOLEAN /\ x8 \in BOOLEAN /\ x9 \in Nat
  /\ x2 \in [Monsters -> 0 .. BlockCount \cup {None}]
  /\ x3 \in [Monsters -> {None, "inside", "outside", "removed"}]
  /\ x4 \subseteq Monsters /\ x6 \subseteq Monsters
  /\ x5 \in [Monsters -> 0 .. 2]
  /\ x7 \subseteq 1 .. BlockCount

SpawnInv ==
  /\ SpawnTypes
  /\ MonstersAccounted /\ OneInABlock /\ NothingBeforeStart /\ DeadAreSought
  /\ Spawn!EmptyBlockIsWatched

LEMMA SpawnConstants ==
  /\ BlockCount \in Nat /\ IsFiniteSet(Monsters)
  /\ None \notin 0 .. BlockCount /\ None \notin {"inside", "outside", "removed"}
  /\ IsFiniteSet(1 .. BlockCount) /\ Cardinality(1 .. BlockCount) = BlockCount
<1>1. Spawn!IsFiniteSet(Monsters) /\ BlockCount \in Nat
  BY PartsAssumption DEF Spawn!SpawnAssumption
<1>2. IsFiniteSet(Monsters)
  BY <1>1, Zenon DEF IsFiniteSet, Spawn!IsFiniteSet
<1>3. None \notin 0 .. BlockCount \cup {"inside", "outside", "removed"}
  BY PartsAssumption DEF Spawn!SpawnAssumption
<1>4. IsFiniteSet(1 .. BlockCount) /\ Cardinality(1 .. BlockCount) = BlockCount
  BY <1>1, FS_Interval
<1> QED BY <1>1, <1>2, <1>3, <1>4

LEMMA SameSpawnCount ==
  ASSUME NEW S
  PROVE  Spawn!Cardinality(S) = Cardinality(S)
BY Zenon DEF Cardinality, Spawn!Cardinality

(* The blocks without a living monster, the strays and the listed, of any  *)
(* list and states.                                                        *)
EmptyBlocks(k, st) == {b \in 1 .. BlockCount : \A m \in Monsters : k[m] = b => st[m] = "removed"}
StraysOf(k) == {m \in Monsters : k[m] = 0}
ListedIn(k) == {m \in Monsters : k[m] # None}

LEMMA SpawnCounts ==
  ASSUME NEW k, NEW st
  PROVE  /\ IsFiniteSet(EmptyBlocks(k, st)) /\ Cardinality(EmptyBlocks(k, st)) \in Nat
         /\ IsFiniteSet(StraysOf(k)) /\ Cardinality(StraysOf(k)) \in Nat
         /\ IsFiniteSet(ListedIn(k)) /\ Cardinality(ListedIn(k)) \in Nat
<1>1. /\ EmptyBlocks(k, st) \subseteq 1 .. BlockCount
      /\ StraysOf(k) \subseteq Monsters /\ ListedIn(k) \subseteq Monsters
  BY DEF EmptyBlocks, StraysOf, ListedIn
<1>2. IsFiniteSet(EmptyBlocks(k, st))
  BY <1>1, SpawnConstants, FS_Subset
<1>3. IsFiniteSet(StraysOf(k)) /\ IsFiniteSet(ListedIn(k))
  BY <1>1, SpawnConstants, FS_Subset
<1> QED BY <1>2, <1>3, FS_CardinalityType

LEMMA WatchedIs ==
  Spawn!EmptyBlockIsWatched <=>
    (x1 /\ ~x8 => Cardinality(EmptyBlocks(x2, x3)) <= Cardinality(StraysOf(x2)) + x9)
<1>1. Spawn!Empty = EmptyBlocks(x2, x3) /\ Spawn!Strays = StraysOf(x2)
  BY DEF Spawn!Empty, Spawn!Strays, EmptyBlocks, StraysOf, Spawn!Blocks
<1>2. /\ Spawn!Cardinality(EmptyBlocks(x2, x3)) = Cardinality(EmptyBlocks(x2, x3))
      /\ Spawn!Cardinality(StraysOf(x2)) = Cardinality(StraysOf(x2))
  BY SameSpawnCount
<1> QED BY <1>1, <1>2 DEF Spawn!EmptyBlockIsWatched

LEMMA WatchedIsNext ==
  Spawn!EmptyBlockIsWatched' <=>
    (x1' /\ ~x8' => Cardinality(EmptyBlocks(x2', x3')) <= Cardinality(StraysOf(x2')) + x9')
<1>1. (Spawn!Empty)' = EmptyBlocks(x2', x3') /\ (Spawn!Strays)' = StraysOf(x2')
  BY DEF Spawn!Empty, Spawn!Strays, EmptyBlocks, StraysOf, Spawn!Blocks
<1>2. /\ Spawn!Cardinality(EmptyBlocks(x2', x3')) = Cardinality(EmptyBlocks(x2', x3'))
      /\ Spawn!Cardinality(StraysOf(x2')) = Cardinality(StraysOf(x2'))
  BY SameSpawnCount
<1> QED BY <1>1, <1>2 DEF Spawn!EmptyBlockIsWatched

(* When as many are listed as there are blocks, and all of them live and   *)
(* each block has one at most, the empty blocks are no more than strays.   *)
LEMMA FullListMakesUp ==
  ASSUME NEW k \in [Monsters -> 0 .. BlockCount \cup {None}], NEW st,
         \A m \in Monsters : k[m] # None => st[m] # "removed",
         \A l, m \in Monsters : k[l] = k[m] /\ k[l] \notin {0, None} => l = m,
         Cardinality(ListedIn(k)) >= BlockCount
  PROVE  Cardinality(EmptyBlocks(k, st)) <= Cardinality(StraysOf(k))
<1> DEFINE E == EmptyBlocks(k, st)
           S == StraysOf(k)
           L == ListedIn(k)
           W == L \ S
           B == 1 .. BlockCount
           f == [m \in W |-> k[m]]
<1>1. f \in [W -> B \ E]
  <2>1. ASSUME NEW m \in W
        PROVE  k[m] \in B \ E
    <3>1. m \in Monsters /\ k[m] # None /\ k[m] # 0
      BY DEF ListedIn, StraysOf
    <3>2. k[m] \in B
      BY <3>1, SpawnConstants
    <3>3. k[m] \notin E
      BY <3>1 DEF EmptyBlocks
    <3> QED BY <3>2, <3>3
  <2> QED BY <2>1
<1>2. ASSUME NEW l \in W, NEW m \in W, f[l] = f[m]
      PROVE  l = m
  <2>1. k[l] = k[m]
    BY <1>2
  <2>2. l \in Monsters /\ m \in Monsters /\ k[l] # None /\ k[l] # 0
    BY DEF ListedIn, StraysOf
  <2> QED BY <2>1, <2>2
<1>3. /\ IsFiniteSet(E) /\ Cardinality(E) \in Nat /\ IsFiniteSet(S) /\ Cardinality(S) \in Nat
      /\ IsFiniteSet(L) /\ Cardinality(L) \in Nat /\ E \subseteq B /\ S \subseteq L
  <2>1. E \subseteq B
    BY DEF EmptyBlocks
  <2>2. S \subseteq L
    BY SpawnConstants DEF StraysOf, ListedIn
  <2> QED BY <2>1, <2>2, SpawnCounts
<1>4. f \in Injection(W, B \ E)
  <2> HIDE DEF f, W, E
  <2> QED BY <1>1, <1>2 DEF Injection, IsInjective
<1>10. Cardinality(L) >= BlockCount
  OBVIOUS
<1> HIDE DEF f, E, S, L
<1>5. /\ IsFiniteSet(B \ E)
      /\ Cardinality(B \ E) = Cardinality(B) - Cardinality(B \cap E)
  BY SpawnConstants, FS_Difference
<1>6. /\ IsFiniteSet(W)
      /\ Cardinality(W) = Cardinality(L) - Cardinality(L \cap S)
  BY <1>3, FS_Difference
<1>7. B \cap E = E /\ L \cap S = S
  BY <1>3
<1>8. Cardinality(W) <= Cardinality(B \ E)
  <2> HIDE DEF W, B
  <2> QED BY <1>4, <1>5, FS_Injection
<1>9. Cardinality(E) <= Cardinality(S)
  <2>1. Cardinality(B) = BlockCount /\ BlockCount \in Nat
    BY SpawnConstants
  <2>2. Cardinality(W) = Cardinality(L) - Cardinality(S)
    BY <1>6, <1>7
  <2>3. Cardinality(B \ E) = BlockCount - Cardinality(E)
    BY <1>5, <1>7, <2>1
  <2> HIDE DEF W, B
  <2> QED BY <1>3, <1>8, <1>10, <2>1, <2>2, <2>3
<1> QED BY <1>9 DEF E, S
-----------------------------------------------------------------------------
(* Spawns: one step.                                                       *)
LEMMA SpawnInit ==
  ASSUME Spawn!Init
  PROVE  SpawnInv
<1>1. OneInABlock /\ NothingBeforeStart /\ DeadAreSought
  BY SpawnConstants DEF Spawn!Init, OneInABlock, NothingBeforeStart, DeadAreSought
<1>4. SpawnTypes
  <2>1. /\ x2 \in [Monsters -> 0 .. BlockCount \cup {None}]
        /\ x3 \in [Monsters -> {None, "inside", "outside", "removed"}]
    BY DEF Spawn!Init
  <2>2. x5 \in [Monsters -> 0 .. 2]
    BY DEF Spawn!Init
  <2> QED BY <2>1, <2>2 DEF Spawn!Init, Spawn!Blocks, SpawnTypes
<1>2. MonstersAccounted
  BY SpawnConstants DEF Spawn!Init, MonstersAccounted, Accounted, Alive
<1>3. Spawn!EmptyBlockIsWatched
  BY DEF Spawn!Init, Spawn!EmptyBlockIsWatched
<1> QED BY <1>1, <1>2, <1>3, <1>4 DEF SpawnInv

(* What the spawn brings: to each block of D a new monster.               *)
Brings(k, st, rc, D, f, s) ==
  /\ s.key = [m \in Monsters |-> s.key[m]]
  /\ s.state = [m \in Monsters |-> s.state[m]]
  /\ s.refs = [m \in Monsters |-> s.refs[m]]
  /\ s.new \subseteq Monsters
  /\ \A m \in s.new :
       st[m] = None /\ s.key[m] \in D /\ s.state[m] = "inside" /\ s.refs[m] = 2
  /\ \A m \in Monsters \ s.new : s.key[m] = k[m] /\ s.state[m] = st[m] /\ s.refs[m] = rc[m]
  /\ \A b \in D : f[b] \in s.new /\ s.key[f[b]] = b
  /\ \A l, m \in s.new : s.key[l] = s.key[m] => l = m

LEMMA SpawnedBrings ==
  ASSUME NEW D, NEW f \in [D -> {m \in Monsters : x3[m] = None}],
         \A a, b \in D : f[a] = f[b] => a = b,
         NEW k, NEW st, NEW rc, \A m \in Monsters : x3[m] = None => st[m] = None
  PROVE  Brings(k, st, rc, D, f, Spawn!Spawned(k, st, rc, f))
<1> DEFINE s == Spawn!Spawned(k, st, rc, f)
           new == {f[b] : b \in D}
           of(m) == CHOOSE b \in D : f[b] = m
<1>1. new \subseteq Monsters /\ (\A m \in new : st[m] = None) /\ DOMAIN f = D
  OBVIOUS
<1>2. /\ s.new = new
      /\ s.key = [m \in Monsters |-> IF m \in new THEN of(m) ELSE k[m]]
      /\ s.state = [m \in Monsters |-> IF m \in new THEN "inside" ELSE st[m]]
      /\ s.refs = [m \in Monsters |-> IF m \in new THEN 2 ELSE rc[m]]
  BY <1>1 DEF Spawn!Spawned
<1>3. \A m \in new : of(m) \in D /\ f[of(m)] = m
  OBVIOUS
<1>4. \A b \in D : f[b] \in new /\ of(f[b]) = b
  BY <1>3
<1> HIDE DEF new, of, s
<1>5. \A m \in new : s.key[m] = of(m) /\ s.state[m] = "inside" /\ s.refs[m] = 2
  BY <1>1, <1>2
<1>6. \A m \in Monsters \ new : s.key[m] = k[m] /\ s.state[m] = st[m] /\ s.refs[m] = rc[m]
  BY <1>2
<1>7. \A b \in D : f[b] \in s.new /\ s.key[f[b]] = b
  BY <1>2, <1>4, <1>5
<1>8. \A l, m \in new : s.key[l] = s.key[m] => l = m
  BY <1>3, <1>5
<1>9. /\ s.key = [m \in Monsters |-> s.key[m]]
      /\ s.state = [m \in Monsters |-> s.state[m]]
      /\ s.refs = [m \in Monsters |-> s.refs[m]]
  BY <1>2
<1>10. \A m \in s.new : st[m] = None /\ s.key[m] \in D /\ s.state[m] = "inside" /\ s.refs[m] = 2
  BY <1>1, <1>2, <1>3, <1>5
<1>11. Brings(k, st, rc, D, f, s)
  BY <1>1, <1>2, <1>6, <1>7, <1>8, <1>9, <1>10 DEF Brings
<1> QED BY <1>11 DEF s

LEMMA StartupKeeps ==
  ASSUME SpawnInv, Spawn!Startup
  PROVE  SpawnInv'
<1>0. PICK D \in SUBSET (1 .. BlockCount) : \E f \in Spawn!Bearers(D) :
        LET s == Spawn!Spawned(x2, x3, x5, f) IN
        /\ x2' = s.key /\ x3' = s.state /\ x5' = s.refs
        /\ x4' = x4 \cup s.new /\ x6' = x6 \cup s.new /\ x7' = x7 \ D
        /\ x9' = Spawn!Cardinality((1 .. BlockCount) \ D)
  BY DEF Spawn!Startup, Spawn!Blocks
<1>1. PICK f \in Spawn!Bearers(D) :
        LET s == Spawn!Spawned(x2, x3, x5, f) IN
        /\ x2' = s.key /\ x3' = s.state /\ x5' = s.refs
        /\ x4' = x4 \cup s.new /\ x6' = x6 \cup s.new /\ x7' = x7 \ D
        /\ x9' = Spawn!Cardinality((1 .. BlockCount) \ D)
  BY <1>0
<1>2. ~x1 /\ x1' = TRUE /\ x8' = x8 /\ ~x8 /\ \A m \in Monsters : x2[m] = None
  BY DEF Spawn!Startup, SpawnInv, NothingBeforeStart
<1> DEFINE s == Spawn!Spawned(x2, x3, x5, f)
           new == s.new
<1>3. f \in [D -> {m \in Monsters : x3[m] = None}] /\ \A a, b \in D : f[a] = f[b] => a = b
  BY DEF Spawn!Bearers, Spawn!Free
<1>4. Brings(x2, x3, x5, D, f, s)
  BY <1>3, SpawnedBrings
<1> HIDE DEF s
<1>5. /\ new \subseteq Monsters
      /\ x4' = x4 \cup new /\ x6' = x6 \cup new /\ x7' = x7 \ D
      /\ \A m \in Monsters \ new : x2'[m] = None /\ x3'[m] = x3[m] /\ x5'[m] = x5[m]
      /\ \A m \in new : x2'[m] \in D /\ x3'[m] = "inside" /\ x5'[m] = 2
      /\ \A b \in D : f[b] \in new /\ x2'[f[b]] = b
      /\ \A l, m \in new : x2'[l] = x2'[m] => l = m
      /\ x2' = [m \in Monsters |-> x2'[m]] /\ x3' = [m \in Monsters |-> x3'[m]]
      /\ x5' = [m \in Monsters |-> x5'[m]]
  BY <1>1, <1>2, <1>4 DEF Brings, s
<1> HIDE DEF new
<1>6. /\ IsFiniteSet((1 .. BlockCount) \ D) /\ x9' = Cardinality((1 .. BlockCount) \ D) /\ x9' \in Nat
  BY <1>1, SameSpawnCount, SpawnConstants, FS_Subset, FS_CardinalityType
<1>7. SpawnTypes'
  <2>1. SpawnTypes
    BY DEF SpawnInv
  <2>2. x2' \in [Monsters -> 0 .. BlockCount \cup {None}]
    <3>1. \A m \in Monsters : x2'[m] \in 0 .. BlockCount \cup {None}
      BY <1>5, SpawnConstants
    <3> QED BY <1>5, <3>1
  <2>3. x3' \in [Monsters -> {None, "inside", "outside", "removed"}] /\ x5' \in [Monsters -> 0 .. 2]
    <3>1. \A m \in Monsters : x3'[m] \in {None, "inside", "outside", "removed"} /\ x5'[m] \in 0 .. 2
      BY <1>5, <2>1 DEF SpawnTypes
    <3> QED BY <1>5, <3>1
  <2> QED BY <1>2, <1>5, <1>6, <2>1, <2>2, <2>3 DEF SpawnTypes
<1>8. MonstersAccounted'
  <2> SUFFICES ASSUME NEW m \in Monsters
               PROVE  Accounted(x2'[m], x3'[m], m \in x4', x5'[m], m \in x6')
    BY DEF MonstersAccounted
  <2>1. Accounted(x2[m], x3[m], m \in x4, x5[m], m \in x6)
    BY DEF SpawnInv, MonstersAccounted
  <2>2. CASE m \in new
    <3>1. x2'[m] # None
      BY <1>5, <2>2, SpawnConstants
    <3> QED BY <1>5, <2>2, <3>1, SpawnConstants DEF Accounted, Alive
  <2>3. CASE m \notin new
    BY <1>2, <1>5, <2>1, <2>3
  <2> QED BY <2>2, <2>3
<1>9. OneInABlock' /\ NothingBeforeStart' /\ DeadAreSought'
  <2>1. OneInABlock'
    BY <1>5 DEF OneInABlock
  <2>2. DeadAreSought'
    BY <1>5 DEF DeadAreSought
  <2> QED BY <1>2, <2>1, <2>2 DEF NothingBeforeStart
<1>10. Spawn!EmptyBlockIsWatched'
  <2>1. EmptyBlocks(x2', x3') \subseteq (1 .. BlockCount) \ D
    BY <1>5 DEF EmptyBlocks
  <2>2. Cardinality(EmptyBlocks(x2', x3')) <= x9'
    BY <1>6, <2>1, FS_Subset
  <2>3. Cardinality(EmptyBlocks(x2', x3')) \in Nat /\ Cardinality(StraysOf(x2')) \in Nat
    BY SpawnCounts
  <2> QED BY <1>6, <2>2, <2>3, WatchedIsNext
<1> QED BY <1>7, <1>8, <1>9, <1>10 DEF SpawnInv

LEMMA CheckSpawnKeeps ==
  ASSUME SpawnInv, Spawn!CheckSpawn
  PROVE  SpawnInv'
<1> DEFINE gone == Spawn!Erased
           swept == [m \in Monsters |->
                       IF m \in gone THEN None
                       ELSE IF x2[m] # None /\ x3[m] = "outside" THEN 0
                       ELSE x2[m]]
           counted == [m \in Monsters |-> IF m \in gone THEN x5[m] - 1 ELSE x5[m]]
           rested == x7 \ {x2[m] : m \in gone}
           wanted == {b \in rested : \A m \in Monsters : swept[m] # b}
           cleaned == Spawn!Deleted(x3, counted)
           Filled(D, f) ==
             LET s == Spawn!Spawned(swept, cleaned, counted, f) IN
             /\ x2' = s.key /\ x3' = s.state /\ x5' = s.refs
             /\ x4' = (x4 \ {m \in gone : counted[m] = 0}) \cup s.new
             /\ x6' = x6 \cup s.new
             /\ x7' \subseteq rested
             /\ x8' = Spawn!NeedsCheck({m \in Monsters : s.key[m] # None})
           Near(seen, b) == Spawn!Cardinality({a \in wanted \ seen : a < b}) < Rate
<1>0. PICK seen \in SUBSET wanted :
        \E placed \in SUBSET {b \in wanted \ seen : Near(seen, b)} :
          \E f \in Spawn!Bearers(placed) :
            LET s == Spawn!Spawned(swept, cleaned, counted, f) IN
            /\ x2' = s.key /\ x3' = s.state /\ x5' = s.refs
            /\ x4' = (x4 \ {m \in gone : counted[m] = 0}) \cup s.new
            /\ x6' = x6 \cup s.new
            /\ x7' = rested \ ({b \in seen : Near(seen, b)} \cup placed)
            /\ x8' = Spawn!NeedsCheck({m \in Monsters : s.key[m] # None})
  BY DEF Spawn!CheckSpawn
<1>1. PICK D \in SUBSET wanted : \E f \in Spawn!Bearers(D) : Filled(D, f)
  <2> HIDE DEF gone, swept, counted, rested, wanted, cleaned, Near
  <2> QED BY <1>0
<1>2. PICK f \in Spawn!Bearers(D) : Filled(D, f)
  BY <1>1
<1>3. x8 /\ x1 /\ x1' = x1 /\ x9' = 0
  BY DEF Spawn!CheckSpawn, SpawnInv, NothingBeforeStart, SpawnTypes
<1>4. SpawnTypes
  BY DEF SpawnInv
<1>5. gone \subseteq Monsters /\ gone = {m \in Monsters : x2[m] # None /\ x3[m] = "removed"}
  BY DEF Spawn!Erased, Spawn!Listed
<1> HIDE DEF gone
<1>6. f \in [D -> {m \in Monsters : x3[m] = None}] /\ \A a, b \in D : f[a] = f[b] => a = b
  BY DEF Spawn!Bearers, Spawn!Free
<1>7. \A m \in Monsters : cleaned[m] = IF counted[m] = 0 THEN None ELSE x3[m]
  BY DEF Spawn!Deleted
<1> DEFINE s == Spawn!Spawned(swept, cleaned, counted, f)
           new == s.new
<1> HIDE DEF cleaned
<1>8. Brings(swept, cleaned, counted, D, f, s)
  <2>1. \A m \in Monsters : x3[m] = None => cleaned[m] = None
    BY <1>7
  <2> HIDE DEF swept, counted
  <2> QED BY <1>6, <2>1, SpawnedBrings
<1>9. /\ x2' = s.key /\ x3' = s.state /\ x5' = s.refs
      /\ x4' = (x4 \ {m \in gone : counted[m] = 0}) \cup new
      /\ x6' = x6 \cup new
      /\ x7' \subseteq rested
      /\ x8' = Spawn!NeedsCheck({m \in Monsters : s.key[m] # None})
  BY <1>2
<1> HIDE DEF s
<1>10. D \subseteq wanted /\ wanted \subseteq 1 .. BlockCount /\ rested \subseteq x7
  BY <1>4 DEF SpawnTypes
<1>11. /\ new \subseteq Monsters
       /\ \A m \in new : x2'[m] \in D /\ x3'[m] = "inside" /\ x5'[m] = 2
       /\ \A m \in Monsters \ new : x2'[m] = swept[m] /\ x3'[m] = cleaned[m] /\ x5'[m] = counted[m]
       /\ \A l, m \in new : x2'[l] = x2'[m] => l = m
       /\ x2' = [m \in Monsters |-> x2'[m]] /\ x3' = [m \in Monsters |-> x3'[m]]
       /\ x5' = [m \in Monsters |-> x5'[m]]
  <2> HIDE DEF swept, counted
  <2> QED BY <1>8, <1>9 DEF Brings
<1>12. /\ \A m \in gone : swept[m] = None /\ counted[m] = x5[m] - 1
       /\ \A m \in Monsters \ gone : swept[m] \in {x2[m], 0} /\ counted[m] = x5[m]
       /\ \A m \in Monsters \ gone : x2[m] = None => swept[m] = None
       /\ \A m \in Monsters \ gone : x2[m] # None => swept[m] # None
       /\ \A m \in Monsters : swept[m] \notin {0, None} => swept[m] = x2[m]
  BY <1>5, SpawnConstants
<1>13. \A m \in Monsters, b \in D : swept[m] # b
  BY <1>10
<1> HIDE DEF new, swept, counted, rested, wanted
<1>14. \A m \in Monsters : Accounted(x2[m], x3[m], m \in x4, x5[m], m \in x6)
  BY DEF SpawnInv, MonstersAccounted
<1>15. SpawnTypes'
  <2>1. \A m \in Monsters : x2'[m] \in 0 .. BlockCount \cup {None}
    <3> TAKE m \in Monsters
    <3>1. x2[m] \in 0 .. BlockCount \cup {None}
      BY <1>4 DEF SpawnTypes
    <3> QED BY <1>10, <1>11, <1>12, <3>1, SpawnConstants
  <2>2. \A m \in Monsters : x5'[m] \in 0 .. 2
    <3> TAKE m \in Monsters
    <3>1. x5[m] \in 0 .. 2 /\ (m \in gone => x5[m] # 0)
      BY <1>4, <1>5, <1>14 DEF SpawnTypes, Accounted
    <3> QED BY <1>11, <1>12, <3>1
  <2>3. \A m \in Monsters : x3'[m] \in {None, "inside", "outside", "removed"}
    BY <1>4, <1>7, <1>11 DEF SpawnTypes
  <2>4. /\ x2' \in [Monsters -> 0 .. BlockCount \cup {None}] /\ x5' \in [Monsters -> 0 .. 2]
        /\ x3' \in [Monsters -> {None, "inside", "outside", "removed"}]
    BY <1>11, <2>1, <2>2, <2>3
  <2>5. x4' \subseteq Monsters /\ x6' \subseteq Monsters /\ x7' \subseteq 1 .. BlockCount
    BY <1>4, <1>9, <1>10, <1>11 DEF SpawnTypes
  <2>6. x1' \in BOOLEAN /\ x8' \in BOOLEAN /\ x9' \in Nat
    <3>1. x8' \in BOOLEAN
      BY <1>9 DEF Spawn!NeedsCheck
    <3> QED BY <1>3, <1>4, <3>1 DEF SpawnTypes
  <2> QED BY <2>4, <2>5, <2>6 DEF SpawnTypes
<1>16. MonstersAccounted'
  <2> SUFFICES ASSUME NEW m \in Monsters
               PROVE  Accounted(x2'[m], x3'[m], m \in x4', x5'[m], m \in x6')
    BY DEF MonstersAccounted
  <2>1. Accounted(x2[m], x3[m], m \in x4, x5[m], m \in x6)
    BY <1>14
  <2>2. CASE m \in new
    <3>1. x2'[m] # None /\ m \in x4' /\ m \in x6'
      <4>1. x2'[m] \in 1 .. BlockCount
        BY <1>10, <1>11, <2>2
      <4>2. m \in x4' /\ m \in x6'
        BY <1>9, <2>2
      <4> QED BY <4>1, <4>2, SpawnConstants
    <3> QED BY <1>11, <2>2, <3>1, SpawnConstants DEF Accounted, Alive
  <2>3. CASE m \notin new
    <3>1. /\ x2'[m] = swept[m] /\ x3'[m] = (IF counted[m] = 0 THEN None ELSE x3[m])
          /\ x5'[m] = counted[m] /\ (m \in x6' <=> m \in x6)
          /\ (m \in x4' <=> m \in x4 /\ ~(m \in gone /\ counted[m] = 0))
      BY <1>7, <1>9, <1>11, <2>3
    <3>2. CASE m \in gone
      <4>1. x2[m] # None /\ x3[m] = "removed" /\ x2'[m] = None /\ counted[m] = x5[m] - 1
        BY <1>5, <1>12, <3>1, <3>2
      <4>2. x5[m] = 1 + (IF m \in x6 THEN 1 ELSE 0) /\ m \in x4
        BY <2>1, <4>1 DEF Accounted
      <4>3. CASE m \in x6
        BY <3>1, <3>2, <4>1, <4>2, <4>3, SpawnConstants DEF Accounted, Alive
      <4>4. CASE m \notin x6
        BY <3>1, <3>2, <4>1, <4>2, <4>4, SpawnConstants DEF Accounted, Alive
      <4> QED BY <4>3, <4>4
    <3>3. CASE m \notin gone
      <4>1. counted[m] = x5[m] /\ (swept[m] = None <=> x2[m] = None)
        BY <1>12, <3>3
      <4>2. x3'[m] = x3[m] /\ (m \in x4' <=> m \in x4)
        BY <2>1, <3>1, <3>3, <4>1 DEF Accounted
      <4> QED BY <2>1, <3>1, <4>1, <4>2 DEF Accounted
    <3> QED BY <3>2, <3>3
  <2> QED BY <2>2, <2>3
<1>17. OneInABlock'
  <2> SUFFICES ASSUME NEW l \in Monsters, NEW m \in Monsters, x2'[l] = x2'[m], x2'[l] \notin {0, None}
               PROVE  l = m
    BY DEF OneInABlock
  <2>1. CASE l \in new /\ m \in new
    BY <1>11, <2>1
  <2>2. CASE l \in new /\ m \notin new
    BY <1>11, <1>13, <2>2
  <2>3. CASE l \notin new /\ m \in new
    BY <1>11, <1>13, <2>3
  <2>4. CASE l \notin new /\ m \notin new
    <3>1. x2[l] = x2[m] /\ x2[l] \notin {0, None}
      BY <1>11, <1>12, <2>4
    <3> QED BY <3>1 DEF SpawnInv, OneInABlock
  <2> QED BY <2>1, <2>2, <2>3, <2>4
<1>18. \A m \in Monsters : x2'[m] # None => x3'[m] # "removed"
  BY <1>5, <1>7, <1>11, <1>12, SpawnConstants
<1>19. DeadAreSought' /\ NothingBeforeStart'
  BY <1>3, <1>18 DEF DeadAreSought, NothingBeforeStart
<1>20. Spawn!EmptyBlockIsWatched'
  <2> SUFFICES ASSUME ~x8'
               PROVE  Cardinality(EmptyBlocks(x2', x3')) <= Cardinality(StraysOf(x2')) + x9'
    BY WatchedIsNext
  <2>1. {m \in Monsters : s.key[m] # None} = ListedIn(x2')
    BY <1>9 DEF ListedIn
  <2>2. ~(Cardinality(ListedIn(x2')) < BlockCount)
    BY <1>9, <2>1, SameSpawnCount DEF Spawn!NeedsCheck
  <2>3. Cardinality(ListedIn(x2')) >= BlockCount
    BY <2>2, SpawnCounts, SpawnConstants
  <2>4. x2' \in [Monsters -> 0 .. BlockCount \cup {None}]
    BY <1>15 DEF SpawnTypes
  <2>5. \A l, m \in Monsters : x2'[l] = x2'[m] /\ x2'[l] \notin {0, None} => l = m
    BY <1>17 DEF OneInABlock
  <2>6. Cardinality(EmptyBlocks(x2', x3')) <= Cardinality(StraysOf(x2'))
    BY <1>18, <2>3, <2>4, <2>5, FullListMakesUp
  <2> QED BY <1>3, <2>6, SpawnCounts
<1> QED BY <1>15, <1>16, <1>17, <1>19, <1>20 DEF SpawnInv

(* A step that leaves the list alone, and what is dead on it.              *)
LEMMA SameListWatched ==
  ASSUME SpawnInv, x1' = x1, x2' = x2, x9' = x9, x8 => x8',
         \A m \in Monsters : x2[m] # None => (x3'[m] = "removed" => x3[m] = "removed" \/ x8')
  PROVE  Spawn!EmptyBlockIsWatched' /\ OneInABlock'
<1>1. OneInABlock'
  BY DEF SpawnInv, OneInABlock
<1>2. x8 \in BOOLEAN /\ x1 \in BOOLEAN
  BY DEF SpawnInv, SpawnTypes
<1>3. Spawn!EmptyBlockIsWatched'
  <2> SUFFICES ASSUME x1', ~x8'
               PROVE  Cardinality(EmptyBlocks(x2', x3')) <= Cardinality(StraysOf(x2')) + x9'
    BY WatchedIsNext
  <2>1. Cardinality(EmptyBlocks(x2, x3)) <= Cardinality(StraysOf(x2)) + x9
    BY WatchedIs DEF SpawnInv
  <2>2. EmptyBlocks(x2', x3') \subseteq EmptyBlocks(x2, x3)
    BY SpawnConstants DEF EmptyBlocks
  <2>3. Cardinality(EmptyBlocks(x2', x3')) <= Cardinality(EmptyBlocks(x2, x3))
    BY <2>2, SpawnCounts, FS_Subset
  <2>4. x9 \in Nat
    BY DEF SpawnInv, SpawnTypes
  <2> QED BY <2>1, <2>3, <2>4, SpawnCounts
<1> QED BY <1>1, <1>3

LEMMA DisappearKeeps ==
  ASSUME SpawnInv, NEW m \in Monsters, Spawn!Disappear(m)
  PROVE  SpawnInv'
<1>1. /\ x3[m] \in Alive /\ x3' = [x3 EXCEPT ![m] = "removed"] /\ x8' = (x8 \/ m \in x4)
      /\ x1' = x1 /\ x2' = x2 /\ x4' = x4 /\ x5' = x5 /\ x6' = x6 /\ x7' = x7 /\ x9' = x9
  BY DEF Spawn!Disappear, Alive
<1>2. SpawnTypes /\ \A n \in Monsters : Accounted(x2[n], x3[n], n \in x4, x5[n], n \in x6)
  BY DEF SpawnInv, MonstersAccounted
<1>3. \A n \in Monsters : x3'[n] = IF n = m THEN "removed" ELSE x3[n]
  BY <1>1, <1>2 DEF SpawnTypes
<1>4. m \in x4 <=> x2[m] # None
  BY <1>1, <1>2 DEF Accounted, Alive
<1>5. SpawnTypes'
  BY <1>1, <1>2 DEF SpawnTypes
<1>6. MonstersAccounted'
  <2> SUFFICES ASSUME NEW n \in Monsters
               PROVE  Accounted(x2'[n], x3'[n], n \in x4', x5'[n], n \in x6')
    BY DEF MonstersAccounted
  <2>1. CASE n # m
    BY <1>1, <1>2, <1>3, <2>1
  <2>2. CASE n = m
    BY <1>1, <1>2, <1>3, <2>2, SpawnConstants DEF Accounted, Alive
  <2> QED BY <2>1, <2>2
<1>7. DeadAreSought'
  BY <1>1, <1>3, <1>4 DEF DeadAreSought, SpawnInv
<1>8. NothingBeforeStart'
  BY <1>1, <1>4 DEF NothingBeforeStart, SpawnInv
<1>9. x8 => x8'
  BY <1>1
<1>10. \A n \in Monsters : x2[n] # None => (x3'[n] = "removed" => x3[n] = "removed" \/ x8')
  BY <1>1, <1>3, <1>4
<1>11. Spawn!EmptyBlockIsWatched' /\ OneInABlock'
  BY <1>1, <1>9, <1>10, SameListWatched
<1> QED BY <1>5, <1>6, <1>7, <1>8, <1>11 DEF SpawnInv

LEMMA MoveKeeps ==
  ASSUME SpawnInv, NEW m \in Monsters, Spawn!Move(m)
  PROVE  SpawnInv'
<1>1. /\ x3[m] \in Alive
      /\ x3' = [x3 EXCEPT ![m] = IF @ = "inside" THEN "outside" ELSE "inside"]
      /\ x1' = x1 /\ x2' = x2 /\ x4' = x4 /\ x5' = x5 /\ x6' = x6 /\ x7' = x7 /\ x8' = x8 /\ x9' = x9
  BY DEF Spawn!Move, Alive
<1>2. SpawnTypes /\ \A n \in Monsters : Accounted(x2[n], x3[n], n \in x4, x5[n], n \in x6)
  BY DEF SpawnInv, MonstersAccounted
<1>3. x3'[m] \in Alive /\ \A n \in Monsters \ {m} : x3'[n] = x3[n]
  BY <1>1, <1>2 DEF SpawnTypes, Alive
<1>4. SpawnTypes'
  BY <1>1, <1>2 DEF SpawnTypes
<1>5. MonstersAccounted'
  <2> SUFFICES ASSUME NEW n \in Monsters
               PROVE  Accounted(x2'[n], x3'[n], n \in x4', x5'[n], n \in x6')
    BY DEF MonstersAccounted
  <2>1. CASE n # m
    BY <1>1, <1>2, <1>3, <2>1
  <2>2. CASE n = m
    BY <1>1, <1>2, <1>3, <2>2, SpawnConstants DEF Accounted, Alive
  <2> QED BY <2>1, <2>2
<1>6. \A n \in Monsters : x3'[n] = "removed" => x3[n] = "removed"
  BY <1>3 DEF Alive
<1>7. DeadAreSought' /\ NothingBeforeStart'
  BY <1>1, <1>6 DEF DeadAreSought, NothingBeforeStart, SpawnInv
<1>8. Spawn!EmptyBlockIsWatched' /\ OneInABlock'
  BY <1>1, <1>6, SameListWatched
<1> QED BY <1>4, <1>5, <1>7, <1>8 DEF SpawnInv

LEMMA ReleaseKeeps ==
  ASSUME SpawnInv, NEW m \in Monsters, Spawn!Release(m)
  PROVE  SpawnInv'
<1>1. /\ m \in x6 /\ x3[m] = "removed" /\ x6' = x6 \ {m} /\ x5' = [x5 EXCEPT ![m] = @ - 1]
      /\ x3' = [n \in Monsters |-> IF x5'[n] = 0 THEN None ELSE x3[n]]
      /\ x4' = IF x5'[m] = 0 THEN x4 \ {m} ELSE x4
      /\ x1' = x1 /\ x2' = x2 /\ x7' = x7 /\ x8' = x8 /\ x9' = x9
  BY DEF Spawn!Release, Spawn!Deleted
<1>2. SpawnTypes /\ \A n \in Monsters : Accounted(x2[n], x3[n], n \in x4, x5[n], n \in x6)
  BY DEF SpawnInv, MonstersAccounted
<1>3. \A n \in Monsters : x5'[n] = IF n = m THEN x5[m] - 1 ELSE x5[n]
  BY <1>1, <1>2 DEF SpawnTypes
<1>4. x5[m] = (IF x2[m] # None THEN 1 ELSE 0) + 1
  BY <1>1, <1>2 DEF Accounted
<1>5. \A n \in Monsters \ {m} : x3'[n] = x3[n]
  BY <1>1, <1>2, <1>3 DEF Accounted
<1>6. x3'[m] = IF x2[m] # None THEN "removed" ELSE None
  BY <1>1, <1>3, <1>4
<1>7. SpawnTypes'
  <2>1. \A n \in Monsters : x5'[n] \in 0 .. 2
    BY <1>2, <1>3, <1>4 DEF SpawnTypes
  <2>2. x5' \in [Monsters -> 0 .. 2]
    BY <1>1, <1>2, <2>1 DEF SpawnTypes
  <2>3. x3' \in [Monsters -> {None, "inside", "outside", "removed"}]
    BY <1>1, <1>2 DEF SpawnTypes
  <2>4. x4' \subseteq Monsters /\ x6' \subseteq Monsters
    BY <1>1, <1>2 DEF SpawnTypes
  <2> QED BY <1>1, <1>2, <2>2, <2>3, <2>4 DEF SpawnTypes
<1>8. MonstersAccounted'
  <2> SUFFICES ASSUME NEW n \in Monsters
               PROVE  Accounted(x2'[n], x3'[n], n \in x4', x5'[n], n \in x6')
    BY DEF MonstersAccounted
  <2>1. CASE n # m
    <3>1. (n \in x4' <=> n \in x4) /\ (n \in x6' <=> n \in x6)
      BY <1>1, <2>1
    <3> QED BY <1>1, <1>2, <1>3, <1>5, <2>1, <3>1
  <2>2. CASE n = m
    <3>1. CASE x2[m] # None
      <4>1. x5'[m] = 1 /\ x3'[m] = "removed" /\ x4' = x4
        BY <1>1, <1>3, <1>4, <1>6, <3>1
      <4>2. m \in x4
        BY <1>2, <3>1 DEF Accounted
      <4> QED BY <1>1, <2>2, <3>1, <4>1, <4>2, SpawnConstants DEF Accounted, Alive
    <3>2. CASE x2[m] = None
      <4>1. x5'[m] = 0 /\ x3'[m] = None /\ m \notin x4'
        BY <1>1, <1>3, <1>4, <1>6, <3>2
      <4> QED BY <1>1, <2>2, <3>2, <4>1, SpawnConstants DEF Accounted, Alive
    <3> QED BY <3>1, <3>2
  <2> QED BY <2>1, <2>2
<1>9. \A n \in Monsters : x3'[n] = "removed" => x3[n] = "removed"
  BY <1>1, <1>5
<1>10. DeadAreSought' /\ NothingBeforeStart'
  BY <1>1, <1>9 DEF DeadAreSought, NothingBeforeStart, SpawnInv
<1>11. Spawn!EmptyBlockIsWatched' /\ OneInABlock'
  BY <1>1, <1>9, SameListWatched
<1> QED BY <1>7, <1>8, <1>10, <1>11 DEF SpawnInv

LEMMA ConvinceKeeps ==
  ASSUME SpawnInv, NEW m \in Monsters, Spawn!Convince(m)
  PROVE  SpawnInv'
<1>1. /\ x3[m] \in Alive /\ m \in x4 /\ x2' = [x2 EXCEPT ![m] = None]
      /\ x5' = [x5 EXCEPT ![m] = @ - 1] /\ x4' = x4 \ {m} /\ x9' = x9 + 1
      /\ x1' = x1 /\ x3' = x3 /\ x6' = x6 /\ x7' = x7 /\ x8' = x8
  BY DEF Spawn!Convince, Alive
<1>2. SpawnTypes /\ \A n \in Monsters : Accounted(x2[n], x3[n], n \in x4, x5[n], n \in x6)
  BY DEF SpawnInv, MonstersAccounted
<1>3. \A n \in Monsters : /\ x5'[n] = IF n = m THEN x5[m] - 1 ELSE x5[n]
                         /\ x2'[n] = IF n = m THEN None ELSE x2[n]
  BY <1>1, <1>2 DEF SpawnTypes
<1>4. x5[m] = 2 /\ m \in x6 /\ x2[m] # None
  BY <1>1, <1>2 DEF Accounted, Alive
<1>5. SpawnTypes'
  <2>1. \A n \in Monsters : x5'[n] \in 0 .. 2
    BY <1>2, <1>3, <1>4 DEF SpawnTypes
  <2>2. x5' \in [Monsters -> 0 .. 2]
    BY <1>1, <1>2, <2>1 DEF SpawnTypes
  <2>3. x2' \in [Monsters -> 0 .. BlockCount \cup {None}]
    BY <1>1, <1>2 DEF SpawnTypes
  <2>4. x9' \in Nat /\ x4' \subseteq Monsters
    BY <1>1, <1>2 DEF SpawnTypes
  <2> QED BY <1>1, <1>2, <2>2, <2>3, <2>4 DEF SpawnTypes
<1>6. MonstersAccounted'
  <2> SUFFICES ASSUME NEW n \in Monsters
               PROVE  Accounted(x2'[n], x3'[n], n \in x4', x5'[n], n \in x6')
    BY DEF MonstersAccounted
  <2>1. CASE n # m
    <3>1. n \in x4' <=> n \in x4
      BY <1>1, <2>1
    <3> QED BY <1>1, <1>2, <1>3, <2>1, <3>1
  <2>2. CASE n = m
    BY <1>1, <1>3, <1>4, <2>2, SpawnConstants DEF Accounted, Alive
  <2> QED BY <2>1, <2>2
<1>7. OneInABlock'
  BY <1>3 DEF SpawnInv, OneInABlock
<1>8. DeadAreSought' /\ NothingBeforeStart'
  BY <1>1, <1>3 DEF DeadAreSought, NothingBeforeStart, SpawnInv
<1>9. Spawn!EmptyBlockIsWatched'
  <2> SUFFICES ASSUME x1, ~x8
               PROVE  Cardinality(EmptyBlocks(x2', x3')) <= Cardinality(StraysOf(x2')) + x9'
    BY <1>1, WatchedIsNext
  <2>1. Cardinality(EmptyBlocks(x2, x3)) <= Cardinality(StraysOf(x2)) + x9
    BY WatchedIs DEF SpawnInv
  <2>2. CASE x2[m] = 0
    <3>1. EmptyBlocks(x2', x3') \subseteq EmptyBlocks(x2, x3)
      BY <1>1, <1>3, <2>2 DEF EmptyBlocks
    <3>2. StraysOf(x2') = StraysOf(x2) \ {m} /\ m \in StraysOf(x2)
      BY <1>3, <2>2, SpawnConstants DEF StraysOf
    <3>3. Cardinality(EmptyBlocks(x2', x3')) <= Cardinality(EmptyBlocks(x2, x3))
      BY <3>1, SpawnCounts, FS_Subset
    <3>4. Cardinality(StraysOf(x2')) = Cardinality(StraysOf(x2)) - 1
      BY <3>2, SpawnCounts, FS_RemoveElement
    <3>5. x9 \in Nat
      BY <1>2 DEF SpawnTypes
    <3> QED BY <1>1, <2>1, <3>3, <3>4, <3>5, SpawnCounts
  <2>3. CASE x2[m] # 0
    <3>1. EmptyBlocks(x2', x3') \subseteq EmptyBlocks(x2, x3) \cup {x2[m]}
      BY <1>1, <1>3, <2>3 DEF EmptyBlocks
    <3>2. StraysOf(x2') = StraysOf(x2)
      BY <1>3, <2>3, SpawnConstants DEF StraysOf
    <3>3. /\ IsFiniteSet(EmptyBlocks(x2, x3) \cup {x2[m]})
          /\ Cardinality(EmptyBlocks(x2, x3) \cup {x2[m]}) =
               IF x2[m] \in EmptyBlocks(x2, x3) THEN Cardinality(EmptyBlocks(x2, x3))
               ELSE Cardinality(EmptyBlocks(x2, x3)) + 1
      BY SpawnCounts, FS_AddElement
    <3>4. Cardinality(EmptyBlocks(x2', x3')) <= Cardinality(EmptyBlocks(x2, x3) \cup {x2[m]})
      BY <3>1, <3>3, FS_Subset
    <3>5. x9 \in Nat
      BY <1>2 DEF SpawnTypes
    <3> QED BY <1>1, <2>1, <3>2, <3>3, <3>4, <3>5, SpawnCounts
  <2> QED BY <2>2, <2>3
<1> QED BY <1>5, <1>6, <1>7, <1>8, <1>9 DEF SpawnInv

LEMMA SpawnStepKeeps ==
  ASSUME SpawnInv, Spawn!Next
  PROVE  SpawnInv'
<1>1. ASSUME NEW b \in 1 .. BlockCount, Spawn!BecomeRipe(b)
      PROVE  SpawnInv'
  <2>1. x7' = x7 \cup {b} /\ UNCHANGED <<x1, x2, x3, x4, x5, x6, x8, x9>>
    BY <1>1 DEF Spawn!BecomeRipe
  <2>2. SpawnTypes'
    BY <2>1 DEF SpawnInv, SpawnTypes
  <2>3. MonstersAccounted' /\ OneInABlock' /\ NothingBeforeStart' /\ DeadAreSought'
    BY <2>1 DEF SpawnInv, MonstersAccounted, OneInABlock, NothingBeforeStart, DeadAreSought
  <2>4. Spawn!EmptyBlockIsWatched'
    BY <2>1, WatchedIs, WatchedIsNext DEF SpawnInv
  <2> QED BY <2>2, <2>3, <2>4 DEF SpawnInv
<1>2. \/ Spawn!Startup \/ Spawn!CheckSpawn
      \/ \E b \in 1 .. BlockCount : Spawn!BecomeRipe(b)
      \/ \E m \in Monsters : \/ Spawn!Move(m) \/ Spawn!Disappear(m)
                             \/ Spawn!Convince(m) \/ Spawn!Release(m)
  BY DEF Spawn!Next, Spawn!Blocks
<1> QED BY <1>1, <1>2, StartupKeeps, CheckSpawnKeeps, MoveKeeps, DisappearKeeps, ConvinceKeeps,
           ReleaseKeeps

LEMMA SpawnInvStutters ==
  ASSUME SpawnInv, Untouched
  PROVE  SpawnInv'
<1>1. UNCHANGED <<x1, x2, x3, x4, x5, x6, x7, x8, x9>>
  BY DEF Untouched
<1>2. SpawnTypes' /\ MonstersAccounted' /\ OneInABlock' /\ NothingBeforeStart' /\ DeadAreSought'
  BY <1>1 DEF SpawnInv, SpawnTypes, MonstersAccounted, OneInABlock, NothingBeforeStart, DeadAreSought
<1>3. Spawn!EmptyBlockIsWatched'
  BY <1>1, WatchedIs, WatchedIsNext DEF SpawnInv
<1> QED BY <1>2, <1>3 DEF SpawnInv

LEMMA SpawnInvIsEnough ==
  ASSUME SpawnInv
  PROVE  Spawn!TypeOK /\ Spawn!EmptyBlockIsWatched /\ Spawn!ListedMonstersExist
<1>1. Spawn!TypeOK
  BY DEF SpawnInv, SpawnTypes, Spawn!TypeOK, Spawn!Blocks
<1>2. Spawn!EmptyBlockIsWatched
  BY DEF SpawnInv
<1>3. Spawn!Listed = {m \in Monsters : x2[m] # None}
  BY DEF Spawn!Listed
<1>4. ASSUME NEW m \in Monsters
      PROVE  /\ x5[m] = Spawn!Cardinality({m} \cap Spawn!Listed) + Spawn!Cardinality({m} \cap x6)
             /\ m \in Spawn!Listed => m \in x4 /\ x3[m] # None
             /\ m \in x4 => m \in Spawn!Listed \/ x3[m] = "removed"
             /\ m \in Spawn!Listed /\ x3[m] = "removed" => x8
  <2>1. Accounted(x2[m], x3[m], m \in x4, x5[m], m \in x6)
    BY DEF SpawnInv, MonstersAccounted
  <2>2. \A S : Cardinality({m} \cap S) = IF m \in S THEN 1 ELSE 0
    <3> TAKE S
    <3>1. CASE m \in S
      <4>1. {m} \cap S = {m}
        BY <3>1
      <4> QED BY <3>1, <4>1, FS_Singleton
    <3>2. CASE m \notin S
      <4>1. {m} \cap S = {}
        BY <3>2
      <4> QED BY <3>2, <4>1, FS_EmptySet
    <3> QED BY <3>1, <3>2
  <2>3. \A S : Spawn!Cardinality(S) = Cardinality(S)
    BY SameSpawnCount
  <2>4. m \in Spawn!Listed <=> x2[m] # None
    BY <1>3
  <2>5. x5[m] = Spawn!Cardinality({m} \cap Spawn!Listed) + Spawn!Cardinality({m} \cap x6)
    BY <2>1, <2>2, <2>3, <2>4 DEF Accounted
  <2>6. x2[m] # None => x3[m] # None
    BY <2>1, SpawnConstants DEF Accounted
  <2>7. x2[m] # None /\ x3[m] = "removed" => x8
    BY DEF SpawnInv, DeadAreSought
  <2>8. (x2[m] # None => m \in x4) /\ (m \in x4 => x2[m] # None \/ x3[m] = "removed")
    BY <2>1 DEF Accounted
  <2> QED BY <2>4, <2>5, <2>6, <2>7, <2>8
<1>5. \A l, m \in Spawn!Listed : x2[l] = x2[m] /\ x2[l] # 0 => l = m
  BY <1>3 DEF SpawnInv, OneInABlock
<1> QED BY <1>1, <1>2, <1>4, <1>5 DEF Spawn!ListedMonstersExist
-----------------------------------------------------------------------------
(* Raids.  The invariant is stated of a record of the raids and of what    *)
(* each thing points to.  The raid whose event is carried out, if any, has *)
(* its event behind it and the next one not yet scheduled.                 *)
RaidStates ==
  [running : Raids \cup {None}, refCount : [Raids -> Nat], eventCount : [Raids -> Nat],
   nextEvent : [Raids -> BOOLEAN], due : [Raids -> {"no", "scheduled", "posted"}]]
Pointers == [Things -> Raids \cup {None, Freed}]

WithinEvents(s) == \A r \in Raids : s.eventCount[r] <= Len(Events[r])
PointTo(f, r) == {t \in Things : f[t] = r}
RefsCounted(s, f) == \A r \in Raids : s.refCount[r] = Cardinality(PointTo(f, r))

InTurn(s, r) ==
  /\ s.due[r] # "no" => s.running = r
  /\ s.running = r => s.due[r] # "no" \/ (RefType[r] = "block" /\ s.refCount[r] > 0)
  /\ s.nextEvent[r] <=> s.due[r] # "no"
  /\ s.running # r /\ s.refCount[r] = 0 => s.eventCount[r] = 0
Executing(s, q) == s.running = q /\ s.nextEvent[q] /\ s.due[q] = "no"

RaidsFit(s, f, q) ==
  /\ s \in RaidStates /\ f \in Pointers
  /\ WithinEvents(s) /\ RefsCounted(s, f)
  /\ \A r \in Raids \ {q} : InTurn(s, r)
  /\ q \in Raids => Executing(s, q)

RaidInv == RaidsFit(Raid!Now, x6, None)

LEMMA RaidConstants ==
  /\ IsFiniteSet(Things) /\ None \notin Raids /\ Freed \notin Raids \cup {None}
  /\ RefType \in [Raids -> {"none", "single", "block"}]
  /\ \A r \in Raids : Events[r] \in Seq({"announce", "spawn", "script"})
  /\ \A r \in Raids : Len(Events[r]) \in Nat
<1>1. \A r \in Raids : Events[r] \in Seq({"announce", "spawn", "script"})
  BY PartsAssumption DEF Raid!RaidAssumption
<1>2. Raid!IsFiniteSet(Things)
  BY PartsAssumption DEF Raid!RaidAssumption
<1>3. IsFiniteSet(Things)
  BY <1>2, Zenon DEF IsFiniteSet, Raid!IsFiniteSet
<1> QED BY <1>1, <1>3, PartsAssumption DEF Raid!RaidAssumption

LEMMA SameRaidCount ==
  ASSUME NEW S
  PROVE  Raid!Cardinality(S) = Cardinality(S)
BY Zenon DEF Cardinality, Raid!Cardinality

(* A thing lets go of its raid, or several find one.                       *)
OneLess(f, t, g) ==
  /\ g \in Pointers
  /\ \A p \in Raids :
       /\ Cardinality(PointTo(f, p)) \in Nat /\ Cardinality(PointTo(g, p)) \in Nat
       /\ f[t] = p => Cardinality(PointTo(g, p)) = Cardinality(PointTo(f, p)) - 1
       /\ f[t] # p => Cardinality(PointTo(g, p)) = Cardinality(PointTo(f, p))

LEMMA LettingGo ==
  ASSUME NEW f \in Pointers, NEW t \in Things
  PROVE  OneLess(f, t, [f EXCEPT ![t] = None])
<1> DEFINE g == [f EXCEPT ![t] = None]
<1>1. g \in Pointers /\ \A x \in Things : g[x] = IF x = t THEN None ELSE f[x]
  BY DEF Pointers
<1> HIDE DEF g
<1>2. ASSUME NEW p \in Raids
      PROVE  /\ Cardinality(PointTo(f, p)) \in Nat /\ Cardinality(PointTo(g, p)) \in Nat
             /\ f[t] = p => Cardinality(PointTo(g, p)) = Cardinality(PointTo(f, p)) - 1
             /\ f[t] # p => Cardinality(PointTo(g, p)) = Cardinality(PointTo(f, p))
  <2> DEFINE S == PointTo(f, p)
  <2>1. PointTo(g, p) = S \ {t} /\ (t \in S <=> f[t] = p) /\ S \subseteq Things
    BY <1>1, RaidConstants DEF PointTo
  <2> HIDE DEF S
  <2>2. IsFiniteSet(S)
    BY <2>1, RaidConstants, FS_Subset
  <2>3. /\ IsFiniteSet(S \ {t})
        /\ Cardinality(S \ {t}) = IF t \in S THEN Cardinality(S) - 1 ELSE Cardinality(S)
    BY <2>2, FS_RemoveElement
  <2>4. Cardinality(S) \in Nat /\ Cardinality(S \ {t}) \in Nat
    BY <2>2, <2>3, FS_CardinalityType
  <2>5. /\ Cardinality(S) \in Nat /\ Cardinality(PointTo(g, p)) \in Nat
        /\ f[t] = p => Cardinality(PointTo(g, p)) = Cardinality(S) - 1
        /\ f[t] # p => Cardinality(PointTo(g, p)) = Cardinality(S)
    BY <2>1, <2>3, <2>4
  <2> QED BY <2>5 DEF S
<1> QED BY <1>1, <1>2 DEF OneLess, g

Found(f, new, r, g) ==
  /\ g \in Pointers /\ Cardinality(new) \in Nat
  /\ \A p \in Raids :
       /\ Cardinality(PointTo(f, p)) \in Nat
       /\ p = r => Cardinality(PointTo(g, p)) = Cardinality(PointTo(f, p)) + Cardinality(new)
       /\ p # r => Cardinality(PointTo(g, p)) = Cardinality(PointTo(f, p))

LEMMA Finding ==
  ASSUME NEW f \in Pointers, NEW new \in SUBSET PointTo(f, None), NEW r \in Raids
  PROVE  Found(f, new, r, [t \in Things |-> IF t \in new THEN r ELSE f[t]])
<1> DEFINE g == [t \in Things |-> IF t \in new THEN r ELSE f[t]]
<1>1. /\ g \in Pointers /\ new \subseteq Things /\ \A t \in new : f[t] = None
      /\ \A t \in Things : g[t] = IF t \in new THEN r ELSE f[t]
  BY DEF Pointers, PointTo
<1> HIDE DEF g
<1>2. IsFiniteSet(new) /\ Cardinality(new) \in Nat
  BY <1>1, RaidConstants, FS_Subset, FS_CardinalityType
<1>3. ASSUME NEW p \in Raids
      PROVE  /\ Cardinality(PointTo(f, p)) \in Nat
             /\ p = r => Cardinality(PointTo(g, p)) = Cardinality(PointTo(f, p)) + Cardinality(new)
             /\ p # r => Cardinality(PointTo(g, p)) = Cardinality(PointTo(f, p))
  <2> DEFINE S == PointTo(f, p)
  <2>1. /\ p = r => PointTo(g, p) = S \cup new
        /\ p # r => PointTo(g, p) = S
        /\ S \cap new = {} /\ S \subseteq Things
    BY <1>1, RaidConstants DEF PointTo
  <2> HIDE DEF S
  <2>2. IsFiniteSet(S) /\ Cardinality(S) \in Nat
    BY <2>1, RaidConstants, FS_Subset, FS_CardinalityType
  <2>3. Cardinality(S \cup new) = Cardinality(S) + Cardinality(new) - Cardinality(S \cap new)
    BY <1>2, <2>2, FS_Union
  <2>4. Cardinality(S \cap new) = 0
    BY <2>1, FS_EmptySet
  <2>5. /\ p = r => Cardinality(PointTo(g, p)) = Cardinality(S) + Cardinality(new)
        /\ p # r => Cardinality(PointTo(g, p)) = Cardinality(S)
    <3>1. Cardinality(S \cup new) = Cardinality(S) + Cardinality(new)
      BY <1>2, <2>2, <2>3, <2>4
    <3> QED BY <2>1, <3>1
  <2> QED BY <2>2, <2>5 DEF S
<1> QED BY <1>1, <1>2, <1>3 DEF Found, g
-----------------------------------------------------------------------------
(* What is reset is over, unless it is to be gone on with or a block raid  *)
(* that has left something.                                                *)
LEMMA StopEventsIs ==
  ASSUME NEW s \in RaidStates, NEW r \in Raids
  PROVE  LET t == Raid!StopEvents(s, r)
         IN /\ t \in RaidStates /\ t.running = s.running /\ t.refCount = s.refCount
            /\ t.eventCount = s.eventCount
            /\ t.nextEvent = [s.nextEvent EXCEPT ![r] = FALSE]
            /\ t.due = [s.due EXCEPT ![r] = IF s.nextEvent[r] /\ @ = "scheduled" THEN "no" ELSE @]
BY DEF RaidStates, Raid!StopEvents

LEMMA UnRefFits ==
  ASSUME NEW s, NEW f, NEW q, RaidsFit(s, f, q), NEW t \in Things, f[t] \in Raids
  PROVE  RaidsFit(Raid!UnRef(s, f[t]), [f EXCEPT ![t] = None], q)
<1> DEFINE r == f[t]
           g == [f EXCEPT ![t] = None]
           less == [s EXCEPT !.refCount[r] = @ - 1]
           u == Raid!UnRef(s, r)
<1>0. s \in RaidStates /\ f \in Pointers /\ r \in Raids
  BY DEF RaidsFit
<1>1. \A p \in Raids : s.refCount[p] = Cardinality(PointTo(f, p))
  BY DEF RaidsFit, RefsCounted
<1>2. /\ g \in Pointers
      /\ \A p \in Raids : /\ Cardinality(PointTo(g, p)) \in Nat /\ Cardinality(PointTo(f, p)) \in Nat
                          /\ Cardinality(PointTo(g, p)) = IF r = p THEN s.refCount[p] - 1 ELSE s.refCount[p]
  <2>1. OneLess(f, t, g)
    BY <1>0, LettingGo
  <2> HIDE DEF g
  <2> QED BY <1>1, <2>1 DEF OneLess
<1>3. /\ less \in RaidStates /\ less.running = s.running /\ less.eventCount = s.eventCount
      /\ less.nextEvent = s.nextEvent /\ less.due = s.due
      /\ \A p \in Raids : less.refCount[p] = IF p = r THEN s.refCount[p] - 1 ELSE s.refCount[p]
      /\ s.refCount[r] > 0
  BY <1>0, <1>2 DEF RaidStates
<1> HIDE DEF less, g
<1>4. CASE less.refCount[r] # 0 \/ less.nextEvent[r]
  <2>1. u = less
    BY <1>4 DEF Raid!UnRef, Raid!ResetRaid, less
  <2>2. WithinEvents(less) /\ RefsCounted(less, g)
    BY <1>2, <1>3 DEF RaidsFit, WithinEvents, RefsCounted
  <2>3. \A p \in Raids : InTurn(s, p) => InTurn(less, p)
    <3> TAKE p \in Raids
    <3> HAVE InTurn(s, p)
    <3>1. CASE p # r
      <4>1. less.refCount[p] = s.refCount[p]
        BY <1>3, <3>1
      <4> QED BY <1>3, <4>1 DEF InTurn
    <3>2. CASE p = r
      <4>1. less.nextEvent[p] => s.running = p /\ s.due[p] # "no"
        BY <1>3 DEF InTurn
      <4>2. less.refCount[r] \in Nat
        BY <1>0, <1>3 DEF RaidStates
      <4> QED BY <1>3, <1>4, <3>2, <4>1, <4>2 DEF InTurn
    <3> QED BY <3>1, <3>2
  <2>4. q \in Raids => Executing(less, q)
    BY <1>3 DEF RaidsFit, Executing
  <2>5. RaidsFit(less, g, q)
    BY <1>2, <1>3, <2>2, <2>3, <2>4 DEF RaidsFit
  <2> QED BY <2>1, <2>5 DEF g
<1>5. CASE less.refCount[r] = 0 /\ ~less.nextEvent[r]
  <2> DEFINE stopped == Raid!StopEvents(less, r)
             over == [stopped EXCEPT !.eventCount[r] = 0,
                                     !.running = IF @ = r THEN None ELSE @]
  <2>1. u = over
    BY <1>5 DEF Raid!UnRef, Raid!ResetRaid, less
  <2>2. r # q
    BY <1>3, <1>5 DEF RaidsFit, Executing
  <2>3. InTurn(s, r)
    BY <1>0, <2>2 DEF RaidsFit
  <2>4. less.due[r] = "no"
    BY <1>3, <1>5, <2>3 DEF InTurn
  <2>5. /\ stopped \in RaidStates /\ stopped.running = less.running
        /\ stopped.refCount = less.refCount /\ stopped.eventCount = less.eventCount
        /\ stopped.nextEvent = [less.nextEvent EXCEPT ![r] = FALSE]
        /\ stopped.due = [less.due EXCEPT ![r] = IF less.nextEvent[r] /\ @ = "scheduled" THEN "no" ELSE @]
    BY <1>0, <1>3, StopEventsIs
  <2> HIDE DEF stopped
  <2>6. /\ over \in RaidStates
        /\ over.running = IF s.running = r THEN None ELSE s.running
        /\ over.refCount = less.refCount
        /\ \A p \in Raids : /\ over.eventCount[p] = IF p = r THEN 0 ELSE s.eventCount[p]
                            /\ over.nextEvent[p] = s.nextEvent[p]
                            /\ over.due[p] = s.due[p]
    <3>1. /\ over.running = IF s.running = r THEN None ELSE s.running
          /\ over.refCount = less.refCount /\ over.due = stopped.due
          /\ over.nextEvent = stopped.nextEvent
          /\ over.eventCount = [s.eventCount EXCEPT ![r] = 0]
          /\ over \in RaidStates
      BY <1>0, <1>3, <2>5 DEF RaidStates
    <3>2. s.nextEvent \in [Raids -> BOOLEAN] /\ s.eventCount \in [Raids -> Nat] /\ s.due \in [Raids -> {"no", "scheduled", "posted"}]
      BY <1>0 DEF RaidStates
    <3> HIDE DEF over
    <3>3. \A p \in Raids : over.eventCount[p] = IF p = r THEN 0 ELSE s.eventCount[p]
      BY <3>1, <3>2
    <3>4. \A p \in Raids : over.due[p] = s.due[p]
      BY <1>3, <1>5, <2>4, <2>5, <3>1, <3>2
    <3>5. \A p \in Raids : over.nextEvent[p] = s.nextEvent[p]
      <4>1. over.nextEvent = [s.nextEvent EXCEPT ![r] = FALSE] /\ ~s.nextEvent[r]
        BY <1>3, <1>5, <2>5, <3>1
      <4>2. ASSUME NEW p \in Raids, p # r
            PROVE  over.nextEvent[p] = s.nextEvent[p]
        BY <3>2, <4>1, <4>2
      <4>3. over.nextEvent[r] = FALSE /\ s.nextEvent[r] = FALSE
        <5>1. s.nextEvent[r] \in BOOLEAN
          BY <1>0, <3>2
        <5> QED BY <1>0, <3>2, <4>1, <5>1
      <4> QED BY <4>2, <4>3
    <3> QED BY <3>1, <3>3, <3>4, <3>5
  <2> HIDE DEF over
  <2>7. WithinEvents(over) /\ RefsCounted(over, g)
    BY <1>2, <1>3, <2>6, RaidConstants DEF RaidsFit, WithinEvents, RefsCounted
  <2>8. \A p \in Raids : InTurn(s, p) => InTurn(over, p)
    BY <1>3, <2>4, <1>5, <2>6, RaidConstants DEF InTurn
  <2>9. q \in Raids => Executing(over, q)
    BY <2>2, <2>6 DEF RaidsFit, Executing
  <2>10. RaidsFit(over, g, q)
    BY <1>2, <2>6, <2>7, <2>8, <2>9 DEF RaidsFit
  <2> QED BY <2>1, <2>10 DEF g
<1> QED BY <1>4, <1>5
(* An executed event is gone on with, or the raid is reset.                *)
LEMMA ScheduledFits ==
  ASSUME NEW s, NEW f, NEW q \in Raids, RaidsFit(s, f, q), Raid!HasNext(s, q)
  PROVE  RaidsFit(Raid!Scheduled(s, q), f, None)
<1> DEFINE t == Raid!Scheduled(s, q)
<1>0. s \in RaidStates /\ q # None /\ Executing(s, q)
  BY RaidConstants DEF RaidsFit
<1>1. /\ t \in RaidStates /\ t.running = q /\ t.refCount = s.refCount
      /\ t.eventCount = [s.eventCount EXCEPT ![q] = @ + 1]
      /\ t.nextEvent = [s.nextEvent EXCEPT ![q] = TRUE]
      /\ t.due = [s.due EXCEPT ![q] = "scheduled"]
  <2>1. s.eventCount \in [Raids -> Nat] /\ s.nextEvent \in [Raids -> BOOLEAN]
    BY <1>0 DEF RaidStates
  <2>2. [s.eventCount EXCEPT ![q] = @ + 1] \in [Raids -> Nat]
    BY <2>1
  <2>3. [s.nextEvent EXCEPT ![q] = TRUE] \in [Raids -> BOOLEAN]
    BY <2>1
  <2>4. t = [s EXCEPT !.eventCount = [s.eventCount EXCEPT ![q] = @ + 1],
                      !.nextEvent = [s.nextEvent EXCEPT ![q] = TRUE],
                      !.due = [s.due EXCEPT ![q] = "scheduled"]]
    BY <1>0 DEF RaidStates, Raid!Scheduled
  <2> HIDE DEF t
  <2> QED BY <1>0, <2>2, <2>3, <2>4 DEF RaidStates, Executing
<1> HIDE DEF t
<1>2. WithinEvents(t) /\ RefsCounted(t, f)
  <2>1. s.eventCount[q] < Len(Events[q])
    BY DEF Raid!HasNext
  <2>2. \A r \in Raids : t.eventCount[r] = IF r = q THEN s.eventCount[q] + 1 ELSE s.eventCount[r]
    BY <1>0, <1>1 DEF RaidStates
  <2>3. s.eventCount[q] \in Nat
    BY <1>0 DEF RaidStates
  <2> QED BY <1>1, <2>1, <2>2, <2>3, RaidConstants DEF RaidsFit, WithinEvents, RefsCounted
<1>3. ASSUME NEW r \in Raids, r # q
      PROVE  InTurn(t, r)
  <2>1. InTurn(s, r) /\ s.running = q
    BY <1>0, <1>3 DEF RaidsFit, Executing
  <2>2. t.due[r] = s.due[r] /\ t.eventCount[r] = s.eventCount[r] /\ t.running # r /\ t.refCount[r] = s.refCount[r]
    BY <1>0, <1>1, <1>3 DEF RaidStates
  <2>3. t.nextEvent[r] = s.nextEvent[r]
    BY <1>0, <1>1, <1>3 DEF RaidStates
  <2> QED BY <1>1, <1>3, <2>1, <2>2, <2>3 DEF InTurn
<1>4. InTurn(t, q)
  BY <1>0, <1>1 DEF InTurn, RaidStates
<1>5. \A r \in Raids \ {None} : InTurn(t, r)
  BY <1>3, <1>4
<1> QED BY <1>1, <1>2, <1>5, RaidConstants DEF RaidsFit, t

LEMMA ResetFits ==
  ASSUME NEW s, NEW f, NEW q \in Raids, RaidsFit(s, f, q)
  PROVE  RaidsFit(Raid!ResetRaid(s, q, FALSE), f, None)
<1> DEFINE stopped == Raid!StopEvents(s, q)
           t == Raid!ResetRaid(s, q, FALSE)
           stays == RefType[q] = "block" /\ s.refCount[q] > 0
<1>0. s \in RaidStates /\ q # None /\ Executing(s, q)
  BY RaidConstants DEF RaidsFit
<1>1. /\ stopped \in RaidStates /\ stopped.running = q /\ stopped.refCount = s.refCount
      /\ stopped.eventCount = s.eventCount /\ stopped.due = s.due
      /\ stopped.nextEvent = [s.nextEvent EXCEPT ![q] = FALSE]
  <2>1. s.due \in [Raids -> {"no", "scheduled", "posted"}] /\ s.due[q] = "no"
    BY <1>0 DEF RaidStates, Executing
  <2>2. s.due = [s.due EXCEPT ![q] = IF s.nextEvent[q] /\ @ = "scheduled" THEN "no" ELSE @]
    BY <2>1
  <2>3. /\ stopped \in RaidStates /\ stopped.running = s.running /\ stopped.refCount = s.refCount
        /\ stopped.eventCount = s.eventCount
        /\ stopped.nextEvent = [s.nextEvent EXCEPT ![q] = FALSE]
        /\ stopped.due = [s.due EXCEPT ![q] = IF s.nextEvent[q] /\ @ = "scheduled" THEN "no" ELSE @]
    BY <1>0, StopEventsIs
  <2> HIDE DEF stopped
  <2> QED BY <1>0, <2>2, <2>3 DEF Executing
<1> HIDE DEF stopped
<1>2. /\ t \in RaidStates /\ t.refCount = s.refCount /\ t.due = s.due
      /\ t.nextEvent = stopped.nextEvent
      /\ t.running = IF stays THEN q ELSE None
      /\ ~stays => t.eventCount = [s.eventCount EXCEPT
                       ![q] = IF RefType[q] # "single" \/ s.refCount[q] = 0 THEN 0 ELSE @]
      /\ stays => t.eventCount = s.eventCount
  <2> DEFINE over == [stopped EXCEPT
                        !.eventCount[q] = IF RefType[q] # "single" \/ s.refCount[q] = 0 THEN 0 ELSE @,
                        !.running = IF @ = q THEN None ELSE @]
  <2>1. t = IF stays THEN stopped ELSE over
    BY DEF Raid!ResetRaid, stopped
  <2>2. /\ over \in RaidStates /\ over.refCount = s.refCount /\ over.due = s.due
        /\ over.nextEvent = stopped.nextEvent /\ over.running = None
        /\ over.eventCount = [s.eventCount EXCEPT
              ![q] = IF RefType[q] # "single" \/ s.refCount[q] = 0 THEN 0 ELSE @]
    BY <1>0, <1>1 DEF RaidStates
  <2> HIDE DEF over, t
  <2> QED BY <1>1, <2>1, <2>2
<1> HIDE DEF t
<1>3. \A r \in Raids : /\ t.eventCount[r] \in {s.eventCount[r], 0}
                       /\ r # q => t.eventCount[r] = s.eventCount[r]
                       /\ t.refCount[r] = s.refCount[r] /\ t.due[r] = s.due[r]
  BY <1>0, <1>2 DEF RaidStates
<1>4. WithinEvents(t) /\ RefsCounted(t, f)
  BY <1>2, <1>3, RaidConstants DEF RaidsFit, WithinEvents, RefsCounted
<1>5. ASSUME NEW r \in Raids, r # q
      PROVE  InTurn(t, r)
  <2>1. InTurn(s, r) /\ s.running = q
    BY <1>0, <1>5 DEF RaidsFit, Executing
  <2>2. t.running # r
    BY <1>2, <1>5, RaidConstants
  <2>3. t.nextEvent[r] = s.nextEvent[r]
    BY <1>0, <1>1, <1>2, <1>5 DEF RaidStates
  <2> QED BY <1>3, <1>5, <2>1, <2>2, <2>3 DEF InTurn
<1>6. InTurn(t, q)
  <2>1. ~t.nextEvent[q] /\ t.due[q] = "no"
    BY <1>0, <1>1, <1>2, <1>3 DEF RaidStates, Executing
  <2>2. t.running = q => stays
    BY <1>0, <1>2
  <2>3. s.refCount[q] = 0 /\ t.running # q => t.eventCount[q] = 0
    BY <1>0, <1>2 DEF RaidStates
  <2> QED BY <1>3, <2>1, <2>2, <2>3 DEF InTurn
<1>7. \A r \in Raids \ {None} : InTurn(t, r)
  BY <1>5, <1>6
<1> QED BY <1>2, <1>4, <1>7, RaidConstants DEF RaidsFit, t
-----------------------------------------------------------------------------
(* Raids: one step.                                                        *)
LEMMA FreshFits ==
  ASSUME NEW f \in Pointers, \A r \in Raids : PointTo(f, r) = {}
  PROVE  RaidsFit(Raid!Fresh, f, None)
<1> DEFINE s == Raid!Fresh
<1>1. /\ s \in RaidStates
      /\ \A r \in Raids : /\ s.running # r /\ s.refCount[r] = 0 /\ s.eventCount[r] = 0
                          /\ s.due[r] = "no" /\ ~s.nextEvent[r]
  BY RaidConstants DEF Raid!Fresh, RaidStates
<1> HIDE DEF s
<1>2. Cardinality({}) = 0
  BY FS_EmptySet
<1>3. RefsCounted(s, f)
  BY <1>1, <1>2 DEF RefsCounted
<1>4. WithinEvents(s)
  BY <1>1, RaidConstants DEF WithinEvents
<1>5. \A r \in Raids : InTurn(s, r)
  BY <1>1 DEF InTurn
<1> QED BY <1>1, <1>3, <1>4, <1>5, RaidConstants DEF RaidsFit, s

LEMMA RaidInit ==
  ASSUME Raid!Init
  PROVE  RaidInv
<1>1. x6 \in Pointers /\ \A r \in Raids : PointTo(x6, r) = {}
  BY RaidConstants DEF Raid!Init, PointTo, Pointers
<1>2. Raid!Now = Raid!Fresh
  BY DEF Raid!Init, Raid!Fresh, Raid!Now
<1> QED BY <1>1, <1>2, FreshFits DEF RaidInv

LEMMA RaidBecomes ==
  ASSUME NEW s, Raid!Become(s), RaidsFit(s, x6', None)
  PROVE  RaidInv'
<1>1. (Raid!Now)' = s
  BY DEF Raid!Become, Raid!Now, RaidsFit, RaidStates
<1> QED BY <1>1 DEF RaidInv

(* What an event leaves behind leaves a raid that is being carried out.    *)
LEMMA ExecutedFits ==
  ASSUME NEW s, NEW q \in Raids, RaidsFit(s, x6, q), NEW kind, NEW outcome \in Raid!Outcomes(kind)
  PROVE  RaidsFit(Raid!Executed(s, q, kind, outcome).s, Raid!Executed(s, q, kind, outcome).raidOf, q)
<1> DEFINE after == Raid!Executed(s, q, kind, outcome)
<1>0. s \in RaidStates /\ x6 \in Pointers
  BY DEF RaidsFit
<1>1. CASE kind = "spawn" /\ RefType[q] # "none"
  <2> DEFINE g == [t \in Things |-> IF t \in outcome THEN q ELSE x6[t]]
             u == [s EXCEPT !.refCount[q] = @ + Cardinality(outcome)]
  <2>1. after.s = u /\ after.raidOf = g
    BY <1>1, SameRaidCount DEF Raid!Executed
  <2>2. outcome \in SUBSET PointTo(x6, None)
    BY <1>1 DEF Raid!Outcomes, PointTo
  <2>3. Found(x6, outcome, q, g)
    BY <1>0, <2>2, Finding
  <2> HIDE DEF g
  <2>4. Cardinality(outcome) \in Nat
    BY <2>3 DEF Found
  <2>5. /\ u \in RaidStates
        /\ \A p \in Raids : u.refCount[p] = IF p = q THEN s.refCount[p] + Cardinality(outcome) ELSE s.refCount[p]
        /\ u.running = s.running /\ u.eventCount = s.eventCount /\ u.nextEvent = s.nextEvent /\ u.due = s.due
    BY <1>0, <2>4 DEF RaidStates
  <2> HIDE DEF u
  <2>6. WithinEvents(u) /\ RefsCounted(u, g)
    BY <2>3, <2>5 DEF RaidsFit, WithinEvents, RefsCounted, Found
  <2>7. \A p \in Raids \ {q} : InTurn(s, p) => InTurn(u, p)
    BY <2>5 DEF InTurn
  <2>8. Executing(u, q)
    BY <2>5 DEF RaidsFit, Executing
  <2> QED BY <2>1, <2>3, <2>5, <2>6, <2>7, <2>8 DEF RaidsFit, Found
<1>2. CASE kind = "script" /\ outcome # {}
  <2>1. PICK t \in Things : outcome = {t} /\ x6[t] # None
    BY <1>2 DEF Raid!Outcomes
  <2>2. (CHOOSE x \in outcome : TRUE) = t
    BY <2>1
  <2> DEFINE g == [x6 EXCEPT ![t] = None]
  <2>3. /\ after.s = IF x6[t] \in Raids THEN Raid!UnRef(s, x6[t]) ELSE s
        /\ after.raidOf = g
    BY <1>2, <2>2 DEF Raid!Executed
  <2>4. CASE x6[t] \in Raids
    BY <2>3, <2>4, UnRefFits
  <2>5. CASE x6[t] \notin Raids
    <3>1. OneLess(x6, t, g)
      BY <1>0, LettingGo
    <3> HIDE DEF g
    <3>2. RefsCounted(s, g) /\ g \in Pointers
      BY <2>5, <3>1 DEF OneLess, RefsCounted, RaidsFit
    <3> QED BY <2>3, <2>5, <3>2 DEF RaidsFit
  <2> QED BY <2>4, <2>5
<1>3. CASE ~(kind = "spawn" /\ RefType[q] # "none") /\ ~(kind = "script" /\ outcome # {})
  <2>1. after = [s |-> s, raidOf |-> x6]
    BY <1>3 DEF Raid!Executed
  <2> QED BY <2>1
<1> QED BY <1>1, <1>2, <1>3

LEMMA RaidStepKeeps ==
  ASSUME RaidInv, Raid!Next
  PROVE  RaidInv'
<1> USE DEF RaidInv
<1> DEFINE s == Raid!Now
<1>0. /\ s \in RaidStates /\ x6 \in Pointers
      /\ \A r \in Raids : InTurn(s, r) /\ s.eventCount[r] <= Len(Events[r])
      /\ WithinEvents(s) /\ RefsCounted(s, x6)
  BY RaidConstants DEF RaidsFit, WithinEvents
<1>00. s.running = x1 /\ s.refCount = x2 /\ s.eventCount = x3 /\ s.nextEvent = x4 /\ s.due = x5
  BY DEF Raid!Now
<1>1. ASSUME NEW r \in Raids, Raid!StartRaid(r)
      PROVE  RaidInv'
  <2> DEFINE a == [s EXCEPT !.running = r]
             t == [Raid!Scheduled(s, r) EXCEPT !.running = r]
  <2>1. Raid!Become(t) /\ x6' = x6 /\ x1 = None /\ x2[r] = 0 /\ Raid!HasNext(s, r)
    BY <1>1 DEF Raid!StartRaid
  <2>2. /\ \A p \in Raids : s.due[p] = "no" /\ ~s.nextEvent[p]
    BY <1>0, <1>00, <2>1, RaidConstants DEF InTurn
  <2>3. /\ t \in RaidStates /\ t.running = r /\ t.refCount = s.refCount
        /\ t.eventCount = [s.eventCount EXCEPT ![r] = @ + 1]
        /\ t.nextEvent = [s.nextEvent EXCEPT ![r] = TRUE]
        /\ t.due = [s.due EXCEPT ![r] = "scheduled"]
    <3>1. s.eventCount \in [Raids -> Nat] /\ s.nextEvent \in [Raids -> BOOLEAN]
      BY <1>0 DEF RaidStates
    <3>2. [s.eventCount EXCEPT ![r] = @ + 1] \in [Raids -> Nat]
      BY <3>1
    <3>3. [s.nextEvent EXCEPT ![r] = TRUE] \in [Raids -> BOOLEAN]
      BY <3>1
    <3>4. t = [s EXCEPT !.eventCount = [s.eventCount EXCEPT ![r] = @ + 1],
                        !.nextEvent = [s.nextEvent EXCEPT ![r] = TRUE],
                        !.due = [s.due EXCEPT ![r] = "scheduled"], !.running = r]
      <4> HIDE DEF s
      <4> QED BY <1>0 DEF RaidStates, Raid!Scheduled
    <3> HIDE DEF s, t
    <3> QED BY <1>0, <3>2, <3>3, <3>4 DEF RaidStates
  <2> HIDE DEF s, t
  <2>4. \A p \in Raids : t.eventCount[p] = IF p = r THEN s.eventCount[p] + 1 ELSE s.eventCount[p]
    BY <1>0, <2>3 DEF RaidStates
  <2>5. WithinEvents(t)
    <3>1. s.eventCount[r] < Len(Events[r]) /\ s.eventCount[r] \in Nat
      BY <1>0, <2>1 DEF Raid!HasNext, RaidStates
    <3> QED BY <2>4, <3>1, RaidConstants, <1>0 DEF WithinEvents
  <2>6. ASSUME NEW p \in Raids, p # r
        PROVE  InTurn(t, p)
    <3>1. t.due[p] = "no" /\ t.running # p /\ t.refCount[p] = s.refCount[p] /\ t.eventCount[p] = s.eventCount[p]
      BY <1>0, <2>2, <2>3, <2>4, <2>6 DEF RaidStates
    <3>2. ~t.nextEvent[p]
      BY <1>0, <2>2, <2>3, <2>6 DEF RaidStates
    <3>3. s.running # p
      BY <1>00, <2>1, RaidConstants DEF s
    <3> QED BY <1>0, <3>1, <3>2, <3>3 DEF InTurn
  <2>7. InTurn(t, r)
    BY <1>0, <2>3 DEF RaidStates, InTurn
  <2>8. RefsCounted(t, x6)
    BY <1>0, <2>3 DEF RefsCounted
  <2>9. RaidsFit(t, x6, None)
    BY <1>0, <2>3, <2>5, <2>6, <2>7, <2>8, RaidConstants DEF RaidsFit
  <2> QED BY <2>1, <2>9, RaidBecomes
<1>2. ASSUME NEW r \in Raids, Raid!EventIsDue(r)
      PROVE  RaidInv'
  <2> DEFINE t == [s EXCEPT !.due = [x5 EXCEPT ![r] = "posted"]]
  <2>1. Raid!Become(t) /\ x6' = x6 /\ s.due[r] = "scheduled"
    BY <1>2 DEF Raid!EventIsDue, Raid!Become, Raid!Now
  <2> HIDE DEF s
  <2>2. /\ t \in RaidStates /\ t.running = s.running /\ t.refCount = s.refCount
        /\ t.eventCount = s.eventCount /\ t.nextEvent = s.nextEvent
        /\ \A p \in Raids : t.due[p] = IF p = r THEN "posted" ELSE s.due[p]
    BY <1>0, <1>00 DEF RaidStates
  <2> HIDE DEF t
  <2>3. WithinEvents(t) /\ RefsCounted(t, x6)
    BY <1>0, <2>2 DEF WithinEvents, RefsCounted
  <2>4. \A p \in Raids : InTurn(t, p)
    BY <1>0, <2>1, <2>2 DEF InTurn
  <2>5. RaidsFit(t, x6, None)
    BY <1>0, <2>2, <2>3, <2>4, RaidConstants DEF RaidsFit
  <2> QED BY <2>1, <2>5, RaidBecomes
<1>3. ASSUME NEW r \in Raids, Raid!ExecuteRaidEvent(r)
      PROVE  RaidInv'
  <2> DEFINE kind == Events[r][x3[r]]
             begun == [s EXCEPT !.due[r] = "no"]
  <2>1. PICK outcome \in Raid!Outcomes(kind), ok \in BOOLEAN :
          LET after == Raid!Executed(begun, r, kind, outcome) IN
          /\ x6' = after.raidOf
          /\ Raid!Become(IF ok /\ Raid!HasNext(after.s, r) THEN Raid!Scheduled(after.s, r)
                         ELSE Raid!ResetRaid(after.s, r, FALSE))
    BY <1>3 DEF Raid!ExecuteRaidEvent
  <2>2. s.due[r] = "posted"
    BY <1>3 DEF Raid!ExecuteRaidEvent, Raid!Now
  <2> DEFINE after == Raid!Executed(begun, r, kind, outcome)
  <2> HIDE DEF s
  <2>3. RaidsFit(begun, x6, r)
    <3>1. /\ begun \in RaidStates /\ begun.running = s.running /\ begun.refCount = s.refCount
          /\ begun.eventCount = s.eventCount /\ begun.nextEvent = s.nextEvent
          /\ \A p \in Raids : begun.due[p] = IF p = r THEN "no" ELSE s.due[p]
      BY <1>0 DEF RaidStates
    <3> HIDE DEF begun
    <3>2. WithinEvents(begun) /\ RefsCounted(begun, x6)
      BY <1>0, <3>1 DEF WithinEvents, RefsCounted
    <3>3. \A p \in Raids \ {r} : InTurn(begun, p)
      BY <1>0, <3>1 DEF InTurn
    <3>4. Executing(begun, r)
      BY <1>0, <2>2, <3>1 DEF InTurn, Executing
    <3> QED BY <1>0, <3>1, <3>2, <3>3, <3>4 DEF RaidsFit
  <2> HIDE DEF begun, kind
  <2>4. RaidsFit(after.s, after.raidOf, r)
    BY <2>3, ExecutedFits
  <2> DEFINE t == IF ok /\ Raid!HasNext(after.s, r) THEN Raid!Scheduled(after.s, r)
                  ELSE Raid!ResetRaid(after.s, r, FALSE)
  <2>5. x6' = after.raidOf /\ Raid!Become(t)
    BY <2>1
  <2> HIDE DEF after
  <2>6. RaidsFit(t, x6', None)
    BY <2>4, <2>5, ScheduledFits, ResetFits
  <2> HIDE DEF t
  <2> QED BY <2>5, <2>6, RaidBecomes
<1>4. ASSUME NEW t \in Things, Raid!Gone(t)
      PROVE  RaidInv'
  <2> DEFINE g == [x6 EXCEPT ![t] = None]
  <2>1. x6' = g
    BY <1>4 DEF Raid!Gone
  <2>2. CASE x6[t] \in Raids
    <3>1. Raid!Become(Raid!UnRef(s, x6[t]))
      BY <1>4, <2>2 DEF Raid!Gone
    <3>2. RaidsFit(Raid!UnRef(s, x6[t]), g, None)
      BY <2>2, UnRefFits
    <3> QED BY <2>1, <3>1, <3>2, RaidBecomes
  <2>3. CASE x6[t] \notin Raids
    <3>1. Raid!Become(s)
      BY <1>4, <2>3 DEF Raid!Gone
    <3>2. OneLess(x6, t, g)
      BY <1>0, LettingGo
    <3> HIDE DEF g, s
    <3>3. RefsCounted(s, g) /\ g \in Pointers
      BY <1>0, <2>3, <3>2 DEF OneLess, RefsCounted
    <3>4. RaidsFit(s, g, None)
      BY <1>0, <3>3, RaidConstants DEF RaidsFit
    <3> QED BY <2>1, <3>1, <3>4, RaidBecomes
  <2> QED BY <2>2, <2>3
<1>5. CASE Raid!Reload
  <2>1. Raid!Become(Raid!Fresh) /\ x6' = [t \in Things |-> IF x6[t] = None THEN None ELSE Freed]
    BY <1>5 DEF Raid!Reload
  <2>2. x6' \in Pointers /\ \A r \in Raids : PointTo(x6', r) = {}
    BY <2>1, RaidConstants DEF PointTo, Pointers
  <2>3. RaidsFit(Raid!Fresh, x6', None)
    BY <2>2, FreshFits
  <2> QED BY <2>1, <2>3, RaidBecomes
<1> QED BY <1>1, <1>2, <1>3, <1>4, <1>5 DEF Raid!Next

LEMMA RaidInvStutters ==
  ASSUME RaidInv, Untouched
  PROVE  RaidInv'
BY DEF RaidInv, Untouched, Raid!Now

LEMMA RaidInvIsEnough ==
  ASSUME RaidInv
  PROVE  Raid!TypeOK /\ Raid!RaidsTakeTurns
<1> DEFINE s == Raid!Now
<1>1. /\ s \in RaidStates /\ x6 \in Pointers
      /\ \A r \in Raids : InTurn(s, r)
      /\ \A r \in Raids : s.eventCount[r] <= Len(Events[r])
      /\ \A r \in Raids : s.refCount[r] = Cardinality(PointTo(x6, r))
  BY RaidConstants DEF RaidInv, RaidsFit, WithinEvents, RefsCounted
<1>2. s.running = x1 /\ s.refCount = x2 /\ s.eventCount = x3 /\ s.nextEvent = x4 /\ s.due = x5
  BY DEF Raid!Now
<1> HIDE DEF s
<1>3. \A r \in Raids : x3[r] \in 0 .. Len(Events[r])
  BY <1>1, <1>2, RaidConstants DEF RaidStates
<1>4. Raid!TypeOK
  BY <1>1, <1>2, <1>3 DEF Raid!TypeOK, RaidStates, Pointers
<1>5. \A r \in Raids : x2[r] = Raid!Cardinality({t \in Things : x6[t] = r})
  BY <1>1, <1>2, SameRaidCount DEF PointTo
<1>6. Raid!RaidsTakeTurns
  BY <1>1, <1>2, <1>5 DEF Raid!RaidsTakeTurns, InTurn
<1> QED BY <1>4, <1>6
-----------------------------------------------------------------------------
(* Scripts.  The environments, as a sequence.                              *)
Environments == [knows : SUBSET Things, event : Timers \cup {None}]

ScriptType ==
  /\ x1 \in Seq(Environments) /\ Len(x1) <= MaxEnv
  /\ x2 \in [1 .. MaxEnv -> SUBSET Things]
  /\ x3 \in [Things -> {"unborn", "virtual", "placed", "removed", "deleted"}]
  /\ x4 \in [Things -> Nat]
  /\ x5 \in [Things -> UniqueIds \cup {None}]
  /\ x6 \in [UniqueIds -> Things \cup {None}]
  /\ x7 \subseteq Timers /\ x8 \subseteq Timers /\ x12 \subseteq Timers

KnownTo(i) == \E k \in 1 .. Len(x1) : i \in x1[k].knows
InTheMap(i) == \E u \in UniqueIds : x6[u] = i

(* What is about to be freed is out of the world, or never came into it    *)
(* and cannot be named any more.                                           *)
FreedOnce ==
  \A i \in Things \ x9 :
    /\ x4[i] <= 1
    /\ x4[i] > 0 => x3[i] = "removed" \/ (x3[i] = "virtual" /\ ~KnownTo(i) /\ ~InTheMap(i))
    /\ x3[i] = "removed" => x4[i] = 1
    /\ x3[i] = "virtual" => x4[i] = 1 \/ \E k \in 1 .. Len(x1) : i \in x2[k]

(* What waits for its place has not been freed.                            *)
TempsAreNew ==
  /\ \A i \in Things : x3[i] = "unborn" => x4[i] = 0 /\ x5[i] = None
  /\ \A k \in 1 .. MaxEnv : \A i \in x2[k] :
       x3[i] # "unborn" /\ (x3[i] = "virtual" => x4[i] = 0)

(* The map of unique ids names an item only by its own id, and none that   *)
(* has been removed.                                                       *)
NamedByItsId ==
  \A u \in UniqueIds : x6[u] # None => x5[x6[u]] = u /\ x3[x6[u]] # "removed"

(* A unique item is in the map from the moment it gets its id.             *)
UniqueListed ==
  \A i \in Things :
    x3[i] \in {"virtual", "placed"} /\ x5[i] \in UniqueIds \ x11 => x6[x5[i]] = i

(* Only the outermost environment runs an event, which is not waiting.     *)
OuterEvent ==
  /\ \A k \in 2 .. Len(x1) : x1[k].event = None
  /\ x1 # <<>> => x1[1].event \notin x8

ScriptInv ==
  /\ ScriptType
  /\ FreedOnce
  /\ TempsAreNew
  /\ NamedByItsId
  /\ Script!NamedItemsExist
  /\ UniqueListed
  /\ OuterEvent
  /\ Script!EventsRunOnce

LEMMA ScriptFacts ==
  /\ MaxEnv \in Nat \ {0}
  /\ None \notin Things /\ None \notin UniqueIds /\ None \notin Timers
BY PartsAssumption DEF Script!ScriptAssumption

LEMMA ScriptInit ==
  ASSUME Script!Init
  PROVE  ScriptInv
<1>1. /\ x1 = <<>> /\ Len(x1) = 0 /\ x2 = [k \in 1 .. MaxEnv |-> {}]
      /\ x3 = [i \in Things |-> "unborn"] /\ x4 = [i \in Things |-> 0]
      /\ x5 = [i \in Things |-> None] /\ x6 = [u \in UniqueIds |-> None]
      /\ x7 = {} /\ x8 = {} /\ x9 = {} /\ x11 = {} /\ x12 = {}
  BY DEF Script!Init
<1>2. ScriptType
  <2>1. x1 \in Seq(Environments)
    BY <1>1
  <2> QED BY <1>1, <2>1, ScriptFacts DEF ScriptType
<1>3. FreedOnce /\ TempsAreNew
  BY <1>1 DEF FreedOnce, TempsAreNew
<1>4. NamedByItsId /\ UniqueListed
  BY <1>1 DEF NamedByItsId, UniqueListed
<1>5. Script!NamedItemsExist
  BY <1>1 DEF Script!NamedItemsExist, Script!Top
<1>6. OuterEvent /\ Script!EventsRunOnce
  BY <1>1 DEF OuterEvent, Script!EventsRunOnce
<1> QED BY <1>2, <1>3, <1>4, <1>5, <1>6 DEF ScriptInv

(* The environments after each kind of step.                               *)
LEMMA EnvironmentsThen ==
  ASSUME ScriptType
  PROVE  /\ Len(x1) \in Nat
         /\ \A k \in 1 .. Len(x1) : x1[k].knows \subseteq Things
         /\ x1 # <<>> => Len(x1) \in 1 .. MaxEnv
         /\ \A i \in Things : Script!Known(i) =>
              /\ x1 # <<>>
              /\ x3[i] \in {"virtual", "placed"}
              /\ KnownTo(i) \/ InTheMap(i)
<1>1. x1 \in Seq(Environments) /\ Len(x1) <= MaxEnv
  BY DEF ScriptType
<1>2. \A k \in 1 .. Len(x1) : x1[k] \in Environments
  BY <1>1
<1>3. x1 # <<>> => Len(x1) \in 1 .. MaxEnv
  BY <1>1, ScriptFacts
<1>4. ASSUME NEW i \in Things, Script!Known(i)
      PROVE  x1 # <<>> /\ x3[i] \in {"virtual", "placed"} /\ (KnownTo(i) \/ InTheMap(i))
  <2>1. /\ x1 # <<>> /\ x3[i] \in {"virtual", "placed"}
        /\ i \in x1[Len(x1)].knows \cup ({x6[u] : u \in UniqueIds} \ {None})
    BY <1>4 DEF Script!Known, Script!Running, Script!Named, Script!Top
  <2> QED BY <1>3, <2>1 DEF KnownTo, InTheMap
<1> QED BY <1>1, <1>2, <1>3, <1>4 DEF Environments

LEMMA KnowsThen ==
  ASSUME ScriptType, x1 # <<>>, NEW i \in Things, Script!Knows(i)
  PROVE  /\ x1' \in Seq(Environments) /\ Len(x1') = Len(x1)
         /\ \A k \in 1 .. Len(x1) : /\ x1'[k].event = x1[k].event
                                    /\ x1'[k].knows \subseteq x1[k].knows \cup {i}
         /\ x1' # <<>>
<1> DEFINE n == Len(x1)
<1>1. x1 \in Seq(Environments) /\ n \in 1 .. Len(x1)
  BY DEF ScriptType
<1>2. x1' = [x1 EXCEPT ![n].knows = @ \cup {i}]
  BY DEF Script!Knows, Script!Top
<1>3. \A k \in 1 .. Len(x1) : x1[k] \in Environments
  BY <1>1
<1>4. x1' = [x1 EXCEPT ![n] = [x1[n] EXCEPT !.knows = x1[n].knows \cup {i}]]
  BY <1>2
<1> DEFINE e == [x1[n] EXCEPT !.knows = x1[n].knows \cup {i}]
<1>5. e \in Environments /\ e.event = x1[n].event /\ e.knows = x1[n].knows \cup {i}
  BY <1>1, <1>3 DEF Environments
<1> HIDE DEF e, n
<1>6. /\ x1' \in Seq(Environments) /\ Len(x1') = Len(x1)
      /\ \A k \in 1 .. Len(x1) : x1'[k] = IF k = n THEN e ELSE x1[k]
  BY <1>1, <1>4, <1>5 DEF e
<1>7. x1' # <<>>
  BY <1>1, <1>6
<1> QED BY <1>5, <1>6, <1>7

LEMMA FinishThen ==
  ASSUME ScriptType, Script!Finish
  PROVE  /\ x1' \in Seq(Environments) /\ Len(x1') = Len(x1) - 1
         /\ \A k \in 1 .. Len(x1) - 1 : x1'[k] = x1[k]
         /\ Len(x1) \in 1 .. MaxEnv
<1>1. x1 \in Seq(Environments) /\ x1 # <<>> /\ x1' = SubSeq(x1, 1, Len(x1) - 1)
  BY DEF ScriptType, Script!Finish, Script!Running, Script!Top
<1>2. Len(x1) \in 1 .. MaxEnv /\ Len(x1) \in Nat
  BY EnvironmentsThen, <1>1
<1>3. \A k \in 1 .. Len(x1) - 1 : x1[k] \in Environments
  BY <1>1, <1>2
<1> DEFINE n == Len(x1) - 1
           front == SubSeq(x1, 1, n)
<1>4. n \in Int /\ 1 \in Int /\ n \in Nat
  BY <1>2
<1> HIDE DEF n
<1>5. /\ front \in Seq(Environments)
      /\ Len(front) = IF 1 <= n THEN n - 1 + 1 ELSE 0
      /\ \A k \in 1 .. n - 1 + 1 : front[k] = x1[1 + k - 1]
  <2>1. \A k \in 1 .. n : x1[k] \in Environments
    BY <1>3 DEF n
  <2> QED BY <1>4, <2>1, SubSeqProperties, SMTT(20)
<1>6. Len(front) = n /\ \A k \in 1 .. n : front[k] = x1[k]
  <2>1. n - 1 + 1 = n /\ \A k \in 1 .. n : 1 + k - 1 = k
    BY <1>4
  <2>2. 1 <= n \/ n = 0
    BY <1>4
  <2> QED BY <1>5, <2>1, <2>2
<1> QED BY <1>1, <1>2, <1>5, <1>6 DEF n

LEMMA ScriptTypeKept ==
  ASSUME ScriptType, Script!Next
  PROVE  ScriptType'
<1> USE ScriptFacts
<1>0. /\ x1 \in Seq(Environments) /\ Len(x1) <= MaxEnv
      /\ x2 \in [1 .. MaxEnv -> SUBSET Things]
      /\ x3 \in [Things -> {"unborn", "virtual", "placed", "removed", "deleted"}]
      /\ x4 \in [Things -> Nat]
      /\ x5 \in [Things -> UniqueIds \cup {None}]
      /\ x6 \in [UniqueIds -> Things \cup {None}]
      /\ x7 \subseteq Timers /\ x8 \subseteq Timers /\ x12 \subseteq Timers
  BY DEF ScriptType
<1>1. CASE Script!Execute
  <2>1. /\ x1' = Append(x1, [knows |-> {}, event |-> None]) /\ Len(x1) < MaxEnv
        /\ UNCHANGED <<x2, x3, x4, x5, x6, x7, x8, x12>>
    BY <1>1 DEF Script!Execute, Script!Top, Script!itemVars, Script!eventVars
  <2>2. [knows |-> {}, event |-> None] \in Environments
    BY DEF Environments
  <2>3. x1' \in Seq(Environments) /\ Len(x1') <= MaxEnv
    BY <1>0, <2>1, <2>2
  <2> QED BY <1>0, <2>1, <2>3 DEF ScriptType
<1>2. CASE Script!Finish
  <2>1. x1' \in Seq(Environments) /\ Len(x1') <= MaxEnv
    BY <1>0, <1>2, FinishThen
  <2>2. /\ x4' = [i \in Things |-> x4[i] + (IF i \in Script!Unplaced THEN 1 ELSE 0)]
        /\ x2' = [k \in 1 .. MaxEnv |-> {}] /\ x7' \subseteq x7
        /\ UNCHANGED <<x3, x5, x6, x8, x12>>
    BY <1>2 DEF Script!Finish, Script!Reset
  <2>3. x4' \in [Things -> Nat]
    BY <1>0, <2>2
  <2> QED BY <1>0, <2>1, <2>2, <2>3 DEF ScriptType
<1>3. CASE Script!Cleanup
  BY <1>0, <1>3 DEF Script!Cleanup, Script!eventVars, ScriptType
<1>4. CASE Script!Reload
  BY <1>0, <1>4 DEF Script!Reload, Script!itemVars, ScriptType
<1>5. ASSUME NEW i \in Things, Script!CreateItemEx(i)
      PROVE  ScriptType'
  <2>1. /\ x1 # <<>> /\ Script!Knows(i)
        /\ x3' = [x3 EXCEPT ![i] = "virtual"]
        /\ x2' = [x2 EXCEPT ![Len(x1)] = @ \cup {i}]
        /\ UNCHANGED <<x4, x5, x6, x7, x8, x12>>
    BY <1>5 DEF Script!CreateItemEx, Script!Running, Script!Top, Script!eventVars
  <2>2. x1' \in Seq(Environments) /\ Len(x1') = Len(x1)
    BY <2>1, KnowsThen
  <2>3. x3' \in [Things -> {"unborn", "virtual", "placed", "removed", "deleted"}]
    BY <1>0, <2>1
  <2>4. x2' \in [1 .. MaxEnv -> SUBSET Things]
    BY <1>0, <2>1
  <2> QED BY <1>0, <2>1, <2>2, <2>3, <2>4 DEF ScriptType
<1>6. ASSUME NEW i \in Things, Script!AddItemEx(i)
      PROVE  ScriptType'
  BY <1>0, <1>6 DEF Script!AddItemEx, Script!InternalAddItem, Script!RemoveTempItem,
                    Script!eventVars, ScriptType
<1>7. ASSUME NEW i \in Things, Script!MailOffline(i)
      PROVE  ScriptType'
  BY <1>0, <1>7 DEF Script!MailOffline, Script!eventVars, ScriptType
<1>8. ASSUME NEW i \in Things, Script!Find(i)
      PROVE  ScriptType'
  <2>1. x1 # <<>> /\ Script!Knows(i) /\ UNCHANGED <<x2, x3, x4, x5, x6, x7, x8, x12>>
    BY <1>8 DEF Script!Find, Script!Running, Script!itemVars, Script!eventVars
  <2>2. x1' \in Seq(Environments) /\ Len(x1') = Len(x1)
    BY <2>1, KnowsThen
  <2> QED BY <1>0, <2>1, <2>2 DEF ScriptType
<1>9. ASSUME NEW i \in Things, Script!RemoveItem(i)
      PROVE  ScriptType'
  <2>1. /\ UNCHANGED <<x1, x2, x5, x7, x8, x12>>
        /\ x6' = [u \in UniqueIds |-> IF u = x5[i] THEN None ELSE x6[u]]
        /\ IF x3[i] = "placed"
             THEN x3' = [x3 EXCEPT ![i] = "removed"] /\ x4' = [x4 EXCEPT ![i] = @ + 1]
             ELSE UNCHANGED <<x3, x4>>
    BY <1>9 DEF Script!RemoveItem, Script!RemoveUnique, Script!eventVars
  <2>2. x6' \in [UniqueIds -> Things \cup {None}]
    BY <1>0, <2>1
  <2>3. CASE x3[i] = "placed"
    <3>1. x3' \in [Things -> {"unborn", "virtual", "placed", "removed", "deleted"}]
      BY <1>0, <2>1, <2>3
    <3>2. x4[i] \in Nat /\ x4[i] + 1 \in Nat
      BY <1>0
    <3>3. x4' = [x4 EXCEPT ![i] = x4[i] + 1]
      BY <2>1, <2>3
    <3>4. x4' \in [Things -> Nat]
      BY <1>0, <3>2, <3>3
    <3> QED BY <1>0, <2>1, <2>2, <3>1, <3>4 DEF ScriptType
  <2>4. CASE x3[i] # "placed"
    BY <1>0, <2>1, <2>2, <2>4 DEF ScriptType
  <2> QED BY <2>3, <2>4
<1>10. ASSUME NEW i \in Things, NEW u \in UniqueIds, Script!SetUniqueId(i, u)
       PROVE  ScriptType'
  <2>1. /\ x5' = [x5 EXCEPT ![i] = u]
        /\ x6' = [x6 EXCEPT ![u] = IF @ = None THEN i ELSE @]
        /\ UNCHANGED <<x1, x2, x3, x4, x7, x8, x12>>
    BY <1>10 DEF Script!SetUniqueId, Script!eventVars
  <2>2. /\ x5' \in [Things -> UniqueIds \cup {None}]
        /\ x6' \in [UniqueIds -> Things \cup {None}]
    BY <1>0, <2>1
  <2> QED BY <1>0, <2>1, <2>2 DEF ScriptType
<1>11. ASSUME NEW e \in Timers, Script!AddEvent(e) \/ Script!StopEvent(e)
       PROVE  ScriptType'
  BY <1>0, <1>11 DEF Script!AddEvent, Script!StopEvent, Script!itemVars, ScriptType
<1>12. ASSUME NEW e \in Timers, Script!ExecuteTimer(e)
       PROVE  ScriptType'
  <2>1. /\ x8' = x8 \ {e} /\ UNCHANGED <<x2, x3, x4, x5, x6, x7, x12>>
        /\ x1' = x1 \/ x1' = <<[knows |-> {}, event |-> e]>>
    BY <1>12 DEF Script!ExecuteTimer, Script!itemVars
  <2>2. [knows |-> {}, event |-> e] \in Environments
    BY DEF Environments
  <2>3. CASE x1' = x1
    BY <1>0, <2>1, <2>3 DEF ScriptType
  <2>4. CASE x1' = <<[knows |-> {}, event |-> e]>>
    <3>1. x1' \in Seq(Environments) /\ Len(x1') = 1
      BY <2>2, <2>4
    <3>2. 1 <= MaxEnv
      OBVIOUS
    <3> QED BY <1>0, <2>1, <3>1, <3>2 DEF ScriptType
  <2> QED BY <2>1, <2>3, <2>4
<1> QED BY <1>1, <1>2, <1>3, <1>4, <1>5, <1>6, <1>7, <1>8, <1>9, <1>10, <1>11, <1>12
        DEF Script!Next

(* No step loses an item, or frees one twice.                              *)
LEMMA FreedOnceKept ==
  ASSUME ScriptInv, Script!Next
  PROVE  FreedOnce' /\ TempsAreNew'
<1> USE ScriptFacts
<1>0. ScriptType /\ FreedOnce /\ TempsAreNew
  BY DEF ScriptInv
<1>t. /\ x2 \in [1 .. MaxEnv -> SUBSET Things]
      /\ x3 \in [Things -> {"unborn", "virtual", "placed", "removed", "deleted"}]
      /\ x4 \in [Things -> Nat]
      /\ x5 \in [Things -> UniqueIds \cup {None}]
      /\ x6 \in [UniqueIds -> Things \cup {None}]
  BY DEF ScriptInv, ScriptType
<1>e. /\ Len(x1) \in Nat
      /\ \A k \in 1 .. Len(x1) : x1[k].knows \subseteq Things
      /\ x1 # <<>> => Len(x1) \in 1 .. MaxEnv
      /\ \A i \in Things : Script!Known(i) =>
           x1 # <<>> /\ x3[i] \in {"virtual", "placed"} /\ (KnownTo(i) \/ InTheMap(i))
  BY <1>0, EnvironmentsThen
<1>f. \A i \in Things \ x9 :
        /\ x4[i] <= 1
        /\ x4[i] > 0 => x3[i] = "removed" \/ (x3[i] = "virtual" /\ ~KnownTo(i) /\ ~InTheMap(i))
        /\ x3[i] = "removed" => x4[i] = 1
        /\ x3[i] = "virtual" => x4[i] = 1 \/ \E k \in 1 .. Len(x1) : i \in x2[k]
  BY <1>0 DEF FreedOnce
<1>n. /\ \A i \in Things : x3[i] = "unborn" => x4[i] = 0 /\ x5[i] = None
      /\ \A k \in 1 .. MaxEnv : \A i \in x2[k] :
           x3[i] # "unborn" /\ (x3[i] = "virtual" => x4[i] = 0)
  BY <1>0 DEF TempsAreNew
<1>1. CASE Script!Execute
  <2>1. /\ x1' = Append(x1, [knows |-> {}, event |-> None])
        /\ UNCHANGED <<x2, x3, x4, x5, x6, x9>>
    BY <1>1 DEF Script!Execute, Script!itemVars
  <2>2. /\ Len(x1') = Len(x1) + 1
        /\ \A k \in 1 .. Len(x1) : x1'[k] = x1[k]
        /\ x1'[Len(x1) + 1].knows = {}
    BY <1>0, <2>1 DEF ScriptType
  <2>3. \A i \in Things : KnownTo(i)' <=> KnownTo(i)
    BY <1>e, <2>2 DEF KnownTo
  <2>4. \A i \in Things : InTheMap(i)' <=> InTheMap(i)
    BY <2>1 DEF InTheMap
  <2>5. FreedOnce'
    BY <1>e, <1>f, <2>1, <2>2, <2>3, <2>4 DEF FreedOnce
  <2> QED BY <1>n, <2>1, <2>5 DEF TempsAreNew
<1>2. CASE Script!Finish
  <2> DEFINE n == Len(x1)
             outer == UNION {x1[k].knows : k \in 1 .. (n - 1)}
             unique == {x6[u] : u \in UniqueIds}
             unplaced == Script!Unplaced
  <2>1. /\ x4' = [i \in Things |-> x4[i] + (IF i \in unplaced THEN 1 ELSE 0)]
        /\ x9' = x9 \cup (unplaced \cap (outer \cup unique))
        /\ x2' = [k \in 1 .. MaxEnv |-> {}]
        /\ UNCHANGED <<x3, x5, x6>>
    BY <1>2 DEF Script!Finish, Script!Reset, Script!Top
  <2>2. /\ Len(x1') = n - 1 /\ n \in 1 .. MaxEnv
        /\ \A k \in 1 .. n - 1 : x1'[k] = x1[k]
    BY <1>0, <1>2, FinishThen
  <2>3. \A i : i \in unplaced <=> x3[i] = "virtual" /\ \E k \in 1 .. MaxEnv : i \in x2[k]
    BY DEF Script!Unplaced, Script!Temps
  <2>4. \A i \in unplaced : i \in Things /\ x4[i] = 0
    BY <1>t, <1>n, <2>3
  <2>5. /\ \A i : KnownTo(i)' => i \in outer
        /\ \A i : InTheMap(i)' => i \in unique
        /\ \A i \in Things : KnownTo(i)' => KnownTo(i)
        /\ \A i \in Things : InTheMap(i)' => InTheMap(i)
    <3>1. \A i : KnownTo(i)' => \E k \in 1 .. n - 1 : i \in x1[k].knows
      BY <2>2 DEF KnownTo
    <3>2. \A i : (\E k \in 1 .. n - 1 : i \in x1[k].knows) => i \in outer /\ KnownTo(i)
      BY <2>2 DEF KnownTo
    <3>3. \A i : InTheMap(i)' => i \in unique /\ InTheMap(i)
      BY <2>1 DEF InTheMap
    <3> HIDE DEF outer, unique
    <3> QED BY <3>1, <3>2, <3>3
  <2> HIDE DEF unplaced, outer, unique, n
  <2>6. FreedOnce'
    <3> SUFFICES ASSUME NEW i \in Things \ x9'
                 PROVE  /\ x4'[i] <= 1
                        /\ x4'[i] > 0 => \/ x3'[i] = "removed"
                                         \/ x3'[i] = "virtual" /\ ~KnownTo(i)' /\ ~InTheMap(i)'
                        /\ x3'[i] = "removed" => x4'[i] = 1
                        /\ x3'[i] = "virtual" =>
                             x4'[i] = 1 \/ \E k \in 1 .. Len(x1') : i \in x2'[k]
      BY DEF FreedOnce
    <3>1. i \in Things \ x9
      BY <2>1
    <3>2. CASE i \in unplaced
      <4>1. x4'[i] = 1 /\ x3'[i] = "virtual"
        BY <2>1, <2>3, <2>4, <3>2
      <4>2. ~KnownTo(i)' /\ ~InTheMap(i)'
        BY <2>1, <2>5, <3>2
      <4> QED BY <4>1, <4>2
    <3>3. CASE i \notin unplaced
      <4>1. x4'[i] = x4[i] /\ x3'[i] = x3[i]
        BY <1>t, <2>1, <3>3
      <4>2. x3[i] = "virtual" => x4[i] = 1
        BY <1>f, <1>e, <2>2, <2>3, <3>1, <3>3 DEF n
      <4> QED BY <1>f, <2>5, <3>1, <4>1, <4>2
    <3> QED BY <3>2, <3>3
  <2>7. TempsAreNew'
    <3>1. \A i \in Things : x3'[i] = "unborn" => x4'[i] = 0 /\ x5'[i] = None
      BY <1>t, <1>n, <2>1, <2>3
    <3> QED BY <2>1, <3>1 DEF TempsAreNew
  <2> QED BY <2>6, <2>7
<1>3. CASE Script!Cleanup
  <2> DEFINE gone == {i \in Things : x4[i] > 0}
  <2>1. /\ x1 = <<>> /\ x1' = x1
        /\ x3' = [i \in Things |-> IF i \in gone THEN "deleted" ELSE x3[i]]
        /\ x4' = [i \in Things |-> 0]
        /\ UNCHANGED <<x2, x5, x6, x9>>
    BY <1>3 DEF Script!Cleanup
  <2>2. Len(x1) = 0
    BY <2>1
  <2>3. \A i \in Things : x3'[i] = IF x4[i] > 0 THEN "deleted" ELSE x3[i]
    BY <2>1
  <2>4. \A i \in Things : x4'[i] = 0
    BY <2>1
  <2> HIDE DEF gone
  <2>5. ASSUME NEW i \in Things \ x9
        PROVE  x3'[i] # "removed" /\ x3'[i] # "virtual"
    <3>1. x4[i] = 1 => x3'[i] = "deleted"
      BY <2>3
    <3> QED BY <1>f, <2>2, <2>3, <3>1
  <2>6. FreedOnce'
    BY <2>1, <2>4, <2>5 DEF FreedOnce
  <2>7. TempsAreNew'
    BY <1>t, <1>n, <2>1, <2>3, <2>4 DEF TempsAreNew
  <2> QED BY <2>6, <2>7
<1>4. CASE Script!Reload
  BY <1>0, <1>4 DEF Script!Reload, Script!itemVars, FreedOnce, TempsAreNew, KnownTo, InTheMap
<1>5. ASSUME NEW i \in Things, Script!CreateItemEx(i)
      PROVE  FreedOnce' /\ TempsAreNew'
  <2> DEFINE n == Len(x1)
  <2>1. /\ x1 # <<>> /\ Script!Knows(i) /\ x3[i] = "unborn"
        /\ x3' = [x3 EXCEPT ![i] = "virtual"]
        /\ x2' = [x2 EXCEPT ![n] = @ \cup {i}]
        /\ UNCHANGED <<x4, x5, x6, x9>>
    BY <1>5 DEF Script!CreateItemEx, Script!Running, Script!Top
  <2>2. /\ Len(x1') = n /\ n \in 1 .. MaxEnv
        /\ \A k \in 1 .. n : x1'[k].knows \subseteq x1[k].knows \cup {i}
    BY <1>0, <1>e, <2>1, KnowsThen
  <2> HIDE DEF n
  <2>3. \A j \in Things \ {i} : (KnownTo(j)' => KnownTo(j)) /\ (InTheMap(j)' => InTheMap(j))
    BY <2>1, <2>2 DEF KnownTo, InTheMap, n
  <2>4. /\ \A j \in Things \ {i} : x3'[j] = x3[j]
        /\ x3'[i] = "virtual" /\ x4[i] = 0 /\ i \in x2'[n]
        /\ \A k \in 1 .. MaxEnv : x2[k] \subseteq x2'[k] /\ x2'[k] \subseteq x2[k] \cup {i}
    BY <1>t, <1>n, <2>1, <2>2
  <2>5. FreedOnce'
    <3> SUFFICES ASSUME NEW j \in Things \ x9
                 PROVE  /\ x4[j] <= 1
                        /\ x4[j] > 0 => \/ x3'[j] = "removed"
                                        \/ x3'[j] = "virtual" /\ ~KnownTo(j)' /\ ~InTheMap(j)'
                        /\ x3'[j] = "removed" => x4[j] = 1
                        /\ x3'[j] = "virtual" => x4[j] = 1 \/ \E k \in 1 .. n : j \in x2'[k]
      BY <2>1, <2>2 DEF FreedOnce
    <3>1. CASE j = i
      BY <2>2, <2>4, <3>1
    <3>2. CASE j # i
      <4>1. x3'[j] = x3[j]
        BY <2>4, <3>2
      <4>2. \A k \in 1 .. n : j \in x2[k] => j \in x2'[k]
        BY <2>2, <2>4
      <4> QED BY <1>f, <2>3, <3>2, <4>1, <4>2 DEF n
    <3> QED BY <3>1, <3>2
  <2>6. TempsAreNew'
    BY <1>t, <1>n, <2>1, <2>4 DEF TempsAreNew
  <2> QED BY <2>5, <2>6
<1>6. ASSUME NEW i \in Things, Script!AddItemEx(i)
      PROVE  FreedOnce' /\ TempsAreNew'
  <2>1. /\ Script!Known(i) /\ x3[i] = "virtual" /\ x3' = [x3 EXCEPT ![i] = "placed"]
        /\ UNCHANGED <<x1, x2, x4, x5, x6, x9>>
    BY <1>6 DEF Script!AddItemEx, Script!InternalAddItem, Script!RemoveTempItem
  <2>2. i \notin x9 => x4[i] = 0
    <3>1. KnownTo(i) \/ InTheMap(i)
      BY <1>e, <2>1
    <3>2. x4[i] \in Nat
      BY <1>t
    <3> QED BY <1>f, <2>1, <3>1, <3>2
  <2>3. \A j \in Things : x3'[j] = IF j = i THEN "placed" ELSE x3[j]
    BY <1>t, <2>1
  <2>4. \A j : (KnownTo(j)' <=> KnownTo(j)) /\ (InTheMap(j)' <=> InTheMap(j))
    BY <2>1 DEF KnownTo, InTheMap
  <2>5. FreedOnce'
    BY <1>f, <2>1, <2>2, <2>3, <2>4 DEF FreedOnce
  <2> QED BY <1>t, <1>n, <2>1, <2>3, <2>5 DEF TempsAreNew
<1>7. ASSUME NEW i \in Things, Script!MailOffline(i)
      PROVE  FreedOnce' /\ TempsAreNew'
  <2>1. /\ Script!Known(i) /\ x3[i] = "virtual" /\ x3' = [x3 EXCEPT ![i] = "deleted"]
        /\ UNCHANGED <<x1, x2, x4, x5, x6, x9>>
    BY <1>7 DEF Script!MailOffline
  <2>2. i \notin x9 => x4[i] = 0
    <3>1. KnownTo(i) \/ InTheMap(i)
      BY <1>e, <2>1
    <3>2. i \notin x9 => ~(x4[i] > 0)
      BY <1>f, <2>1, <3>1
    <3> QED BY <1>t, <3>2
  <2>3. \A j \in Things : x3'[j] = IF j = i THEN "deleted" ELSE x3[j]
    BY <1>t, <2>1
  <2>4. \A j : (KnownTo(j)' <=> KnownTo(j)) /\ (InTheMap(j)' <=> InTheMap(j))
    BY <2>1 DEF KnownTo, InTheMap
  <2>5. FreedOnce'
    BY <1>f, <2>1, <2>2, <2>3, <2>4 DEF FreedOnce
  <2> QED BY <1>t, <1>n, <2>1, <2>3, <2>5 DEF TempsAreNew
<1>8. ASSUME NEW i \in Things, Script!Find(i)
      PROVE  FreedOnce' /\ TempsAreNew'
  <2>1. /\ x1 # <<>> /\ Script!Knows(i) /\ x3[i] = "placed"
        /\ UNCHANGED <<x2, x3, x4, x5, x6, x9>>
    BY <1>8 DEF Script!Find, Script!Running, Script!itemVars
  <2>2. /\ Len(x1') = Len(x1)
        /\ \A k \in 1 .. Len(x1) : x1'[k].knows \subseteq x1[k].knows \cup {i}
    BY <1>0, <2>1, KnowsThen
  <2>3. \A j \in Things : (j # i /\ KnownTo(j)' => KnownTo(j)) /\ (InTheMap(j)' => InTheMap(j))
    BY <2>1, <2>2 DEF KnownTo, InTheMap
  <2>4. FreedOnce'
    BY <1>f, <2>1, <2>2, <2>3 DEF FreedOnce
  <2> QED BY <1>n, <2>1, <2>4 DEF TempsAreNew
<1>9. ASSUME NEW i \in Things, Script!RemoveItem(i)
      PROVE  FreedOnce' /\ TempsAreNew'
  <2>1. /\ UNCHANGED <<x1, x2, x5, x9>>
        /\ x6' = [u \in UniqueIds |-> IF u = x5[i] THEN None ELSE x6[u]]
        /\ IF x3[i] = "placed"
             THEN x3' = [x3 EXCEPT ![i] = "removed"] /\ x4' = [x4 EXCEPT ![i] = @ + 1]
             ELSE UNCHANGED <<x3, x4>>
    BY <1>9 DEF Script!RemoveItem, Script!RemoveUnique
  <2>2. \A j \in Things : (KnownTo(j)' => KnownTo(j)) /\ (InTheMap(j)' => InTheMap(j))
    BY <2>1 DEF KnownTo, InTheMap
  <2>3. CASE x3[i] = "placed"
    <3>1. \A j \in Things : /\ x3'[j] = IF j = i THEN "removed" ELSE x3[j]
                            /\ x4'[j] = IF j = i THEN x4[i] + 1 ELSE x4[j]
      BY <1>t, <2>1, <2>3
    <3>2. i \notin x9 => x4[i] = 0
      BY <1>f, <1>t, <2>3
    <3>3. FreedOnce'
      BY <1>f, <2>1, <2>2, <3>1, <3>2 DEF FreedOnce
    <3> QED BY <1>t, <1>n, <2>1, <2>3, <3>1, <3>3 DEF TempsAreNew
  <2>4. CASE x3[i] # "placed"
    <3>1. FreedOnce'
      BY <1>f, <2>1, <2>2, <2>4 DEF FreedOnce
    <3> QED BY <1>n, <2>1, <2>4, <3>1 DEF TempsAreNew
  <2> QED BY <2>3, <2>4
<1>10. ASSUME NEW i \in Things, NEW u \in UniqueIds, Script!SetUniqueId(i, u)
       PROVE  FreedOnce' /\ TempsAreNew'
  <2>1. /\ Script!Known(i)
        /\ x5' = [x5 EXCEPT ![i] = u]
        /\ x6' = [x6 EXCEPT ![u] = IF @ = None THEN i ELSE @]
        /\ UNCHANGED <<x1, x2, x3, x4, x9>>
    BY <1>10 DEF Script!SetUniqueId
  <2>2. \A j \in Things : (KnownTo(j)' => KnownTo(j)) /\ (j # i /\ InTheMap(j)' => InTheMap(j))
    BY <1>t, <2>1 DEF KnownTo, InTheMap
  <2>3. x3[i] \in {"virtual", "placed"} /\ (KnownTo(i) \/ InTheMap(i))
    BY <1>e, <2>1
  <2>4. i \notin x9 => x4[i] = 0
    BY <1>f, <1>t, <2>3
  <2>5. FreedOnce'
    BY <1>f, <2>1, <2>2, <2>4 DEF FreedOnce
  <2> QED BY <1>t, <1>n, <2>1, <2>3, <2>5 DEF TempsAreNew
<1>11. ASSUME NEW e \in Timers, Script!AddEvent(e) \/ Script!StopEvent(e)
       PROVE  FreedOnce' /\ TempsAreNew'
  BY <1>0, <1>11 DEF Script!AddEvent, Script!StopEvent, Script!itemVars, FreedOnce, TempsAreNew,
                     KnownTo, InTheMap
<1>12. ASSUME NEW e \in Timers, Script!ExecuteTimer(e)
       PROVE  FreedOnce' /\ TempsAreNew'
  <2>1. /\ x1 = <<>> /\ UNCHANGED <<x2, x3, x4, x5, x6, x9>>
        /\ x1' = x1 \/ x1' = <<[knows |-> {}, event |-> e]>>
    BY <1>12 DEF Script!ExecuteTimer, Script!itemVars
  <2>2. /\ Len(x1) = 0 /\ Len(x1') \in {0, 1}
        /\ \A k \in 1 .. Len(x1') : x1'[k].knows = {}
    BY <2>1
  <2>3. \A j \in Things : ~KnownTo(j)' /\ (InTheMap(j)' <=> InTheMap(j))
    BY <2>1, <2>2 DEF KnownTo, InTheMap
  <2>4. FreedOnce'
    BY <1>f, <2>1, <2>2, <2>3 DEF FreedOnce
  <2> QED BY <1>n, <2>1, <2>4 DEF TempsAreNew
<1> QED BY <1>1, <1>2, <1>3, <1>4, <1>5, <1>6, <1>7, <1>8, <1>9, <1>10, <1>11, <1>12
        DEF Script!Next

(* What can be named exists, and is found by its unique id.                *)
LEMMA NamesKept ==
  ASSUME ScriptInv, Script!Next
  PROVE  NamedByItsId' /\ Script!NamedItemsExist' /\ UniqueListed'
<1> USE ScriptFacts
<1> DEFINE Known == \A k \in 1 .. Len(x1) : \A i \in x1[k].knows \ x10 : x3[i] # "deleted"
           Mapped == \A u \in UniqueIds :
                       x6[u] # None /\ x6[u] \notin x10 \cup x9 => x3[x6[u]] # "deleted"
<1>0. ScriptType /\ FreedOnce /\ TempsAreNew /\ NamedByItsId /\ UniqueListed
  BY DEF ScriptInv
<1>k. Script!NamedItemsExist <=> Known /\ Mapped
  BY DEF Script!NamedItemsExist, Script!Top
<1>p. Script!NamedItemsExist' <=> Known' /\ Mapped'
  BY DEF Script!NamedItemsExist, Script!Top
<1>h. Known /\ Mapped
  BY <1>k DEF ScriptInv
<1>t. /\ x3 \in [Things -> {"unborn", "virtual", "placed", "removed", "deleted"}]
      /\ x4 \in [Things -> Nat]
      /\ x5 \in [Things -> UniqueIds \cup {None}]
      /\ x6 \in [UniqueIds -> Things \cup {None}]
  BY DEF ScriptInv, ScriptType
<1>e. /\ Len(x1) \in Nat
      /\ \A k \in 1 .. Len(x1) : x1[k].knows \subseteq Things
      /\ x1 # <<>> => Len(x1) \in 1 .. MaxEnv
      /\ \A i \in Things : Script!Known(i) => x1 # <<>> /\ x3[i] \in {"virtual", "placed"}
  BY <1>0, EnvironmentsThen
<1>n. \A u \in UniqueIds : x6[u] # None => x5[x6[u]] = u /\ x3[x6[u]] # "removed"
  BY <1>0 DEF NamedByItsId
<1>l. \A i \in Things :
        x3[i] \in {"virtual", "placed"} /\ x5[i] \in UniqueIds \ x11 => x6[x5[i]] = i
  BY <1>0 DEF UniqueListed
<1>u. \A i \in Things : x3[i] = "unborn" => x5[i] = None
  BY <1>0 DEF TempsAreNew
<1>m. \A u \in UniqueIds : x6[u] # None => x6[u] \in Things
  BY <1>t
<1> HIDE DEF Known, Mapped
<1>s. ASSUME UNCHANGED <<x3, x5, x6, x11>>
      PROVE  NamedByItsId' /\ UniqueListed'
  BY <1>0, <1>s DEF NamedByItsId, UniqueListed
<1>r. ASSUME UNCHANGED <<x3, x6, x10>>, x9 \subseteq x9'
      PROVE  Mapped'
  BY <1>h, <1>r DEF Mapped
<1>1. CASE Script!Execute
  <2>1. /\ x1' = Append(x1, [knows |-> {}, event |-> None])
        /\ UNCHANGED <<x3, x5, x6, x9, x10, x11>>
    BY <1>1 DEF Script!Execute, Script!itemVars
  <2>2. /\ Len(x1') = Len(x1) + 1
        /\ \A k \in 1 .. Len(x1) : x1'[k] = x1[k]
        /\ x1'[Len(x1) + 1].knows = {}
    BY <1>0, <2>1 DEF ScriptType
  <2>3. Known'
    BY <1>e, <1>h, <2>1, <2>2 DEF Known
  <2>4. Mapped'
    BY <1>r, <2>1
  <2> QED BY <1>p, <1>s, <2>1, <2>3, <2>4
<1>2. CASE Script!Finish
  <2>1. UNCHANGED <<x3, x5, x6, x10, x11>> /\ x9 \subseteq x9'
    BY <1>2 DEF Script!Finish, Script!Reset
  <2>2. /\ Len(x1') = Len(x1) - 1
        /\ \A k \in 1 .. Len(x1) - 1 : x1'[k] = x1[k]
    BY <1>0, <1>2, FinishThen
  <2>3. Known'
    BY <1>e, <1>h, <2>1, <2>2 DEF Known
  <2>4. Mapped'
    BY <1>r, <2>1
  <2> QED BY <1>p, <1>s, <2>1, <2>3, <2>4
<1>3. CASE Script!Cleanup
  <2> DEFINE gone == {i \in Things : x4[i] > 0}
  <2>1. /\ x1 = <<>> /\ x1' = x1
        /\ x3' = [i \in Things |-> IF i \in gone THEN "deleted" ELSE x3[i]]
        /\ x10' = x10 \cup {i \in gone : x3[i] = "virtual"}
        /\ UNCHANGED <<x5, x6, x9, x11>>
    BY <1>3 DEF Script!Cleanup
  <2>2. \A i \in Things : x3'[i] = IF x4[i] > 0 THEN "deleted" ELSE x3[i]
    BY <2>1
  <2>3. Known'
    BY <2>1 DEF Known
  <2>4. Mapped'
    <3> SUFFICES ASSUME NEW u \in UniqueIds, x6[u] # None, x6[u] \notin x10' \cup x9
                 PROVE  x3'[x6[u]] # "deleted"
      BY <2>1 DEF Mapped
    <3> DEFINE i == x6[u]
    <3>1. i \in Things /\ x3[i] # "removed" /\ x3[i] # "deleted" /\ InTheMap(i)
      BY <1>h, <1>m, <1>n, <2>1 DEF Mapped, InTheMap
    <3>2. ~(x4[i] > 0)
      BY <1>0, <3>1 DEF FreedOnce
    <3> QED BY <2>2, <3>1, <3>2
  <2>5. NamedByItsId'
    BY <1>n, <1>m, <2>1, <2>2 DEF NamedByItsId
  <2>6. UniqueListed'
    BY <1>l, <2>1, <2>2 DEF UniqueListed
  <2> QED BY <1>p, <2>3, <2>4, <2>5, <2>6
<1>4. CASE Script!Reload
  <2>1. UNCHANGED <<x1, x3, x5, x6, x9, x10, x11>>
    BY <1>4 DEF Script!Reload, Script!itemVars
  <2>2. Known' /\ Mapped'
    BY <1>h, <2>1 DEF Known, Mapped
  <2> QED BY <1>p, <1>s, <2>1, <2>2
<1>5. ASSUME NEW i \in Things, Script!CreateItemEx(i)
      PROVE  NamedByItsId' /\ Script!NamedItemsExist' /\ UniqueListed'
  <2>1. /\ x1 # <<>> /\ Script!Knows(i) /\ x3[i] = "unborn"
        /\ x3' = [x3 EXCEPT ![i] = "virtual"]
        /\ UNCHANGED <<x5, x6, x9, x10, x11>>
    BY <1>5 DEF Script!CreateItemEx, Script!Running
  <2>2. /\ Len(x1') = Len(x1)
        /\ \A k \in 1 .. Len(x1) : x1'[k].knows \subseteq x1[k].knows \cup {i}
    BY <1>0, <2>1, KnowsThen
  <2>3. \A j \in Things : x3'[j] = IF j = i THEN "virtual" ELSE x3[j]
    BY <1>t, <2>1
  <2>4. Known'
    BY <1>e, <1>h, <2>1, <2>2, <2>3 DEF Known
  <2>5. Mapped'
    BY <1>h, <1>m, <2>1, <2>3 DEF Mapped
  <2>6. NamedByItsId'
    BY <1>n, <1>m, <2>1, <2>3 DEF NamedByItsId
  <2>7. UniqueListed'
    BY <1>l, <1>u, <2>1, <2>3 DEF UniqueListed
  <2> QED BY <1>p, <2>4, <2>5, <2>6, <2>7
<1>6. ASSUME NEW i \in Things, Script!AddItemEx(i)
      PROVE  NamedByItsId' /\ Script!NamedItemsExist' /\ UniqueListed'
  <2>1. /\ x3[i] = "virtual" /\ x3' = [x3 EXCEPT ![i] = "placed"]
        /\ UNCHANGED <<x1, x5, x6, x9, x10, x11>>
    BY <1>6 DEF Script!AddItemEx, Script!InternalAddItem
  <2>2. \A j \in Things : x3'[j] = IF j = i THEN "placed" ELSE x3[j]
    BY <1>t, <2>1
  <2>3. Known'
    BY <1>e, <1>h, <2>1, <2>2 DEF Known
  <2>4. Mapped'
    BY <1>h, <1>m, <2>1, <2>2 DEF Mapped
  <2>5. NamedByItsId'
    BY <1>n, <1>m, <2>1, <2>2 DEF NamedByItsId
  <2>6. UniqueListed'
    BY <1>l, <2>1, <2>2 DEF UniqueListed
  <2> QED BY <1>p, <2>3, <2>4, <2>5, <2>6
<1>7. ASSUME NEW i \in Things, Script!MailOffline(i)
      PROVE  NamedByItsId' /\ Script!NamedItemsExist' /\ UniqueListed'
  <2>1. /\ x3[i] = "virtual" /\ x3' = [x3 EXCEPT ![i] = "deleted"] /\ x10' = x10 \cup {i}
        /\ UNCHANGED <<x1, x5, x6, x9, x11>>
    BY <1>7 DEF Script!MailOffline
  <2>2. \A j \in Things : x3'[j] = IF j = i THEN "deleted" ELSE x3[j]
    BY <1>t, <2>1
  <2>3. Known'
    BY <1>e, <1>h, <2>1, <2>2 DEF Known
  <2>4. Mapped'
    BY <1>h, <1>m, <2>1, <2>2 DEF Mapped
  <2>5. NamedByItsId'
    BY <1>n, <1>m, <2>1, <2>2 DEF NamedByItsId
  <2>6. UniqueListed'
    BY <1>l, <2>1, <2>2 DEF UniqueListed
  <2> QED BY <1>p, <2>3, <2>4, <2>5, <2>6
<1>8. ASSUME NEW i \in Things, Script!Find(i)
      PROVE  NamedByItsId' /\ Script!NamedItemsExist' /\ UniqueListed'
  <2>1. /\ x1 # <<>> /\ Script!Knows(i) /\ x3[i] = "placed"
        /\ UNCHANGED <<x3, x5, x6, x9, x10, x11>>
    BY <1>8 DEF Script!Find, Script!Running, Script!itemVars
  <2>2. /\ Len(x1') = Len(x1)
        /\ \A k \in 1 .. Len(x1) : x1'[k].knows \subseteq x1[k].knows \cup {i}
    BY <1>0, <2>1, KnowsThen
  <2>3. Known'
    BY <1>h, <2>1, <2>2 DEF Known
  <2>4. Mapped'
    BY <1>r, <2>1
  <2> QED BY <1>p, <1>s, <2>1, <2>3, <2>4
<1>9. ASSUME NEW i \in Things, Script!RemoveItem(i)
      PROVE  NamedByItsId' /\ Script!NamedItemsExist' /\ UniqueListed'
  <2>1. /\ UNCHANGED <<x1, x5, x9, x10>>
        /\ x6' = [u \in UniqueIds |-> IF u = x5[i] THEN None ELSE x6[u]]
        /\ x3[i] = "placed" => x3' = [x3 EXCEPT ![i] = "removed"]
        /\ x3[i] # "placed" => x3' = x3
        /\ x11' = IF x3[i] = "virtual" THEN x11 \cup ({x5[i]} \ {None}) ELSE x11
        /\ x3[i] = "placed" \/ Script!Known(i)
    BY <1>9 DEF Script!RemoveItem, Script!RemoveUnique
  <2>2. x3[i] \in {"virtual", "placed"}
    BY <1>e, <2>1
  <2>3. \A j \in Things : x3'[j] = IF j = i /\ x3[i] = "placed" THEN "removed" ELSE x3[j]
    BY <1>t, <2>1
  <2>4. \A u \in UniqueIds : x6'[u] = IF u = x5[i] THEN None ELSE x6[u]
    BY <2>1
  <2>5. Known'
    BY <1>e, <1>h, <2>1, <2>3 DEF Known
  <2>6. Mapped'
    BY <1>h, <1>m, <2>1, <2>3, <2>4 DEF Mapped
  <2>7. NamedByItsId'
    BY <1>n, <1>m, <2>1, <2>3, <2>4 DEF NamedByItsId
  <2>8. UniqueListed'
    <3> SUFFICES ASSUME NEW j \in Things, x3'[j] \in {"virtual", "placed"},
                        x5[j] \in UniqueIds \ x11'
                 PROVE  x6'[x5[j]] = j
      BY <2>1 DEF UniqueListed
    <3>1. x3[j] \in {"virtual", "placed"} /\ x5[j] \notin x11
      BY <2>1, <2>3
    <3>2. x6[x5[j]] = j
      BY <1>l, <3>1
    <3>3. CASE x5[j] # x5[i]
      BY <2>4, <3>2, <3>3
    <3>4. CASE x5[j] = x5[i]
      <4>1. CASE x3[i] = "virtual"
        <5>1. x5[i] # None
          BY <3>4
        <5> QED BY <2>1, <3>4, <4>1, <5>1
      <4>2. CASE x3[i] = "placed"
        <5>1. x6[x5[i]] = i
          BY <1>l, <3>1, <3>4, <4>2
        <5>2. j = i
          BY <3>2, <3>4, <5>1
        <5> QED BY <2>3, <4>2, <5>2
      <4> QED BY <2>2, <4>1, <4>2
    <3> QED BY <3>3, <3>4
  <2> QED BY <1>p, <2>5, <2>6, <2>7, <2>8
<1>10. ASSUME NEW i \in Things, NEW u \in UniqueIds, Script!SetUniqueId(i, u)
       PROVE  NamedByItsId' /\ Script!NamedItemsExist' /\ UniqueListed'
  <2>1. /\ Script!Known(i) /\ x5[i] = None
        /\ x5' = [x5 EXCEPT ![i] = u]
        /\ x6' = [x6 EXCEPT ![u] = IF @ = None THEN i ELSE @]
        /\ x11' = IF x6[u] # None
                     \/ \E j \in Things : x5[j] = u /\ x3[j] \in {"virtual", "placed"}
                    THEN x11 \cup {u} ELSE x11
        /\ UNCHANGED <<x1, x3, x9, x10>>
    BY <1>10 DEF Script!SetUniqueId
  <2>2. x3[i] \in {"virtual", "placed"}
    BY <1>e, <2>1
  <2>3. /\ \A j \in Things : x5'[j] = IF j = i THEN u ELSE x5[j]
        /\ \A v \in UniqueIds : x6'[v] = IF v = u /\ x6[u] = None THEN i ELSE x6[v]
    BY <1>t, <2>1
  <2>4. Known'
    BY <1>h, <2>1 DEF Known
  <2>5. Mapped'
    BY <1>h, <1>m, <2>1, <2>2, <2>3 DEF Mapped
  <2>6. NamedByItsId'
    BY <1>n, <1>m, <2>1, <2>2, <2>3 DEF NamedByItsId
  <2>7. UniqueListed'
    BY <1>l, <2>1, <2>3 DEF UniqueListed
  <2> QED BY <1>p, <2>4, <2>5, <2>6, <2>7
<1>11. ASSUME NEW e \in Timers, Script!AddEvent(e) \/ Script!StopEvent(e)
       PROVE  NamedByItsId' /\ Script!NamedItemsExist' /\ UniqueListed'
  <2>1. UNCHANGED <<x1, x3, x5, x6, x9, x10, x11>>
    BY <1>11 DEF Script!AddEvent, Script!StopEvent, Script!itemVars
  <2>2. Known' /\ Mapped'
    BY <1>h, <2>1 DEF Known, Mapped
  <2> QED BY <1>p, <1>s, <2>1, <2>2
<1>12. ASSUME NEW e \in Timers, Script!ExecuteTimer(e)
       PROVE  NamedByItsId' /\ Script!NamedItemsExist' /\ UniqueListed'
  <2>1. /\ x1 = <<>> /\ UNCHANGED <<x3, x5, x6, x9, x10, x11>>
        /\ x1' = x1 \/ x1' = <<[knows |-> {}, event |-> e]>>
    BY <1>12 DEF Script!ExecuteTimer, Script!itemVars
  <2>2. Len(x1) = 0 /\ Len(x1') \in {0, 1} /\ \A k \in 1 .. Len(x1') : x1'[k].knows = {}
    BY <2>1
  <2>3. Known'
    BY <2>2 DEF Known
  <2>4. Mapped'
    BY <1>r, <2>1
  <2> QED BY <1>p, <1>s, <2>1, <2>3, <2>4
<1> QED BY <1>1, <1>2, <1>3, <1>4, <1>5, <1>6, <1>7, <1>8, <1>9, <1>10, <1>11, <1>12
        DEF Script!Next

(* An event is listed while it waits or runs, and not after.               *)
LEMMA EventsKept ==
  ASSUME ScriptInv, Script!Next
  PROVE  OuterEvent' /\ Script!EventsRunOnce'
<1> USE ScriptFacts
<1> DEFINE n == Len(x1)
           Runs(e) == x1 # <<>> /\ x1[1].event = e
           RunOnce == \A e \in Timers : e \in x7 <=> (e \in x8 \/ Runs(e)) /\ e \notin x12
<1>0. ScriptType /\ OuterEvent
  BY DEF ScriptInv
<1>l. Script!EventsRunOnce <=> RunOnce
  BY DEF Script!EventsRunOnce
<1>m. Script!EventsRunOnce' <=> RunOnce'
  BY DEF Script!EventsRunOnce
<1>h. RunOnce
  BY <1>l DEF ScriptInv
<1>o. /\ \A k \in 2 .. n : x1[k].event = None
      /\ x1 # <<>> => x1[1].event \notin x8
  BY <1>0 DEF OuterEvent
<1>e. n \in Nat /\ (x1 # <<>> => n \in 1 .. MaxEnv)
  BY <1>0, EnvironmentsThen
<1> HIDE DEF RunOnce
<1>q. (OuterEvent' /\ RunOnce') => OuterEvent' /\ Script!EventsRunOnce'
  BY <1>m
<1>same. ASSUME Len(x1') = n, \A k \in 1 .. n : x1'[k].event = x1[k].event,
                x1 # <<>>, x1' # <<>>, UNCHANGED <<x7, x8, x12>>
         PROVE  OuterEvent' /\ RunOnce'
  <2>1. n \in 1 .. MaxEnv
    BY <1>e, <1>same
  <2>2. OuterEvent'
    BY <1>o, <1>same, <2>1 DEF OuterEvent
  <2>3. RunOnce'
    BY <1>h, <1>same, <2>1 DEF RunOnce
  <2> QED BY <2>2, <2>3
<1>still. ASSUME UNCHANGED <<x1, x7, x8, x12>>
          PROVE  OuterEvent' /\ RunOnce'
  BY <1>h, <1>0, <1>still DEF OuterEvent, RunOnce
<1>1. CASE Script!Execute
  <2>1. /\ x1' = Append(x1, [knows |-> {}, event |-> None])
        /\ UNCHANGED <<x7, x8, x12>>
    BY <1>1 DEF Script!Execute, Script!eventVars
  <2>2. /\ Len(x1') = n + 1 /\ x1' # <<>>
        /\ \A k \in 1 .. n : x1'[k] = x1[k]
        /\ x1'[n + 1].event = None
    BY <1>0, <2>1 DEF ScriptType
  <2>3. \A k \in 2 .. n + 1 : x1'[k].event = None
    BY <1>e, <1>o, <2>2
  <2>4. CASE x1 = <<>>
    <3>1. n = 0 /\ x1'[1].event = None
      BY <2>2, <2>4
    <3>2. None \notin x8
      BY <1>0 DEF ScriptType
    <3>3. RunOnce'
      BY <1>h, <2>1, <2>4, <3>1 DEF RunOnce
    <3>4. OuterEvent'
      BY <2>1, <2>2, <2>3, <3>1, <3>2 DEF OuterEvent
    <3> QED BY <1>q, <3>3, <3>4
  <2>5. CASE x1 # <<>>
    <3>1. x1'[1] = x1[1]
      BY <1>e, <2>2, <2>5
    <3>2. RunOnce'
      BY <1>h, <2>1, <2>2, <2>5, <3>1 DEF RunOnce
    <3>3. OuterEvent'
      BY <1>o, <2>1, <2>2, <2>3, <2>5, <3>1 DEF OuterEvent
    <3> QED BY <1>q, <3>2, <3>3
  <2> QED BY <2>4, <2>5
<1>2. CASE Script!Finish
  <2>1. /\ x1 # <<>> /\ x7' = x7 \ {x1[n].event} /\ UNCHANGED <<x8, x12>>
    BY <1>2 DEF Script!Finish, Script!Running, Script!Top
  <2>2. /\ Len(x1') = n - 1 /\ \A k \in 1 .. n - 1 : x1'[k] = x1[k]
        /\ x1' \in Seq(Environments)
    BY <1>0, <1>2, FinishThen
  <2>3. n \in 1 .. MaxEnv
    BY <1>e, <2>1
  <2>4. CASE n = 1
    <3>1. x1' = <<>>
      BY <2>2, <2>4
    <3>2. x1[1].event \notin x8
      BY <1>o, <2>1
    <3>3. RunOnce'
      BY <1>h, <2>1, <2>4, <3>1, <3>2 DEF RunOnce
    <3>4. OuterEvent'
      BY <2>2, <2>4, <3>1 DEF OuterEvent
    <3> QED BY <1>q, <3>3, <3>4
  <2>5. CASE n # 1
    <3>1. n \in 2 .. n /\ 1 \in 1 .. n - 1
      <4> HIDE DEF n
      <4>1. n \in Nat /\ 1 <= n /\ n # 1
        BY <1>e, <2>3, <2>5
      <4> QED BY <4>1
    <3>2. x1[n].event = None /\ x1'[1] = x1[1] /\ x1' # <<>>
      BY <1>o, <2>2, <2>5, <3>1
    <3>3. None \notin x7
      BY <1>0 DEF ScriptType
    <3>4. x7' = x7
      BY <2>1, <3>2, <3>3
    <3>5. RunOnce'
      BY <1>h, <2>1, <3>2, <3>4 DEF RunOnce
    <3>6. \A k \in 2 .. n - 1 : x1'[k].event = None
      BY <1>e, <1>o, <2>2
    <3>7. OuterEvent'
      BY <1>o, <2>1, <2>2, <3>2, <3>6 DEF OuterEvent
    <3> QED BY <1>q, <3>5, <3>7
  <2> QED BY <2>4, <2>5
<1>3. CASE Script!Cleanup
  <2>1. UNCHANGED <<x1, x7, x8, x12>>
    BY <1>3 DEF Script!Cleanup, Script!eventVars
  <2> QED BY <1>q, <1>still, <2>1
<1>4. CASE Script!Reload
  <2>1. x1 = <<>> /\ x7' = {} /\ x12' = x12 \cup x7 /\ UNCHANGED <<x1, x8>>
    BY <1>4 DEF Script!Reload
  <2>2. RunOnce'
    BY <1>h, <2>1 DEF RunOnce
  <2>3. OuterEvent'
    BY <1>0, <2>1 DEF OuterEvent
  <2> QED BY <1>q, <2>2, <2>3
<1>5. ASSUME NEW i \in Things,
             Script!CreateItemEx(i) \/ Script!Find(i)
      PROVE  OuterEvent' /\ Script!EventsRunOnce'
  <2>1. x1 # <<>> /\ Script!Knows(i) /\ UNCHANGED <<x7, x8, x12>>
    BY <1>5 DEF Script!CreateItemEx, Script!Find, Script!Running, Script!eventVars
  <2>2. /\ Len(x1') = n /\ x1' # <<>>
        /\ \A k \in 1 .. n : x1'[k].event = x1[k].event
    BY <1>0, <2>1, KnowsThen
  <2> HIDE DEF n
  <2> QED BY <1>q, <1>same, <2>1, <2>2
<1>6. ASSUME NEW i \in Things,
             Script!AddItemEx(i) \/ Script!MailOffline(i) \/ Script!RemoveItem(i)
      PROVE  OuterEvent' /\ Script!EventsRunOnce'
  <2>1. UNCHANGED <<x1, x7, x8, x12>>
    BY <1>6 DEF Script!AddItemEx, Script!MailOffline, Script!RemoveItem, Script!eventVars
  <2> QED BY <1>q, <1>still, <2>1
<1>7. ASSUME NEW i \in Things, NEW u \in UniqueIds, Script!SetUniqueId(i, u)
      PROVE  OuterEvent' /\ Script!EventsRunOnce'
  <2>1. UNCHANGED <<x1, x7, x8, x12>>
    BY <1>7 DEF Script!SetUniqueId, Script!eventVars
  <2> QED BY <1>q, <1>still, <2>1
<1>8. ASSUME NEW e \in Timers, Script!AddEvent(e)
      PROVE  OuterEvent' /\ Script!EventsRunOnce'
  <2>1. /\ e \notin x7 /\ e \notin x12
        /\ x7' = x7 \cup {e} /\ x8' = x8 \cup {e} /\ UNCHANGED <<x1, x12>>
    BY <1>8 DEF Script!AddEvent, Script!Used
  <2>2. ~Runs(e)
    BY <1>h, <2>1 DEF RunOnce
  <2>3. RunOnce'
    BY <1>h, <2>1 DEF RunOnce
  <2>4. OuterEvent'
    BY <1>o, <2>1, <2>2 DEF OuterEvent
  <2> QED BY <1>q, <2>3, <2>4
<1>9. ASSUME NEW e \in Timers, Script!StopEvent(e)
      PROVE  OuterEvent' /\ Script!EventsRunOnce'
  <2>1. x7' = x7 \ {e} /\ x12' = x12 \cup {e} /\ UNCHANGED <<x1, x8>>
    BY <1>9 DEF Script!StopEvent
  <2>2. RunOnce'
    BY <1>h, <2>1 DEF RunOnce
  <2>3. OuterEvent'
    BY <1>o, <2>1 DEF OuterEvent
  <2> QED BY <1>q, <2>2, <2>3
<1>10. ASSUME NEW e \in Timers, Script!ExecuteTimer(e)
       PROVE  OuterEvent' /\ Script!EventsRunOnce'
  <2>1. /\ x1 = <<>> /\ e \in x8 /\ x8' = x8 \ {e} /\ UNCHANGED <<x7, x12>>
        /\ x1' = IF e \in x7 THEN <<[knows |-> {}, event |-> e]>> ELSE x1
    BY <1>10 DEF Script!ExecuteTimer
  <2>2. CASE e \in x7
    <3>1. Len(x1') = 1 /\ x1' # <<>> /\ x1'[1].event = e
      BY <2>1, <2>2
    <3>2. RunOnce'
      BY <1>h, <2>1, <2>2, <3>1 DEF RunOnce
    <3>3. OuterEvent'
      BY <2>1, <3>1 DEF OuterEvent
    <3> QED BY <1>q, <3>2, <3>3
  <2>3. CASE e \notin x7
    <3>1. RunOnce'
      BY <1>h, <2>1, <2>3 DEF RunOnce
    <3>2. OuterEvent'
      BY <1>o, <2>1, <2>3 DEF OuterEvent
    <3> QED BY <1>q, <3>1, <3>2
  <2> QED BY <2>2, <2>3
<1> QED BY <1>1, <1>2, <1>3, <1>4, <1>5, <1>6, <1>7, <1>8, <1>9, <1>10 DEF Script!Next

LEMMA ScriptStepKeeps ==
  ASSUME ScriptInv, Script!Next
  PROVE  ScriptInv'
<1>1. ScriptType
  BY DEF ScriptInv
<1>2. ScriptType'
  BY <1>1, ScriptTypeKept
<1>3. FreedOnce' /\ TempsAreNew'
  BY FreedOnceKept
<1>4. NamedByItsId' /\ Script!NamedItemsExist' /\ UniqueListed'
  BY NamesKept
<1>5. OuterEvent' /\ Script!EventsRunOnce'
  BY EventsKept
<1> QED BY <1>2, <1>3, <1>4, <1>5 DEF ScriptInv

LEMMA ScriptInvIsEnough ==
  ASSUME ScriptInv
  PROVE  /\ Script!TypeOK /\ Script!ItemsAreFreed /\ Script!NamedItemsExist
         /\ Script!UniqueItemsFound /\ Script!EventsRunOnce
<1> USE ScriptFacts
<1>1. ScriptType /\ FreedOnce /\ UniqueListed
  BY DEF ScriptInv
<1>2. Script!TypeOK
  <2>1. x1 \in Seq(Environments) /\ Len(x1) <= MaxEnv
    BY <1>1 DEF ScriptType
  <2>2. \A k \in 1 .. Len(x1) : x1[k] \in Environments
    BY <2>1
  <2>3. \A k \in 1 .. Len(x1) : x1[k].knows \subseteq Things /\ x1[k].event \in Timers \cup {None}
    BY <2>2 DEF Environments
  <2> QED BY <1>1, <2>1, <2>3 DEF Script!TypeOK, ScriptType
<1>3. Script!ItemsAreFreed
  <2>1. \A i \in Things : x4[i] \in Nat
    BY <1>1 DEF ScriptType
  <2> QED BY <1>1, <2>1 DEF FreedOnce, Script!ItemsAreFreed, Script!Top
<1>4. Script!UniqueItemsFound
  BY <1>1 DEF UniqueListed, Script!UniqueItemsFound
<1> QED BY <1>2, <1>3, <1>4 DEF ScriptInv

LEMMA ScriptInvStutters ==
  ASSUME ScriptInv, Untouched
  PROVE  ScriptInv'
<1>1. UNCHANGED <<x1, x2, x3, x4, x5, x6, x7, x8, x9, x10, x11, x12>>
  BY DEF Untouched
<1>2. ScriptType' /\ FreedOnce' /\ TempsAreNew'
  BY <1>1 DEF ScriptInv, ScriptType, FreedOnce, TempsAreNew, KnownTo, InTheMap
<1>3. NamedByItsId' /\ UniqueListed' /\ Script!NamedItemsExist'
  BY <1>1 DEF ScriptInv, NamedByItsId, UniqueListed, Script!NamedItemsExist, Script!Top
<1>4. OuterEvent' /\ Script!EventsRunOnce'
  BY <1>1 DEF ScriptInv, OuterEvent, Script!EventsRunOnce
<1> QED BY <1>2, <1>3, <1>4 DEF ScriptInv
=============================================================================
