------------------------- MODULE WaitingListProofs -------------------------
(***************************************************************************)
(* Proofs about WaitingList for any clients, limits and lengths of a tick: *)
(* its types, the order of the queue, that a place is kept, and that who   *)
(* enters leaves room for those ahead.                                     *)
(*                                                                         *)
(* What matters of a list is who is in it and who is ahead of whom; each   *)
(* operator is described by what it does to these.                         *)
(***************************************************************************)
EXTENDS WaitingList, FiniteSetTheorems, SequenceTheorems, WellFoundedInduction, TLAPS

(* In list s, x is ahead of y.                                             *)
Ahead(s, x, y) == \E i, j \in DOMAIN s : i < j /\ s[i] = x /\ s[j] = y

(* QueueOrder, for whoever is ahead of another.                            *)
InOrder(s, b) ==
  \A x, y : Ahead(s, x, y) =>
    /\ y \in Premium => x \in Premium
    /\ (x \in Premium <=> y \in Premium) => <<x, y>> \in b

(* t is a list of some of s, in their order.                               *)
SomeOf(t, s) ==
  /\ t \in Seq(Clients) /\ IsInjective(t)
  /\ ToSet(t) \subseteq ToSet(s)
  /\ \A x, y : Ahead(t, x, y) => Ahead(s, x, y)
-----------------------------------------------------------------------------
(* A set of numbers has a least one.                                       *)
LEMMA LeastNumber ==
  ASSUME NEW T, T \subseteq Nat, T # {}
  PROVE  \E n \in T : \A m \in T : n <= m
<1> DEFINE R == {ss \in Nat \X Nat : ss[1] < ss[2]}
<1>1. IsWellFoundedOn(R, Nat)
  BY NatLessThanWellFounded DEF OpToRel
<1> HIDE DEF R
<1>2. PICK n \in T : \A m \in T : ~(<<m, n>> \in R)
  BY <1>1, WFMin, Zenon
<1>3. \A m \in T : ~(m < n)
  BY <1>2 DEF R
<1> QED BY <1>3

(* The recursion of cleanup() has a solution.                              *)
Filters(f, m, s, T) ==
  f = [n \in 0 .. m |->
         IF n = 0 THEN <<>>
         ELSE IF s[n] \in T THEN Append(f[n - 1], s[n]) ELSE f[n - 1]]

LEMMA FilterExists ==
  ASSUME NEW s, NEW T, NEW k \in Nat
  PROVE  \E f : Filters(f, k, s, T)
<1> DEFINE Without == {m \in Nat : ~\E f : Filters(f, m, s, T)}
<1>1. ASSUME Without # {} PROVE FALSE
  <2>1. PICK m \in Without : \A l \in Without : m <= l
    BY <1>1, LeastNumber
  <2>2. CASE m = 0
    <3> DEFINE f == [n \in 0 .. 0 |-> <<>>]
    <3>1. Filters(f, 0, s, T)
      BY DEF Filters
    <3> QED BY <2>1, <2>2, <3>1
  <2>3. CASE m # 0
    <3>1. m \in Nat /\ m - 1 \in Nat /\ ~(m <= m - 1)
      BY <2>1, <2>3
    <3>2. m - 1 \notin Without
      BY <2>1, <3>1
    <3>3. PICK g : Filters(g, m - 1, s, T)
      BY <3>1, <3>2
    <3> DEFINE last == IF s[m] \in T THEN Append(g[m - 1], s[m]) ELSE g[m - 1]
               f == [n \in 0 .. m |-> IF n = m THEN last ELSE g[n]]
    <3>4. \A n \in 0 .. m - 1 :
            g[n] = IF n = 0 THEN <<>>
                   ELSE IF s[n] \in T THEN Append(g[n - 1], s[n]) ELSE g[n - 1]
      BY <3>3 DEF Filters
    <3> HIDE DEF last
    <3>5. \A n \in 0 .. m - 1 : f[n] = g[n]
      BY <3>1
    <3>6. f[m] = last
      BY <3>1
    <3>7. DOMAIN f = 0 .. m /\ f = [n \in 0 .. m |-> f[n]]
      OBVIOUS
    <3> HIDE DEF f
    <3>8. ASSUME NEW n \in 0 .. m
          PROVE  f[n] = IF n = 0 THEN <<>>
                        ELSE IF s[n] \in T THEN Append(f[n - 1], s[n]) ELSE f[n - 1]
      <4>1. CASE n = m
        BY <2>3, <3>1, <3>5, <3>6, <4>1 DEF last
      <4>2. CASE n # m
        <5>1. n \in 0 .. m - 1 /\ (n # 0 => n - 1 \in 0 .. m - 1)
          BY <3>1, <4>2
        <5> QED BY <3>4, <3>5, <5>1
      <4> QED BY <4>1, <4>2
    <3>9. Filters(f, m, s, T)
      BY <3>7, <3>8 DEF Filters
    <3> QED BY <2>1, <3>9
  <2> QED BY <2>2, <2>3
<1> QED BY <1>1
-----------------------------------------------------------------------------
(* What the operators do to who is in a list, and ahead of whom.           *)
LEMMA AppendFacts ==
  ASSUME NEW s \in Seq(Clients), IsInjective(s), NEW e \in Clients, e \notin ToSet(s)
  PROVE  LET t == Append(s, e) IN
         /\ t \in Seq(Clients) /\ IsInjective(t)
         /\ ToSet(t) = ToSet(s) \cup {e}
         /\ \A x, y : Ahead(t, x, y) => Ahead(s, x, y) \/ (x \in ToSet(s) /\ y = e)
<1> DEFINE t == Append(s, e)
           n == Len(s) + 1
<1>1. t \in Seq(Clients)
  OBVIOUS
<1>2. /\ DOMAIN t = DOMAIN s \cup {n} /\ t[n] = e
      /\ \A i \in DOMAIN s : t[i] = s[i] /\ i \in Int /\ i < n /\ ~(n < i)
      /\ n \in Int /\ ~(n < n)
  OBVIOUS
<1> HIDE DEF t, n
<1>3. IsInjective(t)
  BY <1>2 DEF IsInjective, ToSet
<1>4. ToSet(t) = ToSet(s) \cup {e}
  BY <1>2 DEF ToSet
<1>5. \A x, y : Ahead(t, x, y) => Ahead(s, x, y) \/ (x \in ToSet(s) /\ y = e)
  <2> TAKE x, y
  <2> HAVE Ahead(t, x, y)
  <2>1. PICK i \in DOMAIN t, j \in DOMAIN t : i < j /\ t[i] = x /\ t[j] = y
    BY DEF Ahead
  <2>2. i \in DOMAIN s
    BY <1>2, <2>1
  <2>3. CASE j \in DOMAIN s
    BY <1>2, <2>1, <2>2, <2>3 DEF Ahead
  <2>4. CASE j = n
    BY <1>2, <2>1, <2>2, <2>4 DEF ToSet
  <2> QED BY <1>2, <2>3, <2>4
<1> QED BY <1>1, <1>3, <1>4, <1>5 DEF t

(* Those in T among the first n of s.                                      *)
FirstOf(s, T, n) == {x \in T : \E i \in 1 .. n : s[i] = x}

FilteredAt(f, s, T, n) ==
  /\ f[n] \in Seq(Clients) /\ IsInjective(f[n])
  /\ ToSet(f[n]) = FirstOf(s, T, n)
  /\ \A x, y : Ahead(f[n], x, y) => Ahead(s, x, y)

(* Its members keep their order at every step of it.                       *)
LEMMA FilterFacts ==
  ASSUME NEW s \in Seq(Clients), IsInjective(s), NEW T, NEW f, Filters(f, Len(s), s, T)
  PROVE  \A n \in 0 .. Len(s) : FilteredAt(f, s, T, n)
<1> DEFINE Wrong == {n \in 0 .. Len(s) : ~FilteredAt(f, s, T, n)}
<1>1. \A n \in 0 .. Len(s) :
        f[n] = IF n = 0 THEN <<>>
               ELSE IF s[n] \in T THEN Append(f[n - 1], s[n]) ELSE f[n - 1]
  BY DEF Filters
<1>2. ASSUME Wrong # {} PROVE FALSE
  <2>0. Wrong \subseteq Nat
    OBVIOUS
  <2>1. PICK n \in Wrong : \A m \in Wrong : n <= m
    BY <1>2, <2>0, LeastNumber
  <2>2. n \in 0 .. Len(s) /\ Len(s) \in Nat /\ ~FilteredAt(f, s, T, n)
    BY <2>1
  <2>3. CASE n = 0
    <3>1. f[n] = <<>>
      BY <1>1, <2>2, <2>3
    <3>2. f[n] \in Seq(Clients) /\ DOMAIN f[n] = {}
      BY <3>1
    <3>3. FirstOf(s, T, n) = {}
      BY <2>3 DEF FirstOf
    <3>4. FilteredAt(f, s, T, n)
      BY <3>2, <3>3 DEF FilteredAt, IsInjective, ToSet, Ahead
    <3> QED BY <2>2, <3>4
  <2>4. CASE n # 0
    <3>1. n - 1 \in 0 .. Len(s) /\ n \in 1 .. Len(s) /\ ~(n <= n - 1)
      BY <2>2, <2>4
    <3>2. FilteredAt(f, s, T, n - 1)
      BY <2>1, <3>1
    <3>3. s[n] \in Clients /\ n \in DOMAIN s
      BY <3>1
    <3>4. \A i \in 1 .. n : i = n \/ i \in 1 .. n - 1
      BY <3>1
    <3>5. 1 .. n - 1 \subseteq 1 .. n /\ n \in 1 .. n /\ n \notin 1 .. n - 1
      BY <3>1
    <3>6. \A i \in 1 .. n - 1 : i \in DOMAIN s /\ i < n
      BY <3>1
    <3>7. CASE s[n] \notin T
      <4>1. f[n] = f[n - 1]
        BY <1>1, <2>2, <2>4, <3>7
      <4>2. FirstOf(s, T, n) = FirstOf(s, T, n - 1)
        BY <3>4, <3>5, <3>7 DEF FirstOf
      <4>3. FilteredAt(f, s, T, n)
        BY <3>2, <4>1, <4>2 DEF FilteredAt
      <4> QED BY <2>2, <4>3
    <3>8. CASE s[n] \in T
      <4> DEFINE r == f[n - 1]
                 e == s[n]
      <4>1. f[n] = Append(r, e)
        BY <1>1, <2>2, <2>4, <3>8
      <4>2. r \in Seq(Clients) /\ IsInjective(r) /\ ToSet(r) = FirstOf(s, T, n - 1)
        BY <3>2 DEF FilteredAt
      <4>3. FirstOf(s, T, n) = FirstOf(s, T, n - 1) \cup {e}
        BY <3>4, <3>5, <3>8 DEF FirstOf
      <4>4. e \notin ToSet(r)
        BY <3>3, <3>5, <3>6, <4>2 DEF FirstOf, IsInjective
      <4>5. \A x \in ToSet(r) : Ahead(s, x, e)
        BY <3>3, <3>6, <4>2 DEF FirstOf, Ahead
      <4>6. e \in Clients
        BY <3>3
      <4>7. \A x, y : Ahead(r, x, y) => Ahead(s, x, y)
        BY <3>2 DEF FilteredAt
      <4> HIDE DEF r, e
      <4>8. /\ f[n] \in Seq(Clients) /\ IsInjective(f[n])
            /\ ToSet(f[n]) = ToSet(r) \cup {e}
            /\ \A x, y : Ahead(f[n], x, y) => Ahead(r, x, y) \/ (x \in ToSet(r) /\ y = e)
        BY <4>1, <4>2, <4>4, <4>6, AppendFacts
      <4>9. FilteredAt(f, s, T, n)
        BY <4>2, <4>3, <4>5, <4>7, <4>8 DEF FilteredAt
      <4> QED BY <2>2, <4>9
    <3> QED BY <3>7, <3>8
  <2> QED BY <2>3, <2>4
<1> QED BY <1>2

(* cleanup() leaves those whose time is not up, in their order.            *)
LEMMA CleanedFacts ==
  ASSUME TypeOK
  PROVE  /\ SomeOf(Cleaned, waitList)
         /\ \A c \in Clients : c \in ToSet(Cleaned) <=> c \in Waiting /\ left[c] > 0
<1> DEFINE T == {c \in Clients : left[c] > 0}
           k == Len(waitList)
<1>1. waitList \in Seq(Clients) /\ k \in Nat /\ IsInjective(waitList)
  BY DEF TypeOK
<1>2. \A n \in 1 .. k : waitList[n] \in Clients
  BY <1>1
<1>3. \A f : Filters(f, k, waitList, T) <=>
        f = [n \in 0 .. Len(waitList) |->
               IF n = 0 THEN <<>>
               ELSE IF left[waitList[n]] > 0 THEN Append(f[n - 1], waitList[n]) ELSE f[n - 1]]
  <2> TAKE f
  <2>1. \A n \in 0 .. k : n # 0 => (waitList[n] \in T <=> left[waitList[n]] > 0)
    BY <1>1, <1>2
  <2> HIDE DEF T
  <2>2. [n \in 0 .. k |->
           IF n = 0 THEN <<>>
           ELSE IF waitList[n] \in T THEN Append(f[n - 1], waitList[n]) ELSE f[n - 1]]
        = [n \in 0 .. k |->
             IF n = 0 THEN <<>>
             ELSE IF left[waitList[n]] > 0 THEN Append(f[n - 1], waitList[n]) ELSE f[n - 1]]
    BY <2>1
  <2> QED BY <2>2 DEF Filters
<1>4. Filters(Kept, k, waitList, T)
  <2>1. \E f : Filters(f, k, waitList, T)
    BY <1>1, FilterExists
  <2> HIDE DEF T
  <2> QED BY <1>3, <2>1, Zenon DEF Kept, k
<1>5. \A n \in 0 .. k : FilteredAt(Kept, waitList, T, n)
  BY <1>1, <1>4, FilterFacts
<1>6. FilteredAt(Kept, waitList, T, k)
  BY <1>1, <1>5
<1>7. ToSet(Cleaned) = FirstOf(waitList, T, k)
  BY <1>6 DEF FilteredAt, Cleaned
<1>8. Waiting = {waitList[i] : i \in 1 .. k}
  BY <1>1 DEF Waiting, ToSet
<1>9. \A c \in Clients : c \in ToSet(Cleaned) <=> c \in Waiting /\ left[c] > 0
  BY <1>7, <1>8 DEF FirstOf
<1>10. ToSet(Cleaned) \subseteq ToSet(waitList)
  BY <1>7, <1>8 DEF FirstOf, Waiting
<1> QED BY <1>6, <1>9, <1>10 DEF FilteredAt, SomeOf, Cleaned

(* The part of a list before a position, and the part from one on.         *)
LEMMA Parts ==
  ASSUME NEW s \in Seq(Clients), NEW k \in 1 .. Len(s) + 1
  PROVE  /\ SubSeq(s, 1, k - 1) \in Seq(Clients) /\ Len(SubSeq(s, 1, k - 1)) = k - 1
         /\ \A i \in 1 .. k - 1 : SubSeq(s, 1, k - 1)[i] = s[i]
         /\ SubSeq(s, k, Len(s)) \in Seq(Clients)
         /\ Len(SubSeq(s, k, Len(s))) = Len(s) + 1 - k
         /\ \A i \in 1 .. Len(s) + 1 - k : SubSeq(s, k, Len(s))[i] = s[k + i - 1]
<1> DEFINE n == Len(s)
           front == SubSeq(s, 1, k - 1)
           rest == SubSeq(s, k, n)
<1>1. n \in Nat /\ k \in 1 .. n + 1 /\ \A i \in 1 .. n : s[i] \in Clients
  OBVIOUS
<1> HIDE DEF n
<1>2. (\A i \in 1 .. k - 1 : s[i] \in Clients) /\ (\A i \in k .. n : s[i] \in Clients)
      /\ k - 1 \in Int /\ k \in Int /\ n \in Int /\ 1 \in Int
  BY <1>1
<1>3. /\ front \in Seq(Clients)
      /\ Len(front) = IF 1 <= k - 1 THEN k - 1 - 1 + 1 ELSE 0
      /\ \A i \in 1 .. k - 1 - 1 + 1 : front[i] = s[1 + i - 1]
  BY <1>2, SubSeqProperties
<1>4. /\ rest \in Seq(Clients)
      /\ Len(rest) = IF k <= n THEN n - k + 1 ELSE 0
      /\ \A i \in 1 .. n - k + 1 : rest[i] = s[k + i - 1]
  BY <1>2, SubSeqProperties
<1> HIDE DEF front, rest
<1>5. Len(front) = k - 1 /\ Len(rest) = n + 1 - k
  BY <1>1, <1>3, <1>4
<1>6. \A i \in 1 .. k - 1 : front[i] = s[i]
  BY <1>1, <1>3
<1>7. \A i \in 1 .. n + 1 - k : rest[i] = s[k + i - 1]
  BY <1>1, <1>4
<1> QED BY <1>3, <1>4, <1>5, <1>6, <1>7 DEF front, rest, n

(* The slot of a client, and one list without it.                          *)
LEMMA SlotFacts ==
  ASSUME NEW s \in Seq(Clients), IsInjective(s), NEW c \in ToSet(s)
  PROVE  /\ Slot(s, c) \in 1 .. Len(s) /\ s[Slot(s, c)] = c
         /\ \A i \in 1 .. Len(s) : i < Slot(s, c) <=> Ahead(s, s[i], c)
<1>1. \E i \in DOMAIN s : s[i] = c
  BY DEF ToSet
<1>2. Slot(s, c) \in DOMAIN s /\ s[Slot(s, c)] = c
  BY <1>1 DEF Slot
<1>3. DOMAIN s = 1 .. Len(s)
  OBVIOUS
<1>4. \A i \in 1 .. Len(s) : i < Slot(s, c) <=> Ahead(s, s[i], c)
  BY <1>2, <1>3 DEF IsInjective, Ahead
<1> QED BY <1>2, <1>3, <1>4

(* RemoveAt takes out one entry and leaves the others in their order.      *)
LEMMA RemoveFacts ==
  ASSUME NEW s \in Seq(Clients), IsInjective(s), NEW k \in 1 .. Len(s)
  PROVE  LET t == RemoveAt(s, k) IN
         SomeOf(t, s) /\ ToSet(t) = ToSet(s) \ {s[k]}
<1> DEFINE t == RemoveAt(s, k)
           n == Len(s)
           old(i) == IF i < k THEN i ELSE i + 1
<1> DEFINE front == SubSeq(s, 1, k - 1)
           rest == SubSeq(s, k + 1, n)
<1>0. DOMAIN s = 1 .. n /\ n \in Nat /\ k \in 1 .. n /\ k \in 1 .. n + 1 /\ k + 1 \in 1 .. n + 1
  OBVIOUS
<1>a. /\ front \in Seq(Clients) /\ Len(front) = k - 1
      /\ \A i \in 1 .. k - 1 : front[i] = s[i]
  BY <1>0, Parts
<1>b. /\ rest \in Seq(Clients) /\ Len(rest) = n + 1 - (k + 1)
      /\ \A i \in 1 .. n + 1 - (k + 1) : rest[i] = s[(k + 1) + i - 1]
  BY <1>0, Parts
<1>c. t = front \o rest
  BY DEF RemoveAt
<1> HIDE DEF front, rest, t, n
<1>d. t \in Seq(Clients) /\ Len(t) = Len(front) + Len(rest)
  BY <1>a, <1>b, <1>c, ConcatProperties, Zenon
<1>e. Len(front) + Len(rest) = n - 1
  BY <1>0, <1>a, <1>b
<1>f. DOMAIN t = 1 .. Len(t)
  BY <1>d
<1>1. t \in Seq(Clients) /\ DOMAIN t = 1 .. n - 1 /\ DOMAIN s = 1 .. n /\ n \in Nat /\ k \in 1 .. n
  BY <1>0, <1>d, <1>e, <1>f
<1>2. \A i \in 1 .. n - 1 : t[i] = s[old(i)]
  <2> DEFINE m == Len(front)
  <2>0. m = k - 1 /\ Len(front) + Len(rest) = n - 1
    BY <1>0, <1>a, <1>b
  <2>a. \A i \in 1 .. Len(front) + Len(rest) :
          t[i] = IF i <= Len(front) THEN front[i] ELSE rest[i - Len(front)]
    BY <1>a, <1>b, <1>c, ConcatProperties, Zenon
  <2>1. \A i \in 1 .. n - 1 : t[i] = IF i <= k - 1 THEN front[i] ELSE rest[i - (k - 1)]
    BY <1>a, <2>0, <2>a
  <2>2. \A i \in 1 .. n - 1 : i < k => i <= k - 1 /\ i \in 1 .. k - 1
    BY <1>0
  <2>3. \A i \in 1 .. n - 1 : ~(i < k) =>
          /\ ~(i <= k - 1) /\ i - (k - 1) \in 1 .. n + 1 - (k + 1)
          /\ (k + 1) + (i - (k - 1)) - 1 = i + 1
    BY <1>0
  <2> QED BY <1>a, <1>b, <2>1, <2>2, <2>3
<1>3. /\ \A i \in 1 .. n - 1 : old(i) \in 1 .. n /\ old(i) # k
      /\ \A i, j \in 1 .. n - 1 : (i < j => old(i) < old(j)) /\ (old(i) = old(j) => i = j)
      /\ \A m \in 1 .. n : m # k => \E i \in 1 .. n - 1 : old(i) = m
  <2>1. \A i \in 1 .. n - 1 : old(i) \in 1 .. n /\ old(i) # k
    BY <1>1
  <2>2. \A i, j \in 1 .. n - 1 : (i < j => old(i) < old(j)) /\ (old(i) = old(j) => i = j)
    BY <1>1
  <2>3. ASSUME NEW m \in 1 .. n, m # k PROVE \E i \in 1 .. n - 1 : old(i) = m
    <3>1. CASE m < k
      <4>1. m \in 1 .. n - 1 /\ old(m) = m
        BY <1>1, <2>3, <3>1
      <4> QED BY <4>1
    <3>2. CASE m > k
      <4>1. m - 1 \in 1 .. n - 1 /\ old(m - 1) = m
        BY <1>1, <2>3, <3>2
      <4> QED BY <4>1
    <3> QED BY <1>1, <2>3, <3>1, <3>2
  <2> QED BY <2>1, <2>2, <2>3
<1> HIDE DEF old
<1>4. IsInjective(t)
  BY <1>1, <1>2, <1>3 DEF IsInjective
<1>5. ToSet(t) = ToSet(s) \ {s[k]}
  <2>1. \A i \in 1 .. n - 1 : s[old(i)] # s[k]
    BY <1>1, <1>3 DEF IsInjective
  <2>2. ToSet(t) \subseteq ToSet(s) \ {s[k]}
    BY <1>1, <1>2, <1>3, <2>1 DEF ToSet
  <2>3. ASSUME NEW x \in ToSet(s), x # s[k] PROVE x \in ToSet(t)
    <3>1. PICK m \in 1 .. n : s[m] = x
      BY <1>1 DEF ToSet
    <3>2. PICK i \in 1 .. n - 1 : old(i) = m
      BY <1>3, <2>3, <3>1
    <3> QED BY <1>1, <1>2, <3>1, <3>2 DEF ToSet
  <2> QED BY <2>2, <2>3
<1>6. \A x, y : Ahead(t, x, y) => Ahead(s, x, y)
  <2> TAKE x, y
  <2> HAVE Ahead(t, x, y)
  <2>1. PICK i \in 1 .. n - 1, j \in 1 .. n - 1 : i < j /\ t[i] = x /\ t[j] = y
    BY <1>1 DEF Ahead
  <2>2. /\ old(i) \in 1 .. n /\ old(j) \in 1 .. n /\ old(i) < old(j)
        /\ s[old(i)] = x /\ s[old(j)] = y
    BY <1>2, <1>3, <2>1
  <2> QED BY <1>1, <2>2 DEF Ahead
<1> QED BY <1>1, <1>4, <1>5, <1>6 DEF SomeOf, t

(* t is s with e put in at k.                                              *)
InsertedAt(t, s, k, e) ==
  /\ t \in Seq(Clients) /\ IsInjective(t)
  /\ ToSet(t) = ToSet(s) \cup {e}
  /\ \A x, y : Ahead(t, x, y) =>
       \/ Ahead(s, x, y)
       \/ y = e /\ \E i \in 1 .. k - 1 : i \in DOMAIN s /\ s[i] = x
       \/ x = e /\ \E i \in k .. Len(s) : s[i] = y

(* InsertAt puts one in between, and leaves the others in their order.     *)
LEMMA InsertFacts ==
  ASSUME NEW s \in Seq(Clients), IsInjective(s), NEW e \in Clients, e \notin ToSet(s),
         NEW k \in 1 .. Len(s) + 1
  PROVE  InsertedAt(InsertAt(s, k, e), s, k, e)
<1> DEFINE t == InsertAt(s, k, e)
           n == Len(s)
           old(i) == IF i < k THEN i ELSE i - 1
<1> DEFINE front == SubSeq(s, 1, k - 1)
           rest == SubSeq(s, k, n)
<1>0. DOMAIN s = 1 .. n /\ n \in Nat /\ k \in 1 .. n + 1
  OBVIOUS
<1>a. /\ front \in Seq(Clients) /\ Len(front) = k - 1
      /\ \A i \in 1 .. k - 1 : front[i] = s[i]
  BY <1>0, Parts
<1>b. /\ rest \in Seq(Clients) /\ Len(rest) = n + 1 - k
      /\ \A i \in 1 .. n + 1 - k : rest[i] = s[k + i - 1]
  BY <1>0, Parts
<1>c. t = front \o <<e>> \o rest
  BY DEF InsertAt
<1> HIDE DEF front, rest, t, n
<1> DEFINE head == front \o <<e>>
<1>d. head \in Seq(Clients) /\ Len(head) = k /\ head[k] = e /\ \A i \in 1 .. k - 1 : head[i] = front[i]
  <2>1. /\ head \in Seq(Clients) /\ Len(head) = Len(front) + 1
        /\ \A i \in 1 .. Len(front) + 1 : head[i] = IF i <= Len(front) THEN front[i] ELSE e
    <3>1. <<e>> \in Seq(Clients) /\ Len(<<e>>) = 1 /\ <<e>>[1] = e
      OBVIOUS
    <3> QED BY <1>a, <3>1
  <2>2. Len(front) + 1 = k /\ k \in 1 .. k /\ ~(k <= Len(front))
        /\ \A i \in 1 .. k - 1 : i \in 1 .. k /\ i <= Len(front)
    BY <1>0, <1>a
  <2> QED BY <2>1, <2>2
<1>e. t = head \o rest
  BY <1>c
<1> HIDE DEF head
<1>f. /\ t \in Seq(Clients) /\ Len(t) = Len(head) + Len(rest)
      /\ \A i \in 1 .. Len(head) + Len(rest) :
           t[i] = IF i <= Len(head) THEN head[i] ELSE rest[i - Len(head)]
  BY <1>b, <1>d, <1>e, ConcatProperties, Zenon
<1>g. Len(head) + Len(rest) = n + 1
  BY <1>0, <1>b, <1>d
<1>h. DOMAIN t = 1 .. Len(t)
  BY <1>f
<1>1. t \in Seq(Clients) /\ DOMAIN t = 1 .. n + 1 /\ DOMAIN s = 1 .. n /\ n \in Nat /\ k \in 1 .. n + 1
  BY <1>0, <1>f, <1>g, <1>h
<1>2. t[k] = e /\ \A i \in 1 .. n + 1 : i # k => t[i] = s[old(i)]
  <2>1. \A i \in 1 .. n + 1 :
          t[i] = IF i <= k - 1 THEN front[i] ELSE IF i = k THEN e ELSE rest[i - k]
    <3>1. \A i \in 1 .. n + 1 : t[i] = IF i <= k THEN head[i] ELSE rest[i - k]
      BY <1>d, <1>f, <1>g
    <3>2. \A i \in 1 .. n + 1 :
            /\ i <= k - 1 => i <= k /\ i \in 1 .. k - 1 /\ i # k
            /\ ~(i <= k - 1) => (i <= k <=> i = k)
      BY <1>0
    <3> QED BY <1>d, <3>1, <3>2
  <2>2. \A i \in 1 .. n + 1 : i < k => i <= k - 1 /\ i \in 1 .. k - 1
    BY <1>0
  <2>3. \A i \in 1 .. n + 1 : ~(i < k) /\ i # k =>
          /\ ~(i <= k - 1) /\ i - k \in 1 .. n + 1 - k /\ k + (i - k) - 1 = i - 1
    BY <1>0
  <2>4. ~(k <= k - 1) /\ k \in 1 .. n + 1
    BY <1>0
  <2> QED BY <1>a, <1>b, <2>1, <2>2, <2>3, <2>4
<1>3. /\ \A i \in 1 .. n + 1 : i # k => old(i) \in 1 .. n
      /\ \A i, j \in 1 .. n + 1 : i # k /\ j # k =>
           (i < j => old(i) < old(j)) /\ (old(i) = old(j) => i = j)
      /\ \A i \in 1 .. n + 1 : i < k => old(i) \in 1 .. k - 1
      /\ \A i \in 1 .. n + 1 : k < i => old(i) \in k .. n
  BY <1>1
<1>4. ASSUME NEW m \in 1 .. n PROVE \E i \in 1 .. n + 1 : i # k /\ old(i) = m
  <2>1. CASE m < k
    <3>1. m \in 1 .. n + 1 /\ m # k /\ old(m) = m
      BY <1>1, <2>1
    <3> QED BY <3>1
  <2>2. CASE ~(m < k)
    <3>1. m + 1 \in 1 .. n + 1 /\ m + 1 # k /\ old(m + 1) = m
      BY <1>1, <2>2
    <3> QED BY <3>1
  <2> QED BY <2>1, <2>2
<1> HIDE DEF old
<1>5. \A i \in 1 .. n + 1 : t[i] = e => i = k
  BY <1>1, <1>2, <1>3 DEF ToSet
<1>6. IsInjective(t)
  <2> SUFFICES ASSUME NEW i \in 1 .. n + 1, NEW j \in 1 .. n + 1, t[i] = t[j]
               PROVE  i = j
    BY <1>1 DEF IsInjective
  <2>1. CASE i = k \/ j = k
    BY <1>2, <1>5, <2>1
  <2>2. CASE i # k /\ j # k
    BY <1>1, <1>2, <1>3, <2>2 DEF IsInjective
  <2> QED BY <2>1, <2>2
<1>7. ToSet(t) = ToSet(s) \cup {e}
  <2>1. ToSet(t) \subseteq ToSet(s) \cup {e}
    BY <1>1, <1>2, <1>3 DEF ToSet
  <2>2. ToSet(s) \cup {e} \subseteq ToSet(t)
    BY <1>1, <1>2, <1>4 DEF ToSet
  <2> QED BY <2>1, <2>2
<1>8. ASSUME NEW x, NEW y, Ahead(t, x, y)
      PROVE  \/ Ahead(s, x, y)
             \/ y = e /\ \E i \in 1 .. k - 1 : i \in DOMAIN s /\ s[i] = x
             \/ x = e /\ \E i \in k .. n : s[i] = y
  <2>1. PICK i \in 1 .. n + 1, j \in 1 .. n + 1 : i < j /\ t[i] = x /\ t[j] = y
    BY <1>1, <1>8 DEF Ahead
  <2>2. CASE i = k
    <3>1. old(j) \in k .. n /\ s[old(j)] = y
      BY <1>1, <1>2, <1>3, <2>1, <2>2
    <3> QED BY <1>2, <2>1, <2>2, <3>1
  <2>3. CASE j = k
    <3>1. old(i) \in 1 .. k - 1 /\ old(i) \in DOMAIN s /\ s[old(i)] = x
      BY <1>1, <1>2, <1>3, <2>1, <2>3
    <3> QED BY <1>2, <2>1, <2>3, <3>1
  <2>4. CASE i # k /\ j # k
    <3>1. /\ old(i) \in DOMAIN s /\ old(j) \in DOMAIN s /\ old(i) < old(j)
          /\ s[old(i)] = x /\ s[old(j)] = y
      BY <1>1, <1>2, <1>3, <2>1, <2>4
    <3> QED BY <3>1 DEF Ahead
  <2> QED BY <2>2, <2>3, <2>4
<1> QED BY <1>1, <1>6, <1>7, <1>8 DEF InsertedAt, t, n

(* A part of a part.                                                       *)
LEMMA SomeOfSome ==
  ASSUME NEW s, NEW t, NEW u, SomeOf(t, s), SomeOf(u, t)
  PROVE  SomeOf(u, s)
BY DEF SomeOf
-----------------------------------------------------------------------------
(* The invariant, in terms of who is ahead of whom.                        *)
IInv == TypeOK /\ InOrder(waitList, before)

(* The second conjunct is the one of QueueOrder.                           *)
LEMMA OrderIs ==
  ASSUME NEW s, NEW b
  PROVE  InOrder(s, b) <=>
           \A i, j \in DOMAIN s : i < j =>
             /\ s[j] \in Premium => s[i] \in Premium
             /\ (s[i] \in Premium <=> s[j] \in Premium) => <<s[i], s[j]>> \in b
BY DEF InOrder, Ahead

(* A place is kept for some time.                                          *)
LEMMA TimeoutLasts ==
  ASSUME NEW slot \in Nat
  PROVE  GetTimeout(slot) \in Nat \ {0}
BY DEF GetTimeout, GetTime

(* Fewer entries in their order are still in order.                        *)
LEMMA FewerInOrder ==
  ASSUME NEW s, NEW b, InOrder(s, b), NEW t, SomeOf(t, s),
         NEW d, d = {r \in b : {r[1], r[2]} \subseteq ToSet(t)}
  PROVE  InOrder(t, d)
<1> SUFFICES ASSUME NEW x, NEW y, Ahead(t, x, y)
             PROVE  /\ y \in Premium => x \in Premium
                    /\ (x \in Premium <=> y \in Premium) => <<x, y>> \in d
  BY DEF InOrder
<1>1. Ahead(s, x, y)
  BY DEF SomeOf
<1>2. x \in ToSet(t) /\ y \in ToSet(t)
  BY DEF Ahead, ToSet
<1> QED BY <1>1, <1>2 DEF InOrder

(* The invariant holds at first, and every step keeps it.                  *)
LEMMA InitInv ==
  ASSUME Init
  PROVE  IInv
<1>1. waitList \in Seq(Clients) /\ DOMAIN waitList = {} /\ waitList = <<>>
  BY DEF Init
<1> QED BY <1>1 DEF Init, IInv, TypeOK, InOrder, Ahead, IsInjective, Waiting, ToSet

LEMMA EnterTypes ==
  ASSUME IInv, NEW c \in Clients, Enter(c)
  PROVE  online' \subseteq Clients
BY DEF IInv, TypeOK, Enter

(* What the list is when a client with an entry comes back.                *)
LEMMA ComesBack ==
  ASSUME IInv, NEW c \in Clients, LoginFromList(c)
  PROVE  /\ SomeOf(waitList', waitList)
         /\ Slot(Cleaned, c) \in 1 .. Len(Cleaned)
         /\ ToSet(waitList') \subseteq ToSet(Cleaned)
         /\ NoRoom(Slot(Cleaned, c)) => waitList' = Cleaned
         /\ ToSet(Cleaned) \ {c} \subseteq ToSet(waitList')
<1> DEFINE slot == Slot(Cleaned, c)
<1>1. SomeOf(Cleaned, waitList)
  BY CleanedFacts DEF IInv
<1>2. c \in ToSet(Cleaned) /\ Cleaned \in Seq(Clients) /\ IsInjective(Cleaned)
  BY <1>1 DEF LoginFromList, SomeOf
<1>3. slot \in 1 .. Len(Cleaned) /\ Cleaned[slot] = c
  BY <1>2, SlotFacts
<1>4. waitList' = IF NoRoom(slot) THEN Cleaned ELSE RemoveAt(Cleaned, slot)
  BY DEF LoginFromList
<1> HIDE DEF slot
<1>5. SomeOf(RemoveAt(Cleaned, slot), Cleaned) /\ ToSet(RemoveAt(Cleaned, slot)) = ToSet(Cleaned) \ {c}
  BY <1>2, <1>3, RemoveFacts
<1>6. SomeOf(RemoveAt(Cleaned, slot), waitList)
  BY <1>1, <1>5, SomeOfSome
<1> QED BY <1>1, <1>3, <1>4, <1>5, <1>6 DEF slot

LEMMA LoginFromListKeeps ==
  ASSUME IInv, NEW c \in Clients, LoginFromList(c)
  PROVE  IInv'
<1> DEFINE slot == Slot(Cleaned, c)
           list == waitList'
<1>1. /\ SomeOf(list, waitList) /\ slot \in Nat
      /\ ToSet(list) \subseteq ToSet(Cleaned)
  BY ComesBack
<1>2. list = IF NoRoom(slot) THEN Cleaned ELSE RemoveAt(Cleaned, slot)
  BY DEF LoginFromList
<1>3. left' = [d \in Clients |->
                 IF d \notin ToSet(list) THEN 0 ELSE IF d = c THEN GetTimeout(slot) ELSE left[d]]
  BY <1>2 DEF LoginFromList
<1>4. before' = {r \in before : {r[1], r[2]} \subseteq ToSet(list)}
  BY <1>2 DEF LoginFromList
<1>5. IF NoRoom(slot) THEN UNCHANGED online ELSE Enter(c)
  BY DEF LoginFromList
<1>6. GetTimeout(slot) \in Nat \ {0}
  BY <1>1, TimeoutLasts
<1> HIDE DEF slot
<1>7. online' \subseteq Clients
  BY <1>5, EnterTypes DEF IInv, TypeOK
<1>8. left' \in [Clients -> Nat] /\ \A d \in Clients : left'[d] > 0 => d \in ToSet(list)
  <2>1. left \in [Clients -> Nat]
    BY DEF IInv, TypeOK
  <2> HIDE DEF list
  <2>2. \A d \in Clients :
          left'[d] = IF d \notin ToSet(list) THEN 0 ELSE IF d = c THEN GetTimeout(slot) ELSE left[d]
    BY <1>3
  <2>3. left' \in [Clients -> Nat]
    BY <1>3, <1>6, <2>1
  <2>4. \A d \in Clients : d \notin ToSet(list) => ~(left'[d] > 0)
    BY <2>2
  <2> QED BY <2>3, <2>4
<1>9. before' \subseteq ToSet(list) \X ToSet(list)
  BY <1>4 DEF IInv, TypeOK
<1>10. InOrder(list, before')
  BY <1>1, <1>4, FewerInOrder DEF IInv
<1> QED BY <1>1, <1>7, <1>8, <1>9, <1>10 DEF IInv, TypeOK, Waiting, SomeOf

(* Where a new entry goes: nobody with premium time is behind a client     *)
(* without.                                                                *)
LEMMA SlotForFacts ==
  ASSUME NEW c \in Clients, Cleaned \in Seq(Clients)
  PROVE  /\ SlotFor(c) \in 1 .. Len(Cleaned) + 1
         /\ c \in Premium => \A i \in 1 .. SlotFor(c) - 1 : i \in DOMAIN Cleaned => Cleaned[i] \in Premium
         /\ c \notin Premium => SlotFor(c) = Len(Cleaned) + 1
         /\ SlotFor(c) \in DOMAIN Cleaned => c \in Premium /\ Cleaned[SlotFor(c)] \notin Premium
<1> DEFINE others == {i \in DOMAIN Cleaned : Cleaned[i] \notin Premium}
           n == Len(Cleaned)
<1>1. DOMAIN Cleaned = 1 .. n /\ n \in Nat
  OBVIOUS
<1>2. CASE c \in Premium /\ others # {}
  <2>1. others \subseteq Nat
    BY <1>1
  <2>2. SlotFor(c) = CHOOSE i \in others : \A j \in others : i <= j
    BY <1>2 DEF SlotFor
  <2>3. SlotFor(c) \in others /\ \A j \in others : SlotFor(c) <= j
    BY <1>2, <2>1, <2>2, LeastNumber
  <2>4. \A i \in 1 .. SlotFor(c) - 1 : i \in DOMAIN Cleaned => Cleaned[i] \in Premium
    <3> TAKE i \in 1 .. SlotFor(c) - 1
    <3> HAVE i \in DOMAIN Cleaned
    <3>1. ~(SlotFor(c) <= i)
      BY <1>1, <2>3
    <3> QED BY <2>3, <3>1
  <2> QED BY <1>1, <1>2, <2>3, <2>4
<1>3. CASE ~(c \in Premium /\ others # {})
  <2>1. SlotFor(c) = n + 1
    BY <1>3 DEF SlotFor
  <2>2. n + 1 \notin DOMAIN Cleaned
    BY <1>1
  <2>3. c \in Premium => \A i \in DOMAIN Cleaned : Cleaned[i] \in Premium
    BY <1>3
  <2> QED BY <1>1, <2>1, <2>2, <2>3
<1> QED BY <1>2, <1>3

(* What the list is when a new client queues.                              *)
LEMMA Queues ==
  ASSUME IInv, NEW c \in Clients, LoginQueues(c)
  PROVE  /\ waitList' \in Seq(Clients) /\ IsInjective(waitList')
         /\ ToSet(waitList') = ToSet(Cleaned) \cup {c}
         /\ SlotFor(c) \in Nat
         /\ \A x, y : Ahead(waitList', x, y) =>
              \/ Ahead(Cleaned, x, y)
              \/ y = c /\ x \in ToSet(Cleaned) /\ (c \in Premium => x \in Premium)
              \/ /\ x = c /\ c \in Premium /\ y \in ToSet(Cleaned)
                 /\ y \notin Premium \/ \E z \in ToSet(Cleaned) : z \notin Premium /\ Ahead(Cleaned, z, y)
<1> DEFINE slot == SlotFor(c)
<1>1. SomeOf(Cleaned, waitList)
  BY CleanedFacts DEF IInv
<1>2. c \notin ToSet(Cleaned) /\ Cleaned \in Seq(Clients) /\ IsInjective(Cleaned)
  BY <1>1 DEF LoginQueues, SomeOf
<1>3. waitList' = InsertAt(Cleaned, slot, c)
  BY DEF LoginQueues
<1>4. /\ slot \in 1 .. Len(Cleaned) + 1 /\ DOMAIN Cleaned = 1 .. Len(Cleaned) /\ Len(Cleaned) \in Nat
      /\ c \in Premium => \A i \in 1 .. slot - 1 : i \in DOMAIN Cleaned => Cleaned[i] \in Premium
      /\ c \notin Premium => slot = Len(Cleaned) + 1
      /\ slot \in DOMAIN Cleaned => c \in Premium /\ Cleaned[slot] \notin Premium
  BY <1>2, SlotForFacts
<1> HIDE DEF slot
<1>5. InsertedAt(InsertAt(Cleaned, slot, c), Cleaned, slot, c)
  BY <1>2, <1>4, InsertFacts
<1>6. ASSUME NEW x, \E i \in 1 .. slot - 1 : i \in DOMAIN Cleaned /\ Cleaned[i] = x
      PROVE  x \in ToSet(Cleaned) /\ (c \in Premium => x \in Premium)
  <2>1. PICK i \in 1 .. slot - 1 : i \in DOMAIN Cleaned /\ Cleaned[i] = x
    BY <1>6
  <2>2. x \in ToSet(Cleaned)
    BY <2>1 DEF ToSet
  <2>3. c \in Premium => x \in Premium
    BY <1>4, <2>1
  <2> QED BY <2>2, <2>3
<1>7. ASSUME NEW y, \E i \in slot .. Len(Cleaned) : Cleaned[i] = y
      PROVE  /\ c \in Premium /\ y \in ToSet(Cleaned)
             /\ y \notin Premium \/ \E z \in ToSet(Cleaned) : z \notin Premium /\ Ahead(Cleaned, z, y)
  <2>1. PICK i \in slot .. Len(Cleaned) : Cleaned[i] = y
    BY <1>7
  <2>2. i \in DOMAIN Cleaned /\ slot \in DOMAIN Cleaned /\ (i = slot \/ slot < i)
    BY <1>4, <2>1
  <2>3. Cleaned[slot] \in ToSet(Cleaned) /\ Cleaned[slot] \notin Premium /\ c \in Premium
    BY <1>4, <2>2 DEF ToSet
  <2>4. y \in ToSet(Cleaned)
    BY <2>1, <2>2 DEF ToSet
  <2>5. slot < i => Ahead(Cleaned, Cleaned[slot], y)
    BY <2>1, <2>2 DEF Ahead
  <2> QED BY <2>1, <2>2, <2>3, <2>4, <2>5
<1>8. slot \in Nat
  BY <1>4
<1>9. InsertedAt(waitList', Cleaned, slot, c)
  BY <1>3, <1>5
<1> QED BY <1>6, <1>7, <1>8, <1>9 DEF InsertedAt, slot

LEMMA LoginQueuesKeeps ==
  ASSUME IInv, NEW c \in Clients, LoginQueues(c)
  PROVE  IInv'
<1> DEFINE slot == SlotFor(c)
           list == waitList'
<1>1. /\ list \in Seq(Clients) /\ IsInjective(list)
      /\ ToSet(list) = ToSet(Cleaned) \cup {c}
      /\ slot \in Nat
  BY Queues
<1>2. SomeOf(Cleaned, waitList)
  BY CleanedFacts DEF IInv
<1>3. left' = [d \in Clients |->
                 IF d = c THEN GetTimeout(slot) ELSE IF d \in ToSet(Cleaned) THEN left[d] ELSE 0]
  BY DEF LoginQueues
<1>4. before' = {r \in before : {r[1], r[2]} \subseteq ToSet(Cleaned)} \cup (ToSet(Cleaned) \X {c})
  BY DEF LoginQueues
<1>5. GetTimeout(slot) \in Nat \ {0}
  BY <1>1, TimeoutLasts
<1>6. online' = online
  BY DEF LoginQueues
<1> HIDE DEF slot
<1>7. left' \in [Clients -> Nat] /\ \A d \in Clients : left'[d] > 0 => d \in ToSet(list)
  <2>1. left \in [Clients -> Nat]
    BY DEF IInv, TypeOK
  <2> HIDE DEF list
  <2>2. left' \in [Clients -> Nat]
    BY <1>3, <1>5, <2>1
  <2>3. \A d \in Clients : d # c /\ d \notin ToSet(Cleaned) => ~(left'[d] > 0)
    BY <1>3
  <2> QED BY <1>1, <2>2, <2>3
<1>8. before' \subseteq ToSet(list) \X ToSet(list)
  BY <1>1, <1>4 DEF IInv, TypeOK
<1> DEFINE old == {r \in before : {r[1], r[2]} \subseteq ToSet(Cleaned)}
<1>9. InOrder(Cleaned, old)
  BY <1>2, FewerInOrder DEF IInv
<1>10. old \subseteq before' /\ \A x \in ToSet(Cleaned) : <<x, c>> \in before'
  BY <1>4
<1> HIDE DEF old
<1>11. ASSUME NEW x, NEW y, Ahead(list, x, y)
       PROVE  /\ y \in Premium => x \in Premium
              /\ (x \in Premium <=> y \in Premium) => <<x, y>> \in before'
  <2>1. CASE Ahead(Cleaned, x, y)
    BY <1>9, <1>10, <2>1 DEF InOrder
  <2>2. CASE y = c /\ x \in ToSet(Cleaned) /\ (c \in Premium => x \in Premium)
    BY <1>10, <2>2
  <2>3. CASE /\ x = c /\ c \in Premium /\ y \in ToSet(Cleaned)
             /\ y \notin Premium \/ \E z \in ToSet(Cleaned) : z \notin Premium /\ Ahead(Cleaned, z, y)
    BY <1>9, <2>3 DEF InOrder
  <2> QED BY <1>11, <2>1, <2>2, <2>3, Queues
<1>12. InOrder(list, before')
  BY <1>11 DEF InOrder
<1> QED BY <1>1, <1>6, <1>7, <1>8, <1>12 DEF IInv, TypeOK, Waiting

LEMMA NextKeeps ==
  ASSUME IInv, [Next]_vars
  PROVE  IInv'
<1>1. CASE Tick
  <2>1. left \in [Clients -> Nat] /\ TickLength \in Nat
    BY WaitingListAssumption DEF IInv, TypeOK
  <2>2. left' = [c \in Clients |-> IF left[c] > TickLength THEN left[c] - TickLength ELSE 0]
    BY <1>1 DEF Tick
  <2>3. \A c \in Clients :
          left'[c] \in Nat /\ (left'[c] > 0 => left[c] > 0)
    BY <2>1, <2>2
  <2>4. left' \in [Clients -> Nat] /\ \A c \in Clients : left'[c] > 0 => left[c] > 0
    BY <2>2, <2>3
  <2> QED BY <1>1, <2>4 DEF Tick, IInv, TypeOK, Waiting
<1>2. ASSUME NEW c \in Clients, LoginUnhindered(c) PROVE IInv'
  BY <1>2, EnterTypes DEF LoginUnhindered, IInv, TypeOK, Waiting
<1>3. ASSUME NEW c \in Clients, Logout(c) PROVE IInv'
  BY <1>3 DEF Logout, IInv, TypeOK, Waiting
<1>4. CASE UNCHANGED vars
  BY <1>4 DEF vars, IInv, TypeOK, Waiting
<1> QED BY <1>1, <1>2, <1>3, <1>4, LoginFromListKeeps, LoginQueuesKeeps DEF Next, Login

(* An invariant that says who was there before whom.                       *)
LEMMA IInvHolds == Spec => []IInv
BY InitInv, NextKeeps, PTL DEF Spec

(* Every variable keeps its type, the list has no client twice, and only   *)
(* its entries have a time-out, for any number of clients.                 *)
THEOREM TypeInvariant == Spec => []TypeOK
<1>1. IInv => TypeOK
  BY DEF IInv
<1> QED BY <1>1, IInvHolds, PTL

(* Premium players wait in front of the others, and within each class the  *)
(* order is that of arrival, whoever comes back, expires or enters.        *)
THEOREM QueueOrderHolds == Spec => []QueueOrder
<1>1. IInv => QueueOrder
  BY OrderIs DEF IInv, QueueOrder
<1> QED BY <1>1, IInvHolds, PTL

(* Whoever is ahead of c in t was ahead of it in s, or has premium time.   *)
LEMMA InFront ==
  ASSUME NEW s \in Seq(Clients), IsInjective(s), NEW t \in Seq(Clients), IsInjective(t),
         NEW c, c \in ToSet(s), c \in ToSet(t),
         \A x : Ahead(t, x, c) => Ahead(s, x, c) \/ x \in Premium
  PROVE  \A i \in 1 .. (Slot(t, c) - 1) :
           \/ \E j \in 1 .. (Slot(s, c) - 1) : s[j] = t[i]
           \/ t[i] \in Premium
<1>1. /\ Slot(t, c) \in 1 .. Len(t) /\ Len(t) \in Nat
      /\ \A i \in 1 .. Len(t) : i < Slot(t, c) <=> Ahead(t, t[i], c)
  BY SlotFacts
<1>2. /\ Slot(s, c) \in 1 .. Len(s) /\ Len(s) \in Nat /\ s[Slot(s, c)] = c
      /\ DOMAIN s = 1 .. Len(s)
  BY SlotFacts
<1> HIDE DEF Slot
<1> TAKE i \in 1 .. (Slot(t, c) - 1)
<1>3. i \in 1 .. Len(t) /\ i < Slot(t, c)
  BY <1>1
<1>4. Ahead(t, t[i], c)
  BY <1>1, <1>3
<1>5. CASE Ahead(s, t[i], c)
  <2>1. PICK j \in DOMAIN s, k \in DOMAIN s : j < k /\ s[j] = t[i] /\ s[k] = c
    BY <1>5 DEF Ahead
  <2>2. k = Slot(s, c)
    BY <1>2, <2>1 DEF IsInjective
  <2>3. j \in 1 .. (Slot(s, c) - 1)
    BY <1>2, <2>1, <2>2
  <2> QED BY <2>1, <2>3
<1> QED BY <1>4, <1>5

(* A step on which c keeps its place.                                      *)
PlaceKept(c) ==
  \/ c \notin ToSet(waitList') /\ LoginFromList(c)
  \/ /\ c \in ToSet(waitList')
     /\ \A i \in 1 .. (Slot(waitList', c) - 1) :
          \/ \E j \in 1 .. (Slot(waitList, c) - 1) : waitList[j] = waitList'[i]
          \/ waitList'[i] \in Premium

(* For a step after which c is still in the list.                          *)
LEMMA StaysInFront ==
  ASSUME IInv, IInv', NEW c \in Waiting, c \in ToSet(waitList'),
         \A x : Ahead(waitList', x, c) => Ahead(waitList, x, c) \/ x \in Premium
  PROVE  PlaceKept(c)
<1>1. /\ waitList \in Seq(Clients) /\ IsInjective(waitList) /\ c \in ToSet(waitList)
      /\ waitList' \in Seq(Clients) /\ IsInjective(waitList')
  BY DEF IInv, TypeOK, Waiting
<1>2. \A i \in 1 .. (Slot(waitList', c) - 1) :
        \/ \E j \in 1 .. (Slot(waitList, c) - 1) : waitList[j] = waitList'[i]
        \/ waitList'[i] \in Premium
  BY <1>1, InFront
<1> QED BY <1>2 DEF PlaceKept

LEMMA NextKeepsPlaces ==
  ASSUME IInv, [Next]_vars, NEW c \in Waiting, left[c] > 0
  PROVE  PlaceKept(c)
<1>0. IInv'
  BY NextKeeps
<1>1. /\ SomeOf(Cleaned, waitList) /\ c \in ToSet(Cleaned)
  <2>1. c \in Clients
    BY DEF IInv, TypeOK, Waiting, ToSet
  <2> QED BY <2>1, CleanedFacts DEF IInv
<1>2. CASE waitList' = waitList
  BY <1>0, <1>2, StaysInFront DEF Waiting
<1>3. ASSUME NEW d \in Clients, LoginFromList(d) PROVE PlaceKept(c)
  <2>1. CASE c = d /\ c \notin ToSet(waitList')
    BY <1>3, <2>1 DEF PlaceKept
  <2>2. CASE ~(c = d /\ c \notin ToSet(waitList'))
    <3>1. c \in ToSet(waitList') /\ SomeOf(waitList', waitList)
      BY <1>1, <1>3, <2>2, ComesBack
    <3>2. \A x : Ahead(waitList', x, c) => Ahead(waitList, x, c)
      BY <3>1 DEF SomeOf
    <3> QED BY <1>0, <3>1, <3>2, StaysInFront
  <2> QED BY <2>1, <2>2
<1>4. ASSUME NEW d \in Clients, LoginQueues(d) PROVE PlaceKept(c)
  <2>1. c # d
    BY <1>1, <1>4 DEF LoginQueues
  <2>2. /\ ToSet(waitList') = ToSet(Cleaned) \cup {d}
        /\ \A x : Ahead(waitList', x, c) => Ahead(Cleaned, x, c) \/ (x = d /\ d \in Premium)
    BY <1>4, <2>1, Queues
  <2>3. \A x : Ahead(waitList', x, c) => Ahead(waitList, x, c) \/ x \in Premium
    BY <1>1, <2>2 DEF SomeOf
  <2> QED BY <1>0, <1>1, <2>2, <2>3, StaysInFront
<1> QED BY <1>2, <1>3, <1>4 DEF Next, Login, LoginUnhindered, Logout, Tick, vars

(* A client keeps its place until its time is up: its entry goes only with *)
(* its own login, and only premium players get in front of it.             *)
THEOREM PlaceIsKeptHolds == Spec => PlaceIsKept
<1>1. ASSUME IInv, [Next]_vars
      PROVE  \A c \in Waiting : left[c] > 0 => PlaceKept(c)
  BY <1>1, NextKeepsPlaces
<1>2. IInv /\ [Next]_vars =>
        [\A c \in Waiting : left[c] > 0 =>
           \/ c \notin ToSet(waitList') /\ LoginFromList(c)
           \/ /\ c \in ToSet(waitList')
              /\ \A i \in 1 .. (Slot(waitList', c) - 1) :
                   \/ \E j \in 1 .. (Slot(waitList, c) - 1) : waitList[j] = waitList'[i]
                   \/ waitList'[i] \in Premium]_vars
  BY <1>1 DEF PlaceKept
<1> QED BY <1>2, IInvHolds, PTL DEF Spec, PlaceIsKept

(* There are no more clients in the first k slots than slots.              *)
LEMMA FewAhead ==
  ASSUME NEW s, NEW k \in Nat
  PROVE  LET ahead == {s[i] : i \in 1 .. k} IN
         IsFiniteSet(ahead) /\ Cardinality(ahead) \in Nat /\ Cardinality(ahead) <= k
<1> DEFINE ahead == {s[i] : i \in 1 .. k}
           f == [i \in 1 .. k |-> s[i]]
<1>1. IsFiniteSet(1 .. k) /\ Cardinality(1 .. k) = k
  BY FS_Interval
<1>2. f \in Surjection(1 .. k, ahead)
  BY DEF Surjection
<1> HIDE DEF f, ahead
<1>3. IsFiniteSet(ahead) /\ Cardinality(ahead) <= Cardinality(1 .. k)
  BY <1>1, <1>2, FS_Surjection
<1>4. Cardinality(ahead) \in Nat
  BY <1>3, FS_CardinalityType
<1> QED BY <1>1, <1>3, <1>4 DEF ahead

(* The same, together with the players in the game and one more.           *)
LEMMA RoomForAll ==
  ASSUME NEW players, IsFiniteSet(players), NEW c, NEW ahead, IsFiniteSet(ahead),
         NEW k \in Nat, Cardinality(ahead) <= k
  PROVE  /\ Cardinality(players) \in Nat
         /\ Cardinality((players \cup {c}) \cup ahead) <= Cardinality(players) + 1 + k
<1>1. /\ Cardinality(players) \in Nat /\ Cardinality(ahead) \in Nat
  BY FS_CardinalityType
<1>2. /\ IsFiniteSet(players \cup {c})
      /\ Cardinality(players \cup {c}) =
           IF c \in players THEN Cardinality(players) ELSE Cardinality(players) + 1
  BY FS_AddElement
<1>3. Cardinality(players \cup {c}) \in Nat
  BY <1>2, FS_CardinalityType
<1> DEFINE both == (players \cup {c}) \cap ahead
           all == (players \cup {c}) \cup ahead
<1>4. IsFiniteSet(both)
  BY <1>2, FS_Subset
<1>5. Cardinality(both) \in Nat
  BY <1>4, FS_CardinalityType
<1>6. Cardinality(all) = Cardinality(players \cup {c}) + Cardinality(ahead) - Cardinality(both)
  BY <1>2, FS_Union
<1> HIDE DEF both
<1> QED BY <1>1, <1>2, <1>3, <1>5, <1>6

(* A login that is not a privileged player's leaves room.                  *)
LeavesRoom(c) ==
  LET ahead == IF c \notin Waiting THEN {}
               ELSE {Cleaned[i] : i \in 1 .. (Slot(Cleaned, c) - 1)}
  IN Cardinality(online' \cup ahead) <= MaxPlayers

(* Only the player who logs in appears.                                    *)
LEMMA EntersOnline ==
  ASSUME NEW c \in Clients, Enter(c), NEW d \in online' \ online
  PROVE  d = c /\ online' = online \cup {c}
BY DEF Enter

LEMMA UnhinderedLeavesRoom ==
  ASSUME IInv, NEW c \in Clients, LoginUnhindered(c), c \in online' \ online, ~Bypasses(c)
  PROVE  LeavesRoom(c)
<1>1. online' = online \cup {c}
  BY EntersOnline DEF LoginUnhindered
<1>2. waitList = <<>> /\ Cardinality(online) < MaxPlayers
  BY DEF LoginUnhindered, Unhindered
<1>3. c \notin Waiting
  BY <1>2 DEF Waiting, ToSet
<1>4. IsFiniteSet(online)
  BY WaitingListAssumption, FS_Subset DEF IInv, TypeOK
<1> DEFINE none == {}
<1>5. IsFiniteSet(none) /\ Cardinality(none) <= 0 /\ 0 \in Nat
  BY FS_EmptySet
<1> HIDE DEF none
<1>6. /\ Cardinality(online) \in Nat
      /\ Cardinality((online \cup {c}) \cup none) <= Cardinality(online) + 1 + 0
  BY <1>4, <1>5, RoomForAll
<1>7. Cardinality((online \cup {c}) \cup none) \in Nat
  <2>1. IsFiniteSet((online \cup {c}) \cup none)
    BY <1>4, <1>5, FS_AddElement, FS_Union
  <2> QED BY <2>1, FS_CardinalityType
<1>8. Cardinality(online' \cup none) <= MaxPlayers
  BY <1>1, <1>2, <1>6, <1>7, WaitingListAssumption
<1> QED BY <1>3, <1>8 DEF LeavesRoom, none

LEMMA FromListLeavesRoom ==
  ASSUME IInv, NEW c \in Clients, LoginFromList(c), c \in online' \ online
  PROVE  LeavesRoom(c)
<1> DEFINE slot == Slot(Cleaned, c)
           ahead == {Cleaned[i] : i \in 1 .. (slot - 1)}
<1>1. slot \in 1 .. Len(Cleaned) /\ c \in Waiting
  <2>1. c \in ToSet(Cleaned)
    BY DEF LoginFromList
  <2>2. c \in Waiting
    BY <2>1, CleanedFacts DEF IInv
  <2> QED BY <2>2, ComesBack
<1>2. ~NoRoom(slot) /\ online' = online \cup {c}
  BY EntersOnline DEF LoginFromList
<1> HIDE DEF slot
<1>3. slot - 1 \in Nat /\ slot \in Nat
  <2>1. Cleaned \in Seq(Clients)
    BY CleanedFacts DEF IInv, SomeOf
  <2> QED BY <1>1, <2>1
<1>4. IsFiniteSet(ahead) /\ Cardinality(ahead) <= slot - 1
  BY <1>3, FewAhead
<1>5. IsFiniteSet(online)
  BY WaitingListAssumption, FS_Subset DEF IInv, TypeOK
<1> HIDE DEF ahead
<1>6. /\ Cardinality(online) \in Nat
      /\ Cardinality((online \cup {c}) \cup ahead) <= Cardinality(online) + 1 + (slot - 1)
  BY <1>3, <1>4, <1>5, RoomForAll
<1>7. Cardinality((online \cup {c}) \cup ahead) \in Nat
  <2>1. IsFiniteSet(online \cup {c})
    BY <1>5, FS_AddElement
  <2>2. IsFiniteSet((online \cup {c}) \cup ahead)
    BY <1>4, <2>1, FS_Union
  <2> QED BY <2>2, FS_CardinalityType
<1>8. Cardinality(online) + slot <= MaxPlayers
  BY <1>2, <1>3, <1>6, WaitingListAssumption DEF NoRoom
<1>9. Cardinality(online' \cup ahead) <= MaxPlayers
  BY <1>2, <1>3, <1>6, <1>7, <1>8, WaitingListAssumption
<1> QED BY <1>1, <1>9 DEF LeavesRoom, ahead, slot

LEMMA NextLeavesRoom ==
  ASSUME IInv, [Next]_vars, NEW c \in online' \ online, ~Bypasses(c)
  PROVE  LeavesRoom(c)
<1>1. ASSUME NEW d \in Clients, LoginUnhindered(d) PROVE LeavesRoom(c)
  BY <1>1, EntersOnline, UnhinderedLeavesRoom DEF LoginUnhindered
<1>2. ASSUME NEW d \in Clients, LoginFromList(d) PROVE LeavesRoom(c)
  <2>1. Enter(d)
    BY <1>2 DEF LoginFromList
  <2> QED BY <1>2, <2>1, EntersOnline, FromListLeavesRoom
<1> QED BY <1>1, <1>2 DEF Next, Login, LoginQueues, Logout, Tick, vars

(* Whoever enters without a privilege leaves room for everybody who waits  *)
(* in front, however many places the server has.                           *)
THEOREM RoomForThoseAheadHolds == Spec => RoomForThoseAhead
<1>1. IInv /\ [Next]_vars =>
        [\A c \in online' \ online :
           ~Bypasses(c) =>
             LET ahead == IF c \notin Waiting THEN {}
                          ELSE {Cleaned[i] : i \in 1 .. (Slot(Cleaned, c) - 1)}
             IN Cardinality(online' \cup ahead) <= MaxPlayers]_vars
  BY NextLeavesRoom DEF LeavesRoom
<1> QED BY <1>1, IInvHolds, PTL DEF Spec, RoomForThoseAhead
=============================================================================
