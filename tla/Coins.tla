------------------------------- MODULE Coins -------------------------------
(***************************************************************************)
(* Stacks of coins (src/src/game.cpp with the cylinders of player.cpp,     *)
(* container.cpp and tile.cpp): they are moved, split, merged and put in   *)
(* exchange by hand, and paid out and collected by scripts and NPCs.  A    *)
(* player has a free slot and a pack with a bag in it; what finds no room  *)
(* lies on the floor.                                                      *)
(*                                                                         *)
(* What a player can lift is a choice of each call.                        *)
(***************************************************************************)
EXTENDS Naturals, Sequences

CONSTANTS
  Kinds,     \* the kinds of coins, the most precious first
  Worth,     \* of each kind
  StackSize, \* 100, the most in a stack
  PackSize,
  BagSize,
  MaxWorth,  \* the most money of an instance
  MaxFloor   \* the most stacks on the floor of an instance

KindSet == {Kinds[i] : i \in DOMAIN Kinds}

CoinsAssumption ==
  /\ StackSize \in Nat \ {0} /\ PackSize \in Nat \ {0} /\ BagSize \in Nat
  /\ MaxWorth \in Nat /\ MaxFloor \in Nat
  /\ Kinds \in Seq(KindSet) /\ Kinds # <<>> /\ "bag" \notin KindSet
  /\ Worth \in [KindSet -> Nat \ {0}]
  /\ Worth[Kinds[Len(Kinds)]] = 1

Cylinders == {"slot", "pack", "bag", "floor"}
Carried == <<"slot", "pack", "bag">>
Bag == [kind |-> "bag", count |-> 1]
Wherever == 99 \* INDEX_WHEREEVER

VARIABLES
  has,    \* of each cylinder the sequence of its items, the first in front
  booked  \* history: what was paid out, less what was collected

vars == <<has, booked>>

Stack(k, n) == [kind |-> k, count |-> n]
Least(a, b) == IF a < b THEN a ELSE b

(* What items are worth, at a price for each kind.                         *)
Prices == [k \in KindSet \cup {"bag"} |-> IF k = "bag" THEN 0 ELSE Worth[k]]
Sum(items, price) ==
  LET sum[n \in 0..Len(items)] ==
        IF n = 0 THEN 0 ELSE sum[n - 1] + price[items[n].kind] * items[n].count
  IN sum[Len(items)]
Total(s, price) == Sum(s["slot"], price) + Sum(s["pack"], price) + Sum(s["bag"], price)

Init ==
  /\ has = [c \in Cylinders |-> IF c = "pack" THEN <<Bag>> ELSE <<>>]
  /\ booked = 0
-----------------------------------------------------------------------------
Size(c) == CASE c = "slot" -> 1 [] c = "pack" -> PackSize [] c = "bag" -> BagSize
Full(s, c) == c # "floor" /\ Len(s[c]) >= Size(c)

(* Player::__queryDestination for "wherever": the slot, then the           *)
(* containers from the outside in.  It does not look for stacks to fill.   *)
Search(s) ==
  LET free == {i \in DOMAIN Carried : ~Full(s, Carried[i])} IN
  IF free = {} THEN "none" ELSE Carried[CHOOSE i \in free : \A j \in free : i <= j]

(* What merges with the stack at a place, and a new stack of the rest.     *)
Put(s, c, at, item) ==
  LET same == at \in DOMAIN s[c] /\ s[c][at].kind = item.kind
      merged == IF same THEN Least(StackSize - s[c][at].count, item.count) ELSE 0
      kept == IF same THEN [s EXCEPT ![c][at].count = @ + merged] ELSE s
  IN IF merged = item.count THEN kept
     ELSE [kept EXCEPT ![c] = <<Stack(item.kind, item.count - merged)>> \o @]

(* internalAddItem to the player, and else to its tile.                    *)
InternalAddItem(s, able, item) ==
  LET c == Search(s) IN
  IF c # "none" /\ item.kind \in able THEN Put(s, c, 0, item) ELSE Put(s, "floor", 1, item)

(* Coins of one kind, in stacks of StackSize and a last one with the rest. *)
Paid(s, able, kind, count) ==
  LET paid[n \in 0..count] ==
        IF n = 0 THEN [s |-> s, left |-> count]
        ELSE LET p == paid[n - 1]
                 m == Least(StackSize, p.left)
             IN IF p.left = 0 THEN p
                ELSE [s |-> InternalAddItem(p.s, able, Stack(kind, m)), left |-> p.left - m]
  IN paid[count].s

(* addMoney: the precious kinds first.                                     *)
MoneyAdded(s, able, money) ==
  LET added[n \in 0..Len(Kinds)] ==
        IF n = 0 THEN [s |-> s, left |-> money]
        ELSE LET a == added[n - 1]
                 kind == Kinds[n]
             IN [s |-> Paid(a.s, able, kind, a.left \div Worth[kind]),
                 left |-> a.left % Worth[kind]]
  IN added[Len(Kinds)].s

Taken(s, c, at, count) == [s EXCEPT ![c][at].count = @ - count]

(* Without the stacks of which all was taken.                              *)
Rest(items) ==
  LET rest[n \in 0..Len(items)] ==
        IF n = 0 THEN <<>>
        ELSE IF items[n].count = 0 THEN rest[n - 1] ELSE Append(rest[n - 1], items[n])
  IN rest[Len(items)]
Swept(s) == [c \in Cylinders |-> Rest(s[c])]

(* What a player carries, by cylinder and place, and what is found first.  *)
Stacks(s) == UNION {{[in |-> n, at |-> i] : i \in DOMAIN s[Carried[n]]} : n \in DOMAIN Carried}
ItemAt(s, e) == s[Carried[e.in]][e.at]
FirstOf(stacks) ==
  CHOOSE e \in stacks : \A f \in stacks : e.in < f.in \/ (e.in = f.in /\ e.at <= f.at)

(* The front of the multimap of removeMoney: by worth, and as found.       *)
Cheapest(s) ==
  LET Value(e) == Prices[ItemAt(s, e).kind] * ItemAt(s, e).count
      coins == {e \in Stacks(s) : Value(e) > 0}
  IN FirstOf({e \in coins : \A f \in coins : Value(e) <= Value(f)})

(* removeMoney: whole stacks go, and the rest of the last one comes back.  *)
Collected(s, money) ==
  LET collected[n \in 0..money] ==
        IF n = 0 THEN [s |-> s, left |-> money, change |-> 0]
        ELSE LET t == collected[n - 1]
                 e == Cheapest(t.s)
                 item == ItemAt(t.s, e)
                 worth == Prices[item.kind] * item.count
                 m == Least(t.left, worth)
             IN IF t.left = 0 THEN t
                ELSE [s |-> Taken(t.s, Carried[e.in], e.at, item.count),
                      left |-> t.left - m, change |-> worth - m]
  IN collected[money]

MoneyRemoved(s, able, money) ==
  LET t == Collected(s, money) IN MoneyAdded(Swept(t.s), able, t.change)

(* removeItemOfType: the slot first, then the containers.                  *)
TypeTaken(s, kind, count) ==
  LET taken[n \in 0..count] ==
        IF n = 0 THEN [s |-> s, left |-> count]
        ELSE LET t == taken[n - 1]
                 e == FirstOf({f \in Stacks(t.s) :
                                 ItemAt(t.s, f).kind = kind /\ ItemAt(t.s, f).count > 0})
                 m == Least(t.left, ItemAt(t.s, e).count)
             IN IF t.left = 0 THEN t
                ELSE [s |-> Taken(t.s, Carried[e.in], e.at, m), left |-> t.left - m]
  IN taken[count]
-----------------------------------------------------------------------------
Able == SUBSET KindSet

AddMoney(money) ==
  /\ \E able \in Able : has' = MoneyAdded(has, able, money)
  /\ booked' = booked + money

(* FALSE, and nothing changed, without enough of it.                       *)
RemoveMoney(money) ==
  /\ Total(has, Prices) >= money
  /\ \E able \in Able : has' = MoneyRemoved(has, able, money)
  /\ booked' = booked - money

CountOf(s, kind) ==
  Total(s, [k \in KindSet \cup {"bag"} |-> IF k = kind THEN 1 ELSE 0])

RemoveItemOfType(kind, count) ==
  /\ CountOf(has, kind) >= count
  /\ has' = Swept(TypeTaken(has, kind, count).s)
  /\ booked' = booked - count * Worth[kind]
-----------------------------------------------------------------------------
(* Where a stack goes: a cylinder and, if there is one, the item there.    *)
QueryDestination(s, to, j) ==
  IF to = "player" THEN [c |-> Search(s), at |-> 0]
  ELSE IF to = "pack" /\ j \in DOMAIN s.pack /\ s.pack[j] = Bag THEN [c |-> "bag", at |-> 0]
  ELSE IF to \in {"pack", "bag"} THEN [c |-> to, at |-> IF j > Size(to) THEN Wherever ELSE j]
  ELSE [c |-> to, at |-> 1]

(* Mutant: a full container takes a stack that is dropped on another.      *)
QueryMaxCountAnyway(s, d, kind) ==
  LET there == d.at \in DOMAIN s[d.c]
      room == IF there /\ s[d.c][d.at].kind = kind THEN StackSize - s[d.c][d.at].count ELSE 0
  IN IF d.c = "floor" THEN StackSize
     ELSE IF d.c = "slot" THEN (IF there THEN room ELSE StackSize)
     ELSE (Size(d.c) - Len(s[d.c])) * StackSize + (IF there THEN StackSize ELSE 0)

QueryMaxCount(s, d, kind) ==
  LET there == d.at \in DOMAIN s[d.c]
      room == IF there /\ s[d.c][d.at].kind = kind THEN StackSize - s[d.c][d.at].count ELSE 0
  IN IF d.c = "floor" THEN StackSize
     ELSE IF d.c = "slot" THEN (IF there THEN room ELSE StackSize)
     ELSE (Size(d.c) - Len(s[d.c])) * StackSize + room

(* A container that a stack is dropped "wherever" in must not be full.     *)
QueryAdd(s, d) == d.c # "none" /\ (d.at \in {0, Wherever} => ~Full(s, d.c))

(* The part of internalMoveItem that moves: as much as there is room for.  *)
Moved(s, from, i, d, count) ==
  LET item == s[from][i]
      m == Least(count, QueryMaxCount(s, d, item.kind))
      put == Put(s, d.c, d.at, Stack(item.kind, m))
      shift == IF from = d.c THEN Len(put[from]) - Len(s[from]) ELSE 0
  IN Swept(Taken(put, from, i + shift, m))

(* A full slot gives what it holds to where the new stack comes from.      *)
NeedExchange(s, d, kind) ==
  d.c = "slot" /\ s.slot # <<>> /\ s.slot[1].kind # kind

MoveItem(from, i, to, j, count) ==
  LET item == has[from][i]
      d == QueryDestination(has, to, j)
      given == [has EXCEPT !.slot = <<>>, ![from] = has.slot \o @]
  IN
  /\ i \in DOMAIN has[from] /\ item # Bag /\ count <= item.count
  /\ QueryAdd(has, d)
  /\ <<d.c, d.at>> # <<from, i>>
  /\ \/ /\ ~NeedExchange(has, d, item.kind)
        /\ has' = Moved(has, from, i, d, count)
     \/ /\ NeedExchange(has, d, item.kind)
        /\ ~Full(has, from)
        \* It may turn out too heavy only now.
        /\ has' \in {given, Moved(given, from, i + 1, d, count)}
  /\ UNCHANGED booked

Next ==
  /\ \/ \E money \in 1..MaxWorth : AddMoney(money) \/ RemoveMoney(money)
     \/ \E kind \in KindSet, count \in 1..MaxWorth : RemoveItemOfType(kind, count)
     \/ \E from, to \in Cylinders \cup {"player"} :
          \E i, j \in 1..PackSize + MaxFloor, count \in 1..StackSize :
            from # "player" /\ MoveItem(from, i, to, j, count)
  /\ booked' <= MaxWorth
  /\ Len(has'.floor) <= MaxFloor

Spec == Init /\ [][Next]_vars
-----------------------------------------------------------------------------
TypeOK ==
  /\ DOMAIN has = Cylinders
  /\ \A c \in Cylinders : \A i \in DOMAIN has[c] : has[c][i].kind \in KindSet \cup {"bag"}
  /\ booked \in Nat

(***************************************************************************)
(* All coins together are worth what was paid out and not collected, no    *)
(* stack is empty or above StackSize, and no container holds more than its *)
(* size: splitting, merging, exchanging and giving change in full pockets  *)
(* makes no money and loses none.                                          *)
(***************************************************************************)
CoinsAddUp ==
  /\ Total(has, Prices) + Sum(has["floor"], Prices) = booked
  /\ \A c \in Cylinders \ {"floor"} : Len(has[c]) <= Size(c)
  /\ \A c \in Cylinders : \A i \in DOMAIN has[c] : has[c][i].count \in 1..StackSize
=============================================================================
