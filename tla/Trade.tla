------------------------------- MODULE Trade -------------------------------
(***************************************************************************)
(* Trade between players (src/src/game.cpp, player.cpp).  The pointers     *)
(* tradePartner and tradeItem of two players and the table tradeItems must *)
(* agree while the players walk about, log out, and they or others move,   *)
(* change or use up the items on offer: whoever disturbs an offer is to    *)
(* end the trade through one of the notifications that players get.        *)
(*                                                                         *)
(* Every call runs in one task of the dispatcher, hence is one step.  The  *)
(* map is a set of places on one floor, and everybody sees all of them.    *)
(***************************************************************************)
EXTENDS Integers

CONSTANTS
  Players,
  Items,
  Bags,      \* the items that are containers
  Positions, \* the places where players stand and items lie
  None       \* the null pointer; also where an item is that is used up

ASSUME TradeAssumption ==
  /\ Bags \subseteq Items
  /\ Positions \subseteq Int
  /\ Players \cap (Items \cup Positions) = {}
  /\ Items \cap Positions = {}
  /\ None \notin Players \cup Items \cup Positions

VARIABLES
  pos,          \* Creature::position, None while the player is not in the game
  where,        \* Item::parent: a player, a bag or a place
  tradeState,   \* Player::tradeState
  tradePartner, \* Player::tradePartner
  tradeItem,    \* Player::tradeItem
  tradeItems,   \* Game::tradeItems
  down          \* the process followed a null pointer

tradeVars == <<tradeState, tradePartner, tradeItem, tradeItems>>
vars == <<pos, where, tradeVars, down>>

online == {p \in Players : pos[p] # None}

(* TRADE_TRANSFER is only seen within a step.                              *)
TradeStates == {"NONE", "INITIATED", "ACCEPT", "ACKNOWLEDGE"}

(* The bags that hold an item directly or not (isHoldingItem): the parent, *)
(* its parent and so on, hence what every set that goes on like this has.  *)
Closed(w, bs) == \A b \in bs : w[b] \in Bags => w[b] \in bs
Holders(w, i) ==
  {b \in Bags :
     \A bs \in SUBSET Bags : Closed(w, bs) /\ (w[i] \in Bags => w[i] \in bs) => b \in bs}

Within(w, i) == {i} \cup Holders(w, i)
Contents(w, i) == {j \in Items : i \in Holders(w, j)}

(* getTopParent(): who carries an item, or the place where it lies.        *)
Carrier(w, i) == CHOOSE c \in {w[j] : j \in Within(w, i)} : c \notin Bags

(* getPosition() of an item.                                               *)
PositionOf(w, i) == LET c == Carrier(w, i) IN IF c \in Players THEN pos[c] ELSE c

InRange(n, a, b) == {a, b} \subseteq Positions /\ a - b \in -n .. n

Init ==
  /\ pos \in [Players -> Positions]
  /\ where \in [Items -> Players]
  /\ tradeState = [p \in Players |-> "NONE"]
  /\ tradePartner = [p \in Players |-> None]
  /\ tradeItem = [p \in Players |-> None]
  /\ tradeItems = {}
  /\ down = FALSE
-----------------------------------------------------------------------------
(* Mutant: the partner is not told.                                        *)
EndedAlone(ps) == ps

(* internalCloseTrade ends the trade of a player and of its partner.       *)
Ended(ps) == ps \cup ({tradePartner[p] : p \in ps} \ {None})

(* Mutant: forgets the partner's item.                                     *)
ReleasedOwn(ps) == {tradeItem[p] : p \in ps}

Released(ps) == {tradeItem[p] : p \in Ended(ps)}

Close(ps) ==
  LET ended == Ended(ps)
      released == Released(ps)
      off(f, v) == [p \in Players |-> IF p \in ended THEN v ELSE f[p]]
  IN
  /\ tradeState' = off(tradeState, "NONE")
  /\ tradePartner' = off(tradePartner, None)
  /\ tradeItem' = off(tradeItem, None)
  /\ tradeItems' = {r \in tradeItems : r[1] \notin released}

(* Mutant: only looks at the item itself, not at the bags around it.       *)
ShallowCheck(p, w, i) == tradeItem[p] = i

(* checkTradeState: the item is the one offered, or inside it.             *)
CheckTradeState(p, w, i) == tradeItem[p] \in Within(w, i)

(* The item offered is inside item i.                                      *)
Carries(p, w, i) == tradeItem[p] # None /\ i \in Holders(w, tradeItem[p])

(* The players around a bag, who learn of what happens in it.              *)
Around(w, b) == {p \in online : InRange(2, pos[p], PositionOf(w, b))}

(* The players who learn of what happens to item i where it is.            *)
Watchers(w, i) ==
  IF w[i] \in Bags THEN Around(w, w[i]) ELSE {p \in online : w[i] \in Positions \cup {p}}

(* Whose trade ends when item i is taken from where it is.                 *)
EndedByRemoval(w, i) ==
  {p \in Watchers(w, i) :
     \/ CheckTradeState(p, w, i)
     \/ w[i] \notin Bags /\ Carries(p, w, i)
     \/ w[i] \in Bags /\ Carries(p, w, w[i]) /\ w[tradeItem[p]] # w[i]}

(* Whose trade ends when item i was put where w says: onAddContainerItem.  *)
EndedByAddition(w, i) ==
  IF w[i] \in Bags THEN {p \in Around(w, w[i]) : CheckTradeState(p, w, i)} ELSE {}

(* Whose trade ends when item i changes in place.                          *)
EndedByUpdate(w, i) == {p \in Watchers(w, i) : CheckTradeState(p, w, i)}
-----------------------------------------------------------------------------
(* What a player can take, or offer: its own, or what lies next to it.     *)
Reach(p, i) ==
  \/ Carrier(where, i) = p
  \/ Carrier(where, i) \in Positions /\ InRange(1, PositionOf(where, i), pos[p])

(* "This item is already being traded."                                    *)
AlreadyTraded(i) ==
  \E r \in tradeItems :
    \/ r[1] = i
    \/ i \in Holders(where, r[1])
    \/ r[1] \in Holders(where, i)

(* playerRequestTrade, up to the script, which may refuse.  A player too   *)
(* far from the item walks there and asks again.                           *)
CanRequestTrade(p, q, i) ==
  /\ {p, q} \subseteq online
  /\ p # q
  /\ InRange(2, pos[q], pos[p])
  /\ Reach(p, i)
  /\ ~AlreadyTraded(i)

InternalStartTrade(p, q, i) ==
  /\ \/ tradeState[p] = "NONE"
     \/ tradeState[p] = "ACKNOWLEDGE" /\ tradePartner[p] = q
  /\ tradeState[q] = "NONE" \/ tradePartner[q] = p
  /\ tradeState' = [tradeState EXCEPT
       ![p] = "INITIATED", ![q] = IF @ = "NONE" THEN "ACKNOWLEDGE" ELSE @]
  /\ tradePartner' = [tradePartner EXCEPT
       ![p] = q, ![q] = IF tradeState[q] = "NONE" THEN p ELSE @]
  /\ tradeItem' = [tradeItem EXCEPT ![p] = i]
  /\ tradeItems' = {r \in tradeItems : r[1] # i} \cup {<<i, p>>}

RequestTrade(p, q, i) ==
  /\ CanRequestTrade(p, q, i)
  /\ InternalStartTrade(p, q, i)
  /\ UNCHANGED <<pos, where, down>>

CanAccept(p) == p \in online /\ tradeState[p] \in {"ACKNOWLEDGE", "INITIATED"}
BothAccept(p) == tradePartner[p] # None /\ tradeState[tradePartner[p]] = "ACCEPT"

(* The player accepts first, or a script does not let the two trade: then  *)
(* both stay in TRADE_ACCEPT until one of them closes the trade.           *)
Accept(p) ==
  /\ CanAccept(p)
  /\ tradeState' = [tradeState EXCEPT ![p] = "ACCEPT"]
  /\ UNCHANGED <<pos, where, tradePartner, tradeItem, tradeItems, down>>

(* Mutant: what a player gives away is no exception.                       *)
AnyDestination(w, q, i) ==
  {q} \cup {b \in Bags : Carrier(w, b) = q /\ i \notin Within(w, b)}

(* Player::__queryDestination: a slot, or a bag that is not given away.    *)
Destinations(w, q, i) ==
  {q} \cup {b \in Bags : /\ Carrier(w, b) = q
                         /\ {i, tradeItem[q]} \cap Within(w, b) = {}}

(* playerAcceptTrade by the second player moves both items, if both would  *)
(* find room, which the code tests before it moves the first.              *)
Transfer(p) ==
  LET q == tradePartner[p]
      mine == tradeItem[p]
      theirs == tradeItem[q]
  IN
  /\ CanAccept(p)
  /\ BothAccept(p)
  /\ None \notin {mine, theirs}
  /\ \E there \in Destinations(where, q, mine) :
       LET half == [where EXCEPT ![mine] = there] IN
       \E here \in Destinations(half, p, theirs) :
         LET both == [half EXCEPT ![theirs] = here] IN
         /\ where' = both
         /\ Close({p} \cup ((EndedByRemoval(where, mine) \cup EndedByAddition(half, mine)
                 \cup EndedByRemoval(half, theirs) \cup EndedByAddition(both, theirs)) \ {q}))
  /\ UNCHANGED <<pos, down>>

(* One of the tests failed.                                                *)
TransferFails(p) ==
  /\ CanAccept(p)
  /\ BothAccept(p)
  /\ None \notin {tradeItem[p], tradeItem[tradePartner[p]]}
  /\ Close({p})
  /\ UNCHANGED <<pos, where, down>>

(* An acknowledging player may accept without an offer of its own: the     *)
(* test fails, and onTradeEvent is called on a null pointer.               *)
TransferOfNothing(p) ==
  /\ CanAccept(p)
  /\ BothAccept(p)
  /\ None \in {tradeItem[p], tradeItem[tradePartner[p]]}
  /\ down' = TRUE
  /\ UNCHANGED <<pos, where, tradeVars>>

(* playerCloseTrade; and a player who turns into a ghost.                  *)
CloseTrade(p) ==
  /\ p \in online
  /\ Close({p})
  /\ UNCHANGED <<pos, where, down>>

(* onCreatureDisappear: the player logs out, dies or is removed.           *)
Disappear(p) ==
  /\ p \in online
  /\ pos' = [pos EXCEPT ![p] = None]
  /\ Close({p})
  /\ UNCHANGED <<where, down>>

Appear(p, at) ==
  /\ p \notin online
  /\ pos' = [pos EXCEPT ![p] = at]
  /\ UNCHANGED <<where, tradeVars, down>>

(* Mutant: the player may walk away from its offer.                        *)
LeavesPartner(p, to) == tradePartner[p] # None /\ ~InRange(2, pos[tradePartner[p]], to)

(* onCreatureMove of the player that moved: too far for the trade.         *)
Leaves(p, to) ==
  \/ tradePartner[p] # None /\ ~InRange(2, pos[tradePartner[p]], to)
  \/ /\ tradeItem[p] # None
     /\ Carrier(where, tradeItem[p]) # p
     /\ ~InRange(1, PositionOf(where, tradeItem[p]), to)

Move(p, to) ==
  /\ p \in online
  /\ to # pos[p]
  /\ pos' = [pos EXCEPT ![p] = to]
  /\ IF Leaves(p, to) THEN Close({p}) ELSE UNCHANGED tradeVars
  /\ UNCHANGED <<where, down>>

(* playerMoveItem: to a slot, to a place or into a bag within reach.       *)
MoveItem(p, i) ==
  LET into == {b \in Bags : Reach(p, b) /\ i \notin Within(where, b)}
      removal == EndedByRemoval(where, i)
  IN
  /\ p \in online
  /\ Reach(p, i)
  /\ \E to \in {p} \cup Positions \cup into :
       LET moved == [where EXCEPT ![i] = to] IN
       /\ where' = moved
       /\ Close(removal \cup EndedByAddition(moved, i))
  /\ UNCHANGED <<pos, down>>

(* An item decays to nothing or is used up.                                *)
RemoveItem(i) ==
  /\ Carrier(where, i) \in online \cup Positions
  /\ where' = [where EXCEPT ![i] = None]
  /\ Close(EndedByRemoval(where, i))
  /\ UNCHANGED <<pos, down>>

(* An item is transformed, or its count changes, where it is.              *)
UpdateItem(i) ==
  /\ Carrier(where, i) \in online \cup Positions
  /\ Close(EndedByUpdate(where, i))
  /\ UNCHANGED <<pos, where, down>>

PlayerStep(p) ==
  \/ \E q \in Players, i \in Items : RequestTrade(p, q, i)
  \/ Accept(p)
  \/ Transfer(p)
  \/ TransferFails(p)
  \/ TransferOfNothing(p)
  \/ CloseTrade(p)
  \/ Disappear(p)
  \/ \E at \in Positions : Appear(p, at) \/ Move(p, at)
  \/ \E i \in Items : MoveItem(p, i)

Next ==
  /\ ~down
  /\ \/ \E p \in Players : PlayerStep(p)
     \/ \E i \in Items : RemoveItem(i) \/ UpdateItem(i)

Spec == Init /\ [][Next]_vars
-----------------------------------------------------------------------------
TypeOK ==
  /\ pos \in [Players -> Positions \cup {None}]
  /\ where \in [Items -> Players \cup Bags \cup Positions \cup {None}]
  /\ tradeState \in [Players -> TradeStates]
  /\ tradePartner \in [Players -> Players \cup {None}]
  /\ tradeItem \in [Players -> Items \cup {None}]
  /\ tradeItems \subseteq Items \X Players
  /\ down \in BOOLEAN

(***************************************************************************)
(* Two traders point at each other and both are in the game: no sequence   *)
(* of requests, moves and removals leaves one of them with a partner who   *)
(* trades with somebody else, or with a pointer to a player who is gone.   *)
(***************************************************************************)
PartnersAgree ==
  \A p \in Players :
    /\ tradeState[p] = "NONE" <=> tradePartner[p] = None
    /\ tradePartner[p] # None =>
         /\ {p, tradePartner[p]} \subseteq online
         /\ tradePartner[p] # p
         /\ tradePartner[tradePartner[p]] = p

(***************************************************************************)
(* Game::tradeItems lists the standing offers and nothing else.  An entry  *)
(* that stays behind makes its item "already being traded" for ever.       *)
(***************************************************************************)
TableMatchesOffers ==
  /\ tradeItems = {<<tradeItem[p], p>> : p \in {q \in Players : tradeItem[q] # None}}
  /\ \A p \in Players : tradeState[p] \in {"NONE", "ACKNOWLEDGE"} => tradeItem[p] = None

(***************************************************************************)
(* Nothing is offered twice, neither by itself nor inside something else,  *)
(* although items may be put into a bag that is on offer already.          *)
(***************************************************************************)
OffersDisjoint ==
  \A p, q \in Players :
    p # q /\ tradeItem[p] # None => tradeItem[q] \notin Within(where, tradeItem[p])

(***************************************************************************)
(* While an offer stands, its item lies next to the player or is carried   *)
(* by it, and the partner is near: whoever walks off or takes the item     *)
(* away, even in a bag around it, has ended the trade.                     *)
(***************************************************************************)
OfferInReach ==
  \A p \in Players :
    /\ tradeItem[p] # None => Reach(p, tradeItem[p])
    /\ tradePartner[p] # None => InRange(2, pos[p], pos[tradePartner[p]])

(* Both: an offer that stands can be kept.                                 *)
OffersStand == OffersDisjoint /\ OfferInReach

(***************************************************************************)
(* What is handed over is what the partner was shown: as long as the offer *)
(* stands, the item stays where it is, nothing in it is moved or joined by *)
(* something else, and a change of any of it would end the trade.          *)
(***************************************************************************)
OfferFrozen ==
  [][\A p \in Players :
       LET i == tradeItem[p] IN
       i # None /\ tradeItem'[p] = i =>
         /\ Contents(where', i) = Contents(where, i)
         /\ \A j \in {i} \cup Contents(where, i) :
              where'[j] = where[j] /\ p \in EndedByUpdate(where, j)]_vars

(***************************************************************************)
(* An item passes from one player to another only in exchange for what the *)
(* other offered, which the first then carries.                            *)
(***************************************************************************)
OnlyInExchange ==
  [][\A i \in Items :
       LET p == Carrier(where, i)
           q == Carrier(where', i)
       IN p # q /\ {p, q} \subseteq Players =>
            /\ tradePartner[p] = q
            /\ CheckTradeState(p, where, i)
            /\ tradeItem[q] # None
            /\ Carrier(where', tradeItem[q]) = p]_vars
=============================================================================
