---------------------------- MODULE TradeProofs ----------------------------
(***************************************************************************)
(* Proofs about Trade for any players, items, bags and places: its types,  *)
(* that partners agree, and that the table of offers is exact; where the   *)
(* items are does not matter to these, only who may end whose trade.       *)
(*                                                                         *)
(* Then what is offered: that offers stay in reach, as they were shown,    *)
(* and that nothing passes but in an exchange.  This rests on bags being   *)
(* in each other without a cycle, and on what a move does to the bags      *)
(* around an item and to who carries it.                                   *)
(***************************************************************************)
EXTENDS Trade, TLAPS

(* No item is offered by two players.                                      *)
OffersDistinct ==
  \A p, q \in Players : p # q /\ tradeItem[p] # None => tradeItem[q] # tradeItem[p]

IInv == TypeOK /\ PartnersAgree /\ OffersDistinct /\ TableMatchesOffers

(* What a step can do to the trades: end some, start or answer one, accept *)
(* one, or nothing; and nobody leaves the game without ending its trade.   *)
Closes == \E ps \in SUBSET Players : Close(ps) /\ online \ ps \subseteq online'

Starts ==
  \E p, q \in Players, i \in Items :
    CanRequestTrade(p, q, i) /\ InternalStartTrade(p, q, i) /\ UNCHANGED pos

Accepts == \E p \in Players : Accept(p)

Keeps == UNCHANGED tradeVars /\ online \subseteq online'
-----------------------------------------------------------------------------
(* Only players of the game have their trade ended by what they notice.    *)
LEMMA EndedArePlayers ==
  ASSUME NEW w, NEW i
  PROVE  /\ EndedByRemoval(w, i) \subseteq Players
         /\ EndedByAddition(w, i) \subseteq Players
         /\ EndedByUpdate(w, i) \subseteq Players
<1>1. Watchers(w, i) \subseteq Players /\ Around(w, w[i]) \subseteq Players
  BY DEF Watchers, Around, online
<1> QED BY <1>1 DEF EndedByRemoval, EndedByAddition, EndedByUpdate

(* internalCloseTrade leaves values of the right types.                    *)
LEMMA CloseTypes ==
  ASSUME TypeOK, NEW ps, Close(ps)
  PROVE  /\ tradeState' \in [Players -> TradeStates]
         /\ tradePartner' \in [Players -> Players \cup {None}]
         /\ tradeItem' \in [Players -> Items \cup {None}]
         /\ tradeItems' \subseteq Items \X Players
  BY DEF Close, TypeOK, TradeStates

THEOREM TypeInvariant == Spec => []TypeOK
<1>1. Init => TypeOK
  BY DEF Init, TypeOK, TradeStates
<1>2. TypeOK /\ [Next]_vars => TypeOK'
  <2> SUFFICES ASSUME TypeOK, [Next]_vars PROVE TypeOK'
    OBVIOUS
  <2>1. ASSUME NEW p \in Players, NEW q \in Players, NEW i \in Items, RequestTrade(p, q, i)
        PROVE TypeOK'
    BY <2>1 DEF RequestTrade, InternalStartTrade, TypeOK, TradeStates
  <2>2. ASSUME NEW p \in Players, Accept(p) PROVE TypeOK'
    BY <2>2 DEF Accept, TypeOK, TradeStates
  <2>3. ASSUME NEW p \in Players, Transfer(p) PROVE TypeOK'
    <3> DEFINE q == tradePartner[p]
               mine == tradeItem[p]
               theirs == tradeItem[q]
    <3>1. mine \in Items /\ q \in Players /\ theirs \in Items
      BY <2>3 DEF Transfer, BothAccept, TypeOK
    <3>2. PICK there \in Destinations(where, q, mine) :
            LET half == [where EXCEPT ![mine] = there] IN
            \E here \in Destinations(half, p, theirs) :
              /\ where' = [half EXCEPT ![theirs] = here]
              /\ \E ps : Close(ps)
      BY <2>3 DEF Transfer
    <3> DEFINE half == [where EXCEPT ![mine] = there]
    <3>3. PICK here \in Destinations(half, p, theirs) :
            where' = [half EXCEPT ![theirs] = here] /\ \E ps : Close(ps)
      BY <3>2
    <3>4. there \in Players \cup Bags /\ here \in Players \cup Bags
      BY <3>1 DEF Destinations
    <3>5. where' \in [Items -> Players \cup Bags \cup Positions \cup {None}]
      BY <3>3, <3>4 DEF TypeOK
    <3>6. PICK ps : Close(ps) BY <3>3
    <3>7. UNCHANGED <<pos, down>> BY <2>3 DEF Transfer
    <3> QED BY <3>5, <3>6, <3>7, CloseTypes DEF TypeOK
  <2>4. ASSUME NEW p \in Players, TransferFails(p) PROVE TypeOK'
    BY <2>4, CloseTypes DEF TransferFails, TypeOK
  <2>5. ASSUME NEW p \in Players, TransferOfNothing(p) PROVE TypeOK'
    BY <2>5 DEF TransferOfNothing, TypeOK, tradeVars
  <2>6. ASSUME NEW p \in Players, CloseTrade(p) PROVE TypeOK'
    BY <2>6, CloseTypes DEF CloseTrade, TypeOK
  <2>7. ASSUME NEW p \in Players, Disappear(p) PROVE TypeOK'
    BY <2>7, CloseTypes DEF Disappear, TypeOK
  <2>8. ASSUME NEW p \in Players, NEW at \in Positions, Appear(p, at) PROVE TypeOK'
    BY <2>8 DEF Appear, TypeOK, tradeVars
  <2>9. ASSUME NEW p \in Players, NEW to \in Positions, Move(p, to) PROVE TypeOK'
    <3>1. pos' \in [Players -> Positions \cup {None}] /\ UNCHANGED <<where, down>>
      BY <2>9 DEF Move, TypeOK
    <3>2. CASE Close({p}) BY <3>1, <3>2, CloseTypes DEF TypeOK
    <3>3. CASE UNCHANGED tradeVars BY <3>1, <3>3 DEF TypeOK, tradeVars
    <3> QED BY <2>9, <3>2, <3>3 DEF Move
  <2>10. ASSUME NEW p \in Players, NEW i \in Items, MoveItem(p, i) PROVE TypeOK'
    <3>1. PICK to \in {p} \cup Positions \cup Bags :
            where' = [where EXCEPT ![i] = to] /\ \E ps : Close(ps)
      BY <2>10 DEF MoveItem
    <3>2. where' \in [Items -> Players \cup Bags \cup Positions \cup {None}]
      BY <3>1 DEF TypeOK
    <3>3. PICK ps : Close(ps) BY <3>1
    <3> QED BY <2>10, <3>2, <3>3, CloseTypes DEF MoveItem, TypeOK
  <2>11. ASSUME NEW i \in Items, RemoveItem(i) PROVE TypeOK'
    <3>1. where' \in [Items -> Players \cup Bags \cup Positions \cup {None}]
      BY <2>11 DEF RemoveItem, TypeOK
    <3> QED BY <2>11, <3>1, CloseTypes DEF RemoveItem, TypeOK
  <2>12. ASSUME NEW i \in Items, UpdateItem(i) PROVE TypeOK'
    BY <2>12, CloseTypes DEF UpdateItem, TypeOK
  <2>13. CASE UNCHANGED vars BY <2>13 DEF vars, tradeVars, TypeOK
  <2> QED
    BY <2>1, <2>2, <2>3, <2>4, <2>5, <2>6, <2>7, <2>8, <2>9, <2>10, <2>11, <2>12, <2>13
    DEF Next, PlayerStep
<1> QED BY <1>1, <1>2, PTL DEF Spec
-----------------------------------------------------------------------------
(* Every step does one of four things to the trades.                       *)
LEMMA StepKinds ==
  ASSUME TypeOK, [Next]_vars
  PROVE  Closes \/ Starts \/ Accepts \/ Keeps
<1>1. ASSUME NEW p \in Players, NEW q \in Players, NEW i \in Items, RequestTrade(p, q, i)
      PROVE Starts
  BY <1>1 DEF RequestTrade, Starts
<1>2. ASSUME NEW p \in Players, Accept(p) PROVE Accepts
  BY <1>2 DEF Accepts
<1>3. ASSUME NEW p \in Players, Transfer(p) PROVE Closes
  <2> DEFINE q == tradePartner[p]
             mine == tradeItem[p]
             theirs == tradeItem[q]
  <2>1. PICK there \in Destinations(where, q, mine) :
          LET half == [where EXCEPT ![mine] = there] IN
          \E here \in Destinations(half, p, theirs) :
            Close({p} \cup ((EndedByRemoval(where, mine) \cup EndedByAddition(half, mine)
              \cup EndedByRemoval(half, theirs) \cup EndedByAddition(where', theirs)) \ {q}))
    BY <1>3 DEF Transfer
  <2> DEFINE half == [where EXCEPT ![mine] = there]
             ps == {p} \cup ((EndedByRemoval(where, mine) \cup EndedByAddition(half, mine)
                \cup EndedByRemoval(half, theirs) \cup EndedByAddition(where', theirs)) \ {q})
  <2>2. Close(ps) BY <2>1
  <2>3. ps \subseteq Players BY EndedArePlayers
  <2>4. UNCHANGED pos BY <1>3 DEF Transfer
  <2> HIDE DEF ps
  <2> QED BY <2>2, <2>3, <2>4 DEF Closes, online
<1>4. ASSUME NEW p \in Players, Close({p}), UNCHANGED pos PROVE Closes
  BY <1>4 DEF Closes, online
<1>5. ASSUME NEW p \in Players, TransferOfNothing(p) PROVE Keeps
  BY <1>5 DEF TransferOfNothing, Keeps, online
<1>6. ASSUME NEW p \in Players, Disappear(p) PROVE Closes
  <2>1. Close({p}) /\ online \ {p} \subseteq online'
    BY <1>6 DEF Disappear, online, TypeOK
  <2> QED BY <2>1 DEF Closes
<1>7. ASSUME NEW p \in Players, NEW at \in Positions, Appear(p, at) PROVE Keeps
  BY <1>7, TradeAssumption DEF Appear, Keeps, online, TypeOK
<1>8. ASSUME NEW p \in Players, NEW to \in Positions, Move(p, to) PROVE Closes \/ Keeps
  <2>1. online \subseteq online'
    BY <1>8, TradeAssumption DEF Move, online, TypeOK
  <2>2. CASE Close({p}) BY <2>1, <2>2 DEF Closes
  <2>3. CASE UNCHANGED tradeVars BY <2>1, <2>3 DEF Keeps
  <2> QED BY <1>8, <2>2, <2>3 DEF Move
<1>9. ASSUME NEW p \in Players, NEW i \in Items, MoveItem(p, i) PROVE Closes
  <2>1. Close(EndedByRemoval(where, i) \cup EndedByAddition(where', i)) /\ UNCHANGED pos
    BY <1>9 DEF MoveItem
  <2> QED BY <2>1, EndedArePlayers DEF Closes, online
<1>10. ASSUME NEW i \in Items, RemoveItem(i) PROVE Closes
  BY <1>10, EndedArePlayers DEF RemoveItem, Closes, online
<1>11. ASSUME NEW i \in Items, UpdateItem(i) PROVE Closes
  BY <1>11, EndedArePlayers DEF UpdateItem, Closes, online
<1>12. CASE UNCHANGED vars BY <1>12 DEF vars, Keeps, online
<1>13. ASSUME NEW p \in Players, TransferFails(p) \/ CloseTrade(p) PROVE Closes
  BY <1>4, <1>13 DEF TransferFails, CloseTrade
<1> QED
  BY <1>1, <1>2, <1>3, <1>5, <1>6, <1>7, <1>8, <1>9, <1>10, <1>11, <1>12, <1>13
  DEF Next, PlayerStep
-----------------------------------------------------------------------------
(* Whoever is left alone by a closing has a partner who is left alone.     *)
LEMMA EndedInPairs ==
  ASSUME TypeOK, PartnersAgree, NEW ps \in SUBSET Players,
         NEW p \in Players \ Ended(ps), tradePartner[p] # None
  PROVE  tradePartner[p] \in Players \ Ended(ps)
<1> DEFINE q == tradePartner[p]
<1>1. q \in Players /\ tradePartner[q] = p /\ p # None
  BY TradeAssumption DEF TypeOK, PartnersAgree
<1>2. q \notin ps
  BY <1>1 DEF Ended
<1>3. ASSUME NEW r \in ps, tradePartner[r] = q PROVE FALSE
  <2>1. tradePartner[q] = r BY <1>1, <1>3 DEF PartnersAgree
  <2> QED BY <1>1, <2>1 DEF Ended
<1> QED BY <1>1, <1>2, <1>3 DEF Ended

LEMMA PartnersAgreeStep ==
  ASSUME TypeOK, PartnersAgree, [Next]_vars
  PROVE  PartnersAgree'
<1>1. CASE Closes
  <2>1. PICK ps \in SUBSET Players : Close(ps) /\ online \ ps \subseteq online'
    BY <1>1 DEF Closes
  <2> SUFFICES ASSUME NEW p \in Players
               PROVE  /\ tradeState'[p] = "NONE" <=> tradePartner'[p] = None
                      /\ tradePartner'[p] # None =>
                           /\ {p, tradePartner'[p]} \subseteq online'
                           /\ tradePartner'[p] # p
                           /\ tradePartner'[tradePartner'[p]] = p
    BY DEF PartnersAgree
  <2>2. CASE p \in Ended(ps)
    BY <2>1, <2>2 DEF Close
  <2>3. CASE p \notin Ended(ps)
    <3>1. tradeState'[p] = tradeState[p] /\ tradePartner'[p] = tradePartner[p]
      BY <2>1, <2>3 DEF Close
    <3>2. CASE tradePartner[p] = None
      BY <3>1, <3>2 DEF PartnersAgree
    <3>3. CASE tradePartner[p] # None
      <4>1. tradePartner[p] \in Players \ Ended(ps)
        BY <2>3, <3>3, EndedInPairs
      <4>2. tradePartner'[tradePartner[p]] = tradePartner[tradePartner[p]]
        BY <2>1, <4>1 DEF Close
      <4>3. {p, tradePartner[p]} \subseteq online'
        BY <2>1, <2>3, <3>3, <4>1 DEF PartnersAgree, Ended
      <4> QED BY <3>1, <3>3, <4>1, <4>2, <4>3 DEF PartnersAgree
    <3> QED BY <3>2, <3>3
  <2> QED BY <2>2, <2>3
<1>2. CASE Starts
  <2>1. PICK p \in Players, q \in Players, i \in Items :
          CanRequestTrade(p, q, i) /\ InternalStartTrade(p, q, i) /\ UNCHANGED pos
    BY <1>2 DEF Starts
  <2>2. {p, q} \subseteq online /\ p # q /\ online' = online
    BY <2>1 DEF CanRequestTrade, online
  <2>3. p # None /\ q # None
    BY TradeAssumption
  <2>4. /\ tradePartner'[p] = q /\ tradePartner'[q] = p
        /\ tradeState'[p] # "NONE" /\ tradeState'[q] # "NONE"
    BY <2>1, <2>2 DEF InternalStartTrade, TypeOK
  <2>5. ASSUME NEW r \in Players \ {p, q}
        PROVE  tradeState'[r] = tradeState[r] /\ tradePartner'[r] = tradePartner[r]
    BY <2>1, <2>5 DEF InternalStartTrade, TypeOK
  <2>6. ASSUME NEW r \in Players \ {p, q}, tradePartner[r] # None
        PROVE  tradePartner[r] \in Players \ {p, q}
    <3>1. tradePartner[r] \in Players /\ tradePartner[tradePartner[r]] = r
      BY <2>6 DEF PartnersAgree, TypeOK
    <3>2. tradePartner[p] \in {None, q} /\ tradePartner[q] \in {None, p}
      BY <2>1 DEF InternalStartTrade, PartnersAgree
    <3>3. r # None
      BY TradeAssumption
    <3>4. tradePartner[r] # p
      BY <2>6, <3>1, <3>2, <3>3
    <3>5. tradePartner[r] # q
      BY <2>6, <3>1, <3>2, <3>3
    <3> QED BY <3>1, <3>4, <3>5
  <2> QED BY <2>2, <2>3, <2>4, <2>5, <2>6 DEF PartnersAgree
<1>3. CASE Accepts
  BY <1>3 DEF Accepts, Accept, CanAccept, PartnersAgree, TypeOK, online
<1>4. CASE Keeps
  BY <1>4 DEF Keeps, tradeVars, PartnersAgree
<1> QED BY <1>1, <1>2, <1>3, <1>4, StepKinds

(* Two traders point at each other and are in the game, for any number of  *)
(* players who request, accept, close, walk and leave in any order.        *)
THEOREM PartnersAgreeHolds == Spec => []PartnersAgree
<1>1. Init => PartnersAgree
  BY DEF Init, PartnersAgree
<1> QED BY <1>1, TypeInvariant, PartnersAgreeStep, PTL DEF Spec
-----------------------------------------------------------------------------
(* The table and the players' own offers change together.                  *)
LEMMA OffersStep ==
  ASSUME TypeOK, OffersDistinct, TableMatchesOffers, [Next]_vars
  PROVE  OffersDistinct' /\ TableMatchesOffers'
<1>1. CASE Closes
  <2>1. PICK ps \in SUBSET Players : Close(ps)
    BY <1>1 DEF Closes
  <2>2. ASSUME NEW p \in Players
        PROVE  /\ p \in Ended(ps) => tradeItem'[p] = None /\ tradeState'[p] = "NONE"
               /\ p \notin Ended(ps) => tradeItem'[p] = tradeItem[p]
                                         /\ tradeState'[p] = tradeState[p]
    BY <2>1 DEF Close
  <2>3. OffersDistinct'
    BY <2>2 DEF OffersDistinct
  <2>4. \A p \in Players : tradeState'[p] \in {"NONE", "ACKNOWLEDGE"} => tradeItem'[p] = None
    BY <2>2 DEF TableMatchesOffers
  <2>5. ASSUME NEW p \in Players, tradeItem[p] # None
        PROVE  tradeItem[p] \in Released(ps) <=> p \in Ended(ps)
    <3>1. CASE p \in Ended(ps)
      BY <3>1 DEF Released
    <3>2. CASE p \notin Ended(ps)
      <4>1. Ended(ps) \subseteq Players
        BY DEF Ended, TypeOK
      <4>2. ASSUME NEW r \in Ended(ps) PROVE tradeItem[r] # tradeItem[p]
        BY <2>5, <3>2, <4>1, <4>2 DEF OffersDistinct
      <4> QED BY <3>2, <4>2 DEF Released
    <3> QED BY <3>1, <3>2
  <2>6. tradeItems' = {<<tradeItem'[p], p>> : p \in {q \in Players : tradeItem'[q] # None}}
    <3>1. ASSUME NEW r \in tradeItems'
          PROVE  \E p \in Players : tradeItem'[p] # None /\ r = <<tradeItem'[p], p>>
      <4>1. r \in tradeItems /\ r[1] \notin Released(ps)
        BY <2>1, <3>1 DEF Close
      <4>2. PICK p \in Players : tradeItem[p] # None /\ r = <<tradeItem[p], p>>
        BY <4>1 DEF TableMatchesOffers
      <4>3. p \notin Ended(ps)
        BY <2>5, <4>1, <4>2
      <4> QED BY <2>2, <4>2, <4>3
    <3>2. ASSUME NEW p \in Players, tradeItem'[p] # None
          PROVE  <<tradeItem'[p], p>> \in tradeItems'
      <4>1. p \notin Ended(ps) /\ tradeItem'[p] = tradeItem[p]
        BY <2>2, <3>2
      <4>2. <<tradeItem[p], p>> \in tradeItems /\ tradeItem[p] \notin Released(ps)
        BY <2>5, <3>2, <4>1 DEF TableMatchesOffers
      <4> QED BY <2>1, <4>1, <4>2 DEF Close
    <3> QED BY <3>1, <3>2
  <2> QED BY <2>3, <2>4, <2>6 DEF TableMatchesOffers
<1>2. CASE Starts
  <2>1. PICK p \in Players, q \in Players, i \in Items :
          CanRequestTrade(p, q, i) /\ InternalStartTrade(p, q, i)
    BY <1>2 DEF Starts
  <2>2. p # q /\ i # None
    BY <2>1, TradeAssumption DEF CanRequestTrade
  <2>3. \A r \in tradeItems : r[1] # i
    BY <2>1 DEF CanRequestTrade, AlreadyTraded
  <2>4. ASSUME NEW r \in Players PROVE tradeItem[r] # i
    <3>1. CASE tradeItem[r] = None BY <2>2, <3>1
    <3>2. CASE tradeItem[r] # None
      <4>1. <<tradeItem[r], r>> \in tradeItems BY <3>2 DEF TableMatchesOffers
      <4>2. <<tradeItem[r], r>>[1] # i BY <2>3, <4>1
      <4> QED BY <4>2
    <3> QED BY <3>1, <3>2
  <2>5. tradeItem[p] = None
    BY <2>1 DEF InternalStartTrade, TableMatchesOffers
  <2>6. tradeItem'[p] = i /\ \A r \in Players \ {p} : tradeItem'[r] = tradeItem[r]
    BY <2>1 DEF InternalStartTrade, TypeOK
  <2>7. OffersDistinct'
    BY <2>4, <2>6 DEF OffersDistinct
  <2>8. ASSUME NEW r \in Players, tradeState'[r] \in {"NONE", "ACKNOWLEDGE"}
        PROVE  tradeItem'[r] = None
    <3>1. r # p
      BY <2>1, <2>2, <2>8 DEF InternalStartTrade, TypeOK
    <3>2. tradeState[r] \in {"NONE", "ACKNOWLEDGE"}
      BY <2>1, <2>8, <3>1 DEF InternalStartTrade, TypeOK
    <3> QED BY <2>6, <3>1, <3>2 DEF TableMatchesOffers
  <2>9. tradeItems' = tradeItems \cup {<<i, p>>}
    BY <2>1, <2>3 DEF InternalStartTrade
  <2>10. tradeItems' = {<<tradeItem'[r], r>> : r \in {s \in Players : tradeItem'[s] # None}}
    <3>1. ASSUME NEW x \in tradeItems'
          PROVE  \E r \in Players : tradeItem'[r] # None /\ x = <<tradeItem'[r], r>>
      <4>1. CASE x = <<i, p>> BY <2>2, <2>6, <4>1
      <4>2. CASE x \in tradeItems
        <5>1. PICK r \in Players : tradeItem[r] # None /\ x = <<tradeItem[r], r>>
          BY <4>2 DEF TableMatchesOffers
        <5>2. r # p BY <2>5, <5>1
        <5> QED BY <2>6, <5>1, <5>2
      <4> QED BY <2>9, <4>1, <4>2
    <3>2. ASSUME NEW r \in Players, tradeItem'[r] # None
          PROVE  <<tradeItem'[r], r>> \in tradeItems'
      <4>1. CASE r = p BY <2>6, <2>9, <4>1
      <4>2. CASE r # p BY <2>6, <2>9, <3>2, <4>2 DEF TableMatchesOffers
      <4> QED BY <4>1, <4>2
    <3> QED BY <3>1, <3>2
  <2> QED BY <2>7, <2>8, <2>10 DEF TableMatchesOffers
<1>3. CASE Accepts
  BY <1>3 DEF Accepts, Accept, OffersDistinct, TableMatchesOffers, TypeOK
<1>4. CASE Keeps
  BY <1>4 DEF Keeps, tradeVars, OffersDistinct, TableMatchesOffers
<1> QED BY <1>1, <1>2, <1>3, <1>4, StepKinds

(* An invariant of all that ties the trades together: offers and table     *)
(* agree inductively only because no item is offered twice.                *)
THEOREM IInvHolds == Spec => []IInv
<1>1. Init => OffersDistinct /\ TableMatchesOffers
  BY DEF Init, OffersDistinct, TableMatchesOffers
<1>2. TypeOK /\ OffersDistinct /\ TableMatchesOffers /\ [Next]_vars
        => OffersDistinct' /\ TableMatchesOffers'
  BY OffersStep
<1>3. Spec => [](OffersDistinct /\ TableMatchesOffers)
  BY <1>1, <1>2, TypeInvariant, PTL DEF Spec
<1> QED BY <1>3, TypeInvariant, PartnersAgreeHolds, PTL DEF IInv

(* Game::tradeItems never keeps an entry of a trade that is over, nor      *)
(* misses one of a trade that goes on.                                     *)
THEOREM TableMatchesOffersHolds == Spec => []TableMatchesOffers
<1>1. IInv => TableMatchesOffers
  BY DEF IInv
<1> QED BY <1>1, IInvHolds, PTL
-----------------------------------------------------------------------------
(* The bags around an item.  Every proof about them gives a set of bags    *)
(* that goes on from each bag to the one around it.                        *)
LEMMA HoldersLeast ==
  ASSUME NEW w, NEW i, NEW bs \in SUBSET Bags,
         Closed(w, bs), w[i] \in Bags => w[i] \in bs
  PROVE  Holders(w, i) \subseteq bs
BY DEF Holders

LEMMA HoldersClosed ==
  ASSUME NEW w, NEW i
  PROVE  /\ Holders(w, i) \subseteq Bags
         /\ Closed(w, Holders(w, i))
         /\ w[i] \in Bags => w[i] \in Holders(w, i)
BY DEF Holders, Closed

LEMMA HoldersThen ==
  ASSUME NEW w, NEW i
  PROVE  /\ w[i] \in Bags => Holders(w, i) = Within(w, w[i])
         /\ w[i] \notin Bags => Holders(w, i) = {}
<1>1. ASSUME w[i] \in Bags
      PROVE  Holders(w, i) \subseteq Within(w, w[i])
  <2> DEFINE bs == Within(w, w[i])
  <2>1. bs \in SUBSET Bags /\ w[i] \in bs
    BY <1>1, HoldersClosed DEF Within
  <2>2. Closed(w, bs)
    BY HoldersClosed DEF Within, Closed
  <2> QED BY <2>1, <2>2, HoldersLeast
<1>2. ASSUME w[i] \in Bags
      PROVE  Within(w, w[i]) \subseteq Holders(w, i)
  <2> DEFINE bs == Holders(w, i)
  <2>1. bs \in SUBSET Bags /\ w[i] \in bs /\ Closed(w, bs)
    BY <1>2, HoldersClosed
  <2>2. w[w[i]] \in Bags => w[w[i]] \in bs
    BY <2>1 DEF Closed
  <2>3. Holders(w, w[i]) \subseteq bs
    BY <2>1, <2>2, HoldersLeast
  <2> QED BY <2>1, <2>3 DEF Within
<1>3. ASSUME w[i] \notin Bags
      PROVE  Holders(w, i) = {}
  <2>1. Closed(w, {})
    BY DEF Closed
  <2>2. Holders(w, i) \subseteq {}
    BY <1>3, <2>1, HoldersLeast
  <2> QED BY <2>2
<1> QED BY <1>1, <1>2, <1>3

LEMMA HoldersOfHolders ==
  ASSUME NEW w, NEW i, NEW j \in Holders(w, i)
  PROVE  j \in Bags /\ Within(w, j) \subseteq Holders(w, i)
<1>1. Holders(w, i) \in SUBSET Bags /\ Closed(w, Holders(w, i))
  BY HoldersClosed
<1>2. w[j] \in Bags => w[j] \in Holders(w, i)
  BY <1>1 DEF Closed
<1>3. Holders(w, j) \subseteq Holders(w, i)
  BY <1>1, <1>2, HoldersLeast
<1> QED BY <1>1, <1>3 DEF Within

(* Of two bags around the same item one is around the other.               *)
LEMMA HoldersInLine ==
  ASSUME NEW w, NEW i, NEW a \in Within(w, i), NEW b \in Within(w, i)
  PROVE  a \in Within(w, b) \/ b \in Within(w, a)
<1> DEFINE bs == {c \in Bags : a \in Within(w, c) \/ c \in Within(w, a)}
           Next1(c) == w[c] \in Bags => w[c] \in bs
<1>1. ASSUME NEW c, a \in Within(w, c) \/ c \in Within(w, a)
      PROVE  Next1(c)
  <2> SUFFICES ASSUME w[c] \in Bags
               PROVE  a \in Within(w, w[c]) \/ w[c] \in Within(w, a)
    OBVIOUS
  <2>1. CASE c \in Within(w, a)
    <3>1. w[c] \in Holders(w, c) /\ Holders(w, c) \subseteq Within(w, a)
      BY <2>1, HoldersClosed, HoldersOfHolders DEF Within
    <3> QED BY <3>1
  <2>2. CASE a \in Holders(w, c)
    BY <2>2, HoldersThen
  <2> QED BY <1>1, <2>1, <2>2 DEF Within
<1>2. Closed(w, bs)
  BY <1>1 DEF Closed
<1>3. Next1(i)
  BY <1>1
<1>4. Holders(w, i) \subseteq bs
  BY <1>2, <1>3, HoldersLeast
<1> QED BY <1>4 DEF Within

(* Whatever holds an item is where the item is.                            *)
LEMMA CarrierOfHolders ==
  ASSUME NEW w, NEW i, NEW j \in Within(w, i)
  PROVE  Carrier(w, j) = Carrier(w, i)
<1> DEFINE Tops(k) == {c \in {w[x] : x \in Within(w, k)} : c \notin Bags}
           bs == {c \in Bags : Tops(c) = Tops(i)}
<1>1. ASSUME NEW c, w[c] \in Bags
      PROVE  Tops(w[c]) = Tops(c)
  <2>1. Within(w, c) = {c} \cup Within(w, w[c])
    BY <1>1, HoldersThen DEF Within
  <2> QED BY <1>1, <2>1
<1>2. Closed(w, bs)
  BY <1>1 DEF Closed
<1>3. w[i] \in Bags => w[i] \in bs
  BY <1>1
<1>4. Holders(w, i) \subseteq bs
  BY <1>2, <1>3, HoldersLeast
<1>5. Tops(j) = Tops(i)
  BY <1>4 DEF Within
<1>6. \A k : Carrier(w, k) = CHOOSE c : c \in Tops(k)
  BY DEF Carrier
<1> QED BY <1>5, <1>6

LEMMA CarrierThen ==
  ASSUME NEW w, NEW i
  PROVE  /\ w[i] \in Bags => Carrier(w, i) = Carrier(w, w[i])
         /\ w[i] \notin Bags => Carrier(w, i) = w[i]
<1>1. w[i] \in Bags => w[i] \in Within(w, i)
  BY HoldersClosed DEF Within
<1>2. ASSUME w[i] \notin Bags
      PROVE  Carrier(w, i) = w[i]
  <2>1. {w[x] : x \in Within(w, i)} = {w[i]}
    BY <1>2, HoldersThen DEF Within
  <2> QED BY <1>2, <2>1 DEF Carrier
<1> QED BY <1>1, <1>2, CarrierOfHolders

(* When one item moves, what another is in stays as it is up to that item. *)
OnlyMoves(w, v, k) == \A j \in Items \ {k} : v[j] = w[j]

LEMMA HoldersAfterMove ==
  ASSUME NEW w, NEW v, NEW k, OnlyMoves(w, v, k), NEW i \in Items
  PROVE  /\ Holders(w, i) \subseteq Holders(v, i) \cup Holders(w, k)
         /\ k \notin Within(w, i) => Within(v, i) = Within(w, i) /\ Carrier(v, i) = Carrier(w, i)
<1>0. Bags \subseteq Items /\ \A j \in Items \ {k} : v[j] = w[j]
  BY TradeAssumption DEF OnlyMoves
<1>1. Holders(w, i) \subseteq Holders(v, i) \cup Holders(w, k)
  <2> DEFINE bs == Holders(v, i) \cup Holders(w, k)
  <2>1. bs \in SUBSET Bags
    BY HoldersClosed
  <2>2. Closed(w, bs)
    <3> SUFFICES ASSUME NEW b \in bs, w[b] \in Bags
                 PROVE  w[b] \in bs
      BY DEF Closed
    <3>1. CASE b \in Holders(w, k)
      BY <3>1, HoldersClosed DEF Closed
    <3>2. CASE b = k
      BY <3>2, HoldersClosed
    <3>3. CASE b \in Holders(v, i) /\ b # k
      <4>1. w[b] = v[b]
        BY <1>0, <2>1, <3>3
      <4> QED BY <3>3, <4>1, HoldersClosed DEF Closed
    <3> QED BY <3>1, <3>2, <3>3
  <2>3. w[i] \in Bags => w[i] \in bs
    <3>1. CASE i = k
      BY <3>1, HoldersClosed
    <3>2. CASE i # k
      BY <1>0, <3>2, HoldersClosed
    <3> QED BY <3>1, <3>2
  <2> QED BY <2>1, <2>2, <2>3, HoldersLeast
<1>2. ASSUME k \notin Within(w, i)
      PROVE  Within(v, i) = Within(w, i) /\ Carrier(v, i) = Carrier(w, i)
  <2>1. i # k /\ k \notin Holders(w, i) /\ Holders(w, i) \in SUBSET Bags
    BY <1>2, HoldersClosed DEF Within
  <2>2. \A b \in Within(w, i) : v[b] = w[b]
    BY <1>0, <2>1 DEF Within
  <2>3. Holders(v, i) \subseteq Holders(w, i)
    <3>1. Closed(v, Holders(w, i))
      BY <2>2, HoldersClosed DEF Closed, Within
    <3>2. v[i] \in Bags => v[i] \in Holders(w, i)
      BY <1>0, <2>1, HoldersClosed
    <3> QED BY <2>1, <3>1, <3>2, HoldersLeast
  <2>4. Holders(w, i) \subseteq Holders(v, i)
    <3> DEFINE bs == Holders(v, i)
    <3>1. bs \in SUBSET Bags /\ bs \subseteq Holders(w, i)
      BY <2>3, HoldersClosed
    <3>2. Closed(w, bs)
      BY <2>2, <3>1, HoldersClosed DEF Closed, Within
    <3>3. w[i] \in Bags => w[i] \in bs
      BY <1>0, <2>1, HoldersClosed
    <3> QED BY <3>1, <3>2, <3>3, HoldersLeast
  <2>5. Within(v, i) = Within(w, i)
    BY <2>3, <2>4 DEF Within
  <2>6. {v[j] : j \in Within(v, i)} = {w[j] : j \in Within(w, i)}
    BY <2>2, <2>5
  <2> QED BY <2>5, <2>6 DEF Carrier
<1> QED BY <1>1, <1>2
-----------------------------------------------------------------------------
(* No bag is in itself.                                                    *)
Acyclic(w) == \A b \in Bags : b \notin Holders(w, b)

(* Reach, wherever the items are.                                          *)
ReachIn(w, p, i) ==
  \/ Carrier(w, i) = p
  \/ Carrier(w, i) \in Positions /\ InRange(1, Carrier(w, i), pos[p])

LEMMA ReachIsReachIn ==
  ASSUME NEW p \in Players, NEW i
  PROVE  Reach(p, i) <=> ReachIn(where, p, i)
BY TradeAssumption DEF Reach, ReachIn, PositionOf

LEMMA NotInItself ==
  ASSUME NEW w, Acyclic(w), NEW i \in Items
  PROVE  i \notin Holders(w, i)
BY HoldersClosed DEF Acyclic

LEMMA AcyclicAfterMove ==
  ASSUME NEW w, Acyclic(w), NEW v, NEW k \in Items, OnlyMoves(w, v, k),
         v[k] \in Bags => k \notin Within(w, v[k])
  PROVE  Acyclic(v)
<1> SUFFICES ASSUME NEW b \in Bags, b \in Holders(v, b)
             PROVE  FALSE
  BY DEF Acyclic
<1>0. Bags \subseteq Items /\ OnlyMoves(v, w, k)
  BY TradeAssumption DEF OnlyMoves
<1>1. CASE k \notin Within(v, b)
  <2>1. Within(w, b) = Within(v, b)
    BY <1>0, <1>1, HoldersAfterMove
  <2>2. k \notin Within(w, b)
    BY <1>1, <2>1
  <2>3. Holders(v, b) \subseteq Holders(w, b) \cup Holders(v, k)
    BY <1>0, HoldersAfterMove
  <2>4. Holders(w, b) \subseteq Holders(v, b) \cup Holders(w, k)
    BY <1>0, HoldersAfterMove
  <2>5. b \notin Holders(w, b)
    BY DEF Acyclic
  <2>6. v[b] \in Bags /\ b \in Within(v, v[b]) /\ b # k
    BY <1>1, HoldersThen DEF Within
  <2>7. w[b] = v[b]
    BY <1>0, <2>6 DEF OnlyMoves
  <2>8. v[b] \in Holders(v, b)
    BY <2>6, HoldersClosed
  <2>9. k \notin Within(v, v[b])
    BY <1>1, <2>8, HoldersOfHolders DEF Within
  <2>10. Within(w, v[b]) = Within(v, v[b])
    BY <1>0, <2>6, <2>9, HoldersAfterMove
  <2>11. b \in Holders(w, b)
    BY <2>6, <2>7, <2>10, HoldersThen
  <2> QED BY <2>5, <2>11
<1>2. CASE k \in Within(v, b)
  <2> DEFINE bs == {c \in Bags : b \in Within(v, c)}
  <2>1. ASSUME NEW c, b \in Within(v, c), v[c] \in Bags
        PROVE  v[c] \in bs
    <3>1. Holders(v, c) = Within(v, v[c])
      BY <2>1, HoldersThen
    <3>2. b \in Holders(v, c)
      BY <2>1 DEF Within
    <3> QED BY <2>1, <3>1, <3>2
  <2>2. Closed(v, bs)
    BY <2>1 DEF Closed
  <2>3. v[b] \in Bags => v[b] \in bs
    BY <2>1 DEF Within
  <2>4. Holders(v, b) \subseteq bs
    BY <2>2, <2>3, HoldersLeast
  <2>5. b \in Within(v, k)
    BY <1>2, <2>4 DEF Within
  <2>6. k \in Holders(v, k)
    <3>1. CASE k = b
      BY <3>1
    <3>2. CASE k # b
      BY <1>2, <2>5, <3>2, HoldersOfHolders DEF Within
    <3> QED BY <3>1, <3>2
  <2>7. v[k] \in Bags /\ k \in Within(v, v[k])
    BY <2>6, HoldersThen
  <2>8. Within(v, v[k]) = Within(w, v[k])
    <3> DEFINE to == v[k]
    <3>1. to \in Items /\ k \notin Within(w, to)
      BY <1>0, <2>7
    <3> HIDE DEF to
    <3>2. Within(v, to) = Within(w, to)
      BY <3>1, HoldersAfterMove
    <3> QED BY <3>2 DEF to
  <2> QED BY <2>7, <2>8
<1> QED BY <1>1, <1>2

(* Whoever has an item in reach learns of what happens to it, to what is   *)
(* in it and to what it is in.                                             *)
LEMMA NoticesItsOffer ==
  ASSUME TypeOK, NEW w, NEW p \in online, NEW x, ReachIn(w, p, x),
         NEW j, Carrier(w, j) = Carrier(w, x)
  PROVE  /\ p \in Watchers(w, j)
         /\ w[j] \in Bags => p \in Around(w, w[j])
<1>0. p \in Players /\ pos[p] \in Positions /\ Positions \subseteq Int
  BY TradeAssumption DEF online, TypeOK
<1>1. CASE w[j] \in Bags
  <2> DEFINE c == Carrier(w, w[j])
  <2>1. c = Carrier(w, x)
    BY <1>1, CarrierThen
  <2>2. c = p \/ (c \in Positions /\ InRange(1, c, pos[p]))
    BY <2>1 DEF ReachIn
  <2>3. InRange(2, pos[p], PositionOf(w, w[j]))
    <3>1. CASE c = p
      <4>1. PositionOf(w, w[j]) = pos[p]
        BY <1>0, <3>1 DEF PositionOf
      <4>2. pos[p] \in Int
        BY <1>0
      <4>3. pos[p] - pos[p] \in -2 .. 2
        BY <4>2
      <4> QED BY <1>0, <4>1, <4>3 DEF InRange
    <3>2. CASE c \in Positions /\ InRange(1, c, pos[p])
      <4>1. PositionOf(w, w[j]) = c
        BY <3>2, TradeAssumption DEF PositionOf
      <4>2. c \in Int /\ pos[p] \in Int /\ c - pos[p] \in -1 .. 1
        BY <1>0, <3>2 DEF InRange
      <4>3. pos[p] - c \in -2 .. 2
        BY <4>2
      <4> QED BY <1>0, <3>2, <4>1, <4>3 DEF InRange
    <3> QED BY <2>2, <3>1, <3>2
  <2> QED BY <1>1, <2>3 DEF Watchers, Around
<1>2. CASE w[j] \notin Bags
  <2>1. w[j] = Carrier(w, x)
    BY <1>2, CarrierThen
  <2> QED BY <1>2, <2>1 DEF ReachIn, Watchers
<1> QED BY <1>1, <1>2

(* An offer that a move does not end is neither moved nor reached by it.   *)
LEMMA OfferAfterMove ==
  ASSUME TypeOK, NEW w, Acyclic(w), NEW v, NEW k \in Items, OnlyMoves(w, v, k),
         NEW p \in online, tradeItem[p] \in Items, ReachIn(w, p, tradeItem[p]),
         p \notin EndedByRemoval(w, k)
  PROVE  /\ k \notin Within(w, tradeItem[p])
         /\ tradeItem[p] \notin Within(w, k)
         /\ Within(v, tradeItem[p]) = Within(w, tradeItem[p])
         /\ ReachIn(v, p, tradeItem[p])
<1> DEFINE x == tradeItem[p]
<1>1. x \notin Within(w, k)
  <2> SUFFICES ASSUME x \in Within(w, k) PROVE FALSE
    OBVIOUS
  <2>1. Carrier(w, k) = Carrier(w, x)
    BY CarrierOfHolders
  <2>2. p \in Watchers(w, k)
    BY <2>1, NoticesItsOffer
  <2> QED BY <2>2 DEF EndedByRemoval, CheckTradeState
<1>2. k \notin Within(w, x)
  <2> SUFFICES ASSUME k \in Within(w, x) PROVE FALSE
    OBVIOUS
  <2>1. k \in Holders(w, x)
    BY <1>1 DEF Within
  <2>2. Carrier(w, k) = Carrier(w, x)
    BY CarrierOfHolders
  <2>3. p \in Watchers(w, k)
    BY <2>2, NoticesItsOffer
  <2>4. x # None
    BY TradeAssumption
  <2>5. CASE w[k] \notin Bags
    BY <2>1, <2>3, <2>4, <2>5 DEF EndedByRemoval, Carries
  <2>6. CASE w[k] \in Bags
    <3>1. w[k] \in Holders(w, x)
      BY <2>1, <2>6, HoldersClosed DEF Closed
    <3>2. w[x] # w[k]
      <4> SUFFICES ASSUME w[x] = w[k] PROVE FALSE
        OBVIOUS
      <4>1. Holders(w, x) = Within(w, w[k]) /\ Holders(w, k) = Within(w, w[k])
        BY <2>6, HoldersThen
      <4> QED BY <2>1, <4>1, NotInItself
    <3> QED BY <2>3, <2>4, <2>6, <3>1, <3>2 DEF EndedByRemoval, Carries
  <2> QED BY <2>5, <2>6
<1>3. Within(v, x) = Within(w, x) /\ Carrier(v, x) = Carrier(w, x)
  <2>1. x \in Items
    OBVIOUS
  <2> HIDE DEF x
  <2> QED BY <1>2, <2>1, HoldersAfterMove
<1> QED BY <1>1, <1>2, <1>3 DEF ReachIn

(* ... nor is anything in it, if nothing was put there either.             *)
LEMMA ContentsAfterMove ==
  ASSUME TypeOK, NEW w, Acyclic(w), NEW v, NEW k \in Items, OnlyMoves(w, v, k),
         NEW p \in online, tradeItem[p] \in Items, ReachIn(w, p, tradeItem[p]),
         p \notin EndedByRemoval(w, k), p \notin EndedByAddition(v, k)
  PROVE  /\ Contents(v, tradeItem[p]) = Contents(w, tradeItem[p])
         /\ \A j \in {tradeItem[p]} \cup Contents(w, tradeItem[p]) : v[j] = w[j]
<1> DEFINE x == tradeItem[p]
<1>1. /\ k \notin Within(w, x) /\ x \notin Within(w, k)
      /\ Within(v, x) = Within(w, x) /\ ReachIn(v, p, x)
  BY OfferAfterMove
<1>2. OnlyMoves(v, w, k) /\ x \in Items
  BY DEF OnlyMoves
<1>3. x \notin Holders(v, k)
  <2> SUFFICES ASSUME x \in Holders(v, k) PROVE FALSE
    OBVIOUS
  <2>1. v[k] \in Bags
    BY HoldersThen
  <2>2. x \in Within(v, k)
    BY DEF Within
  <2>3. Carrier(v, k) = Carrier(v, x)
    BY <2>2, CarrierOfHolders
  <2>4. p \in Around(v, v[k])
    BY <1>1, <2>1, <2>3, NoticesItsOffer
  <2> QED BY <2>1, <2>2, <2>4 DEF EndedByAddition, CheckTradeState
<1> HIDE DEF x
<1>4. ASSUME NEW j \in Items
      PROVE  x \in Holders(v, j) <=> x \in Holders(w, j)
  <2>1. /\ Holders(w, j) \subseteq Holders(v, j) \cup Holders(w, k)
        /\ Holders(v, j) \subseteq Holders(w, j) \cup Holders(v, k)
    BY <1>2, HoldersAfterMove
  <2> QED BY <1>1, <1>3, <2>1 DEF Within
<1>5. Contents(v, x) = Contents(w, x)
  BY <1>4 DEF Contents
<1>6. \A j \in {x} \cup Contents(w, x) : j \in Items \ {k}
  BY <1>1, <1>2 DEF Contents, Within
<1>7. \A j \in {x} \cup Contents(w, x) : v[j] = w[j]
  BY <1>6 DEF OnlyMoves
<1> QED BY <1>5, <1>7 DEF x
-----------------------------------------------------------------------------
(* What the standing of the offers rests on.                               *)
OfferInv == Acyclic(where) /\ OffersDisjoint /\ OfferInReach

LEMMA WhoOffersIsThere ==
  ASSUME TypeOK, PartnersAgree, TableMatchesOffers, NEW p \in Players, tradeItem[p] # None
  PROVE  /\ p \in online /\ tradeItem[p] \in Items
         /\ tradePartner[p] \in online /\ tradePartner[p] # p
         /\ tradePartner[tradePartner[p]] = p
<1>1. tradeState[p] # "NONE"
  BY DEF TableMatchesOffers
<1>2. tradePartner[p] # None
  BY <1>1 DEF PartnersAgree
<1> QED BY <1>2 DEF PartnersAgree, TypeOK

(* The offers of those that a step leaves alone.                           *)
LeftAlone(r) ==
  /\ tradeItem'[r] \in {None, tradeItem[r]}
  /\ tradePartner'[r] \in {None, tradePartner[r]}
  /\ tradeItem'[r] # None =>
       /\ Within(where', tradeItem[r]) = Within(where, tradeItem[r])
       /\ Carrier(where', tradeItem[r]) = Carrier(where, tradeItem[r])

LEMMA OffersLeftAlone ==
  ASSUME TypeOK, OffersDisjoint, OfferInReach, UNCHANGED pos,
         \A r \in Players : LeftAlone(r)
  PROVE  OffersDisjoint' /\ OfferInReach'
<1>1. ASSUME NEW p \in Players, NEW q \in Players, p # q, tradeItem'[p] # None
      PROVE  tradeItem'[q] \notin Within(where', tradeItem'[p])
  <2>1. /\ tradeItem'[p] = tradeItem[p] /\ tradeItem[p] \in Items
        /\ Within(where', tradeItem[p]) = Within(where, tradeItem[p])
    BY <1>1 DEF LeftAlone, TypeOK
  <2>2. tradeItem[q] \notin Within(where, tradeItem[p])
    BY <1>1, <2>1 DEF OffersDisjoint
  <2>3. None \notin Within(where, tradeItem[p])
    BY <2>1, HoldersClosed, TradeAssumption DEF Within
  <2>4. tradeItem'[q] \in {None, tradeItem[q]}
    BY DEF LeftAlone
  <2> QED BY <2>1, <2>2, <2>3, <2>4
<1>2. ASSUME NEW p \in Players, tradeItem'[p] # None
      PROVE  ReachIn(where, p, tradeItem[p])' /\ tradeItem'[p] = tradeItem[p]
  <2>1. /\ tradeItem'[p] = tradeItem[p]
        /\ Carrier(where', tradeItem[p]) = Carrier(where, tradeItem[p])
    BY <1>2 DEF LeftAlone
  <2>2. Reach(p, tradeItem[p])
    BY <1>2, <2>1 DEF OfferInReach
  <2>3. ReachIn(where, p, tradeItem[p])
    BY <2>2, ReachIsReachIn
  <2> QED BY <2>1, <2>3 DEF ReachIn
<1>3. ASSUME NEW p \in Players, tradeItem'[p] # None
      PROVE  Reach(p, tradeItem[p])'
  <2>1. ReachIn(where, p, tradeItem[p])'
    BY <1>2, <1>3
  <2> QED BY <2>1, TradeAssumption DEF Reach, ReachIn, PositionOf
<1>4. ASSUME NEW p \in Players, tradePartner'[p] # None
      PROVE  InRange(2, pos'[p], pos'[tradePartner'[p]])
  <2>1. tradePartner'[p] = tradePartner[p] /\ tradePartner[p] # None
    BY <1>4 DEF LeftAlone
  <2> QED BY <2>1 DEF OfferInReach
<1> QED BY <1>1, <1>3, <1>4 DEF OffersDisjoint, OfferInReach

LEMMA CloseLeaves ==
  ASSUME TypeOK, NEW ps, Close(ps), NEW r \in Players
  PROVE  /\ tradeItem'[r] = IF r \in Ended(ps) THEN None ELSE tradeItem[r]
         /\ tradePartner'[r] = IF r \in Ended(ps) THEN None ELSE tradePartner[r]
BY DEF Close

(* An item is moved, and whoever notices has its trade ended.              *)
LEMMA MoveKeepsOffers ==
  ASSUME TypeOK, PartnersAgree, TableMatchesOffers, OfferInv,
         NEW k \in Items, NEW to, where' = [where EXCEPT ![k] = to],
         to \in Bags => k \notin Within(where, to),
         NEW ps, Close(ps), EndedByRemoval(where, k) \subseteq ps, UNCHANGED pos
  PROVE  OfferInv'
<1>1. OnlyMoves(where, where', k) /\ where'[k] = to
  BY DEF OnlyMoves, TypeOK
<1>2. Acyclic(where')
  <2> DEFINE w == where'
  <2>1. OnlyMoves(where, w, k) /\ (w[k] \in Bags => k \notin Within(where, w[k]))
    BY <1>1
  <2>2. Acyclic(where)
    BY DEF OfferInv
  <2> HIDE DEF w
  <2>3. Acyclic(w)
    BY <2>1, <2>2, AcyclicAfterMove
  <2> QED BY <2>3 DEF w
<1>3. ASSUME NEW r \in Players
      PROVE  LeftAlone(r)
  <2>1. /\ tradeItem'[r] = IF r \in Ended(ps) THEN None ELSE tradeItem[r]
        /\ tradePartner'[r] = IF r \in Ended(ps) THEN None ELSE tradePartner[r]
    BY CloseLeaves
  <2>2. ASSUME tradeItem'[r] # None
        PROVE  /\ Within(where', tradeItem[r]) = Within(where, tradeItem[r])
               /\ Carrier(where', tradeItem[r]) = Carrier(where, tradeItem[r])
    <3> DEFINE x == tradeItem[r]
               w == where'
    <3>1. x # None /\ r \notin ps
      BY <2>1, <2>2 DEF Ended
    <3>2. r \in online /\ x \in Items
      BY <3>1, WhoOffersIsThere
    <3>3. ReachIn(where, r, x)
      BY <3>1, ReachIsReachIn DEF OfferInv, OfferInReach
    <3>4. Acyclic(where) /\ r \notin EndedByRemoval(where, k) /\ OnlyMoves(where, w, k)
      BY <1>1, <3>1 DEF OfferInv
    <3> HIDE DEF w
    <3>5. k \notin Within(where, x)
      BY <3>2, <3>3, <3>4, OfferAfterMove
    <3> HIDE DEF x
    <3>6. Within(w, x) = Within(where, x) /\ Carrier(w, x) = Carrier(where, x)
      BY <3>2, <3>4, <3>5, HoldersAfterMove
    <3> QED BY <3>6 DEF w, x
  <2> QED BY <2>1, <2>2 DEF LeftAlone
<1>4. OffersDisjoint' /\ OfferInReach'
  BY <1>3, OffersLeftAlone DEF OfferInv
<1> QED BY <1>2, <1>4 DEF OfferInv, Acyclic
-----------------------------------------------------------------------------
(* The exchange, as two moves.  Neither offer is in the other, nor in the  *)
(* bag the other goes to.                                                  *)
Notices(w, v, k) == EndedByRemoval(w, k) \cup EndedByAddition(v, k)

Exchange(p, q, half, ps) ==
  LET mine == tradeItem[p]
      theirs == tradeItem[q]
  IN
  /\ q = tradePartner[p]
  /\ Close(ps) /\ p \in ps
  /\ Notices(where, half, mine) \cup Notices(half, where', theirs) \subseteq ps \cup {q}
  /\ OnlyMoves(where, half, mine) /\ half[mine] \in Destinations(where, q, mine)
  /\ OnlyMoves(half, where', theirs) /\ where'[theirs] \in Destinations(half, p, theirs)

LEMMA TransferIsExchange ==
  ASSUME TypeOK, PartnersAgree, TableMatchesOffers, NEW p \in Players, Transfer(p)
  PROVE  /\ {p, tradePartner[p]} \subseteq online /\ p # tradePartner[p]
         /\ tradeItem[p] \in Items /\ tradeItem[tradePartner[p]] \in Items
         /\ tradePartner[tradePartner[p]] = p
         /\ UNCHANGED pos
         /\ \E half, ps : Exchange(p, tradePartner[p], half, ps)
<1> DEFINE q == tradePartner[p]
           mine == tradeItem[p]
           theirs == tradeItem[q]
<1>1. mine # None /\ theirs # None /\ UNCHANGED pos
  BY DEF Transfer
<1>2. p \in online /\ mine \in Items /\ q \in online /\ q # p /\ tradePartner[q] = p
  BY <1>1, WhoOffersIsThere
<1>3. theirs \in Items /\ q \in Players
  BY <1>1, <1>2 DEF TypeOK, online
<1>4. PICK there \in Destinations(where, q, mine) :
        LET half == [where EXCEPT ![mine] = there] IN
        \E here \in Destinations(half, p, theirs) :
          LET both == [half EXCEPT ![theirs] = here] IN
          /\ where' = both
          /\ Close({p} \cup ((EndedByRemoval(where, mine) \cup EndedByAddition(half, mine)
                  \cup EndedByRemoval(half, theirs) \cup EndedByAddition(both, theirs)) \ {q}))
  BY DEF Transfer
<1> DEFINE half == [where EXCEPT ![mine] = there]
<1>5. PICK here \in Destinations(half, p, theirs) :
          /\ where' = [half EXCEPT ![theirs] = here]
          /\ Close({p} \cup ((EndedByRemoval(where, mine) \cup EndedByAddition(half, mine)
                  \cup EndedByRemoval(half, theirs) \cup EndedByAddition(where', theirs)) \ {q}))
  BY <1>4
<1> DEFINE ps == {p} \cup ((EndedByRemoval(where, mine) \cup EndedByAddition(half, mine)
                  \cup EndedByRemoval(half, theirs) \cup EndedByAddition(where', theirs)) \ {q})
<1>6. Close(ps) /\ p \in ps
  BY <1>5
<1>7. Notices(where, half, mine) \cup Notices(half, where', theirs) \subseteq ps \cup {q}
  BY DEF Notices
<1>8. OnlyMoves(where, half, mine) /\ half[mine] = there /\ half \in [Items -> {where[j] : j \in Items} \cup {there}]
  BY <1>2 DEF OnlyMoves, TypeOK
<1>9. OnlyMoves(half, where', theirs) /\ where'[theirs] = here
  BY <1>3, <1>5, <1>8 DEF OnlyMoves
<1> HIDE DEF half, ps
<1>10. Exchange(p, q, half, ps)
  BY <1>4, <1>5, <1>6, <1>7, <1>8, <1>9 DEF Exchange
<1> QED BY <1>1, <1>2, <1>3, <1>10

(* What the two moves do to what is around them.                           *)
LEMMA ExchangeThen ==
  ASSUME TypeOK, OfferInv, NEW p \in Players, NEW q \in Players, p # q,
         tradeItem[p] \in Items, tradeItem[q] \in Items,
         NEW half, NEW ps, Exchange(p, q, half, ps)
  PROVE  /\ Acyclic(half) /\ Acyclic(where')
         /\ tradeItem[p] \notin Within(where, tradeItem[q])
         /\ tradeItem[q] \notin Within(where, tradeItem[p])
         /\ Within(half, tradeItem[q]) = Within(where, tradeItem[q])
         /\ tradeItem[q] \notin Within(half, tradeItem[p])
         /\ Carrier(half, tradeItem[q]) = Carrier(where, tradeItem[q])
         /\ Carrier(half, tradeItem[p]) = q
         /\ Carrier(where', tradeItem[q]) = p
         /\ Carrier(where', tradeItem[p]) = q
<1> DEFINE mine == tradeItem[p]
           theirs == tradeItem[q]
           there == half[mine]
           w == where'
           here == w[theirs]
<1>1. /\ OnlyMoves(where, half, mine) /\ there \in Destinations(where, q, mine)
      /\ OnlyMoves(half, w, theirs) /\ here \in Destinations(half, p, theirs)
  BY DEF Exchange
<1>2. mine \in Items /\ theirs \in Items /\ mine # None /\ theirs # None
  BY TradeAssumption
<1>3. mine \notin Within(where, theirs) /\ theirs \notin Within(where, mine)
  BY <1>2 DEF OfferInv, OffersDisjoint
<1>5. Bags \subseteq Items /\ p \notin Bags /\ q \notin Bags
  BY TradeAssumption
<1>4. /\ there \in Bags => {mine, theirs} \cap Within(where, there) = {} /\ Carrier(where, there) = q
      /\ there \notin Bags => there = q
      /\ here \in Bags => theirs \notin Within(half, here) /\ Carrier(half, here) = p
      /\ here \notin Bags => here = p
  BY <1>1, <1>5 DEF Destinations
<1> HIDE DEF mine, theirs, w, here, there
<1>6. Acyclic(half)
  <2>1. Acyclic(where) /\ (half[mine] \in Bags => mine \notin Within(where, half[mine]))
    BY <1>4 DEF OfferInv, there
  <2> QED BY <1>1, <1>2, <2>1, AcyclicAfterMove
<1>7. Acyclic(w)
  <2>1. w[theirs] \in Bags => theirs \notin Within(half, w[theirs])
    BY <1>4 DEF here
  <2> QED BY <1>1, <1>2, <1>6, <2>1, AcyclicAfterMove
<1>8. Within(half, theirs) = Within(where, theirs) /\ Carrier(half, theirs) = Carrier(where, theirs)
  BY <1>1, <1>2, <1>3, HoldersAfterMove
<1>9. Carrier(half, mine) = q
  <2>1. CASE there \in Bags
    <3>1. Carrier(half, mine) = Carrier(half, there)
      BY <2>1, CarrierThen DEF there
    <3>2. there \in Items /\ mine \notin Within(where, there)
      BY <1>4, <1>5, <2>1
    <3>3. Carrier(half, there) = Carrier(where, there)
      BY <1>1, <3>2, HoldersAfterMove
    <3> QED BY <1>4, <2>1, <3>1, <3>3
  <2>2. CASE there \notin Bags
    BY <1>4, <2>2, CarrierThen DEF there
  <2> QED BY <2>1, <2>2
<1>10. Carrier(w, theirs) = p
  <2>1. CASE here \in Bags
    <3>1. Carrier(w, theirs) = Carrier(w, here)
      BY <2>1, CarrierThen DEF here
    <3>2. here \in Items /\ theirs \notin Within(half, here)
      BY <1>4, <1>5, <2>1
    <3>3. Carrier(w, here) = Carrier(half, here)
      BY <1>1, <3>2, HoldersAfterMove
    <3> QED BY <1>4, <2>1, <3>1, <3>3
  <2>2. CASE here \notin Bags
    BY <1>4, <2>2, CarrierThen DEF here
  <2> QED BY <2>1, <2>2
<1>11. theirs \notin Within(half, mine)
  <2>1. theirs # mine
    BY <1>3 DEF Within
  <2>2. CASE there \in Bags
    <3>1. Holders(half, mine) = Within(half, there)
      BY <2>2, HoldersThen DEF there
    <3>2. there \in Items /\ mine \notin Within(where, there) /\ theirs \notin Within(where, there)
      BY <1>4, <1>5, <2>2
    <3>3. Within(half, there) = Within(where, there)
      BY <1>1, <3>2, HoldersAfterMove
    <3> QED BY <2>1, <3>1, <3>2, <3>3 DEF Within
  <2>3. CASE there \notin Bags
    BY <2>1, <2>3, HoldersThen DEF there, Within
  <2> QED BY <2>2, <2>3
<1>12. Carrier(w, mine) = q
  BY <1>1, <1>2, <1>9, <1>11, HoldersAfterMove
<1> QED BY <1>3, <1>6, <1>7, <1>8, <1>9, <1>10, <1>11, <1>12 DEF mine, theirs, w

LEMMA ExchangeKeepsOffers ==
  ASSUME TypeOK, PartnersAgree, TableMatchesOffers, OfferInv, NEW p \in Players, Transfer(p)
  PROVE  OfferInv'
<1> DEFINE q == tradePartner[p]
           mine == tradeItem[p]
           theirs == tradeItem[q]
           w == where'
<1>1. /\ p \in online /\ q \in online /\ p # q /\ mine \in Items /\ theirs \in Items
      /\ tradePartner[q] = p /\ UNCHANGED pos
      /\ \E half, ps : Exchange(p, q, half, ps)
  BY TransferIsExchange
<1>2. PICK half, ps : Exchange(p, q, half, ps)
  BY <1>1
<1>3. q \in Players /\ q # None /\ p # None
  BY <1>1, TradeAssumption DEF online
<1>4. Acyclic(half) /\ Acyclic(w)
  BY <1>1, <1>2, <1>3, ExchangeThen
<1>5. ASSUME NEW r \in Players
      PROVE  LeftAlone(r)
  <2>0. Close(ps) /\ p \in ps
    BY <1>2 DEF Exchange
  <2>1. /\ tradeItem'[r] = IF r \in Ended(ps) THEN None ELSE tradeItem[r]
        /\ tradePartner'[r] = IF r \in Ended(ps) THEN None ELSE tradePartner[r]
    BY <2>0, CloseLeaves
  <2>2. ASSUME tradeItem'[r] # None
        PROVE  /\ Within(w, tradeItem[r]) = Within(where, tradeItem[r])
               /\ Carrier(w, tradeItem[r]) = Carrier(where, tradeItem[r])
    <3> DEFINE x == tradeItem[r]
    <3>1. x # None /\ r \notin ps /\ r # p /\ r # q
      BY <1>3, <2>0, <2>1, <2>2 DEF Ended
    <3>2. x \in Items /\ mine \notin Within(where, x) /\ theirs \notin Within(where, x)
      BY <1>3, <3>1 DEF OfferInv, OffersDisjoint, TypeOK
    <3>3. OnlyMoves(where, half, mine) /\ OnlyMoves(half, w, theirs)
      BY <1>2 DEF Exchange
    <3> HIDE DEF x, w, mine, theirs
    <3>4. Within(half, x) = Within(where, x) /\ Carrier(half, x) = Carrier(where, x)
      BY <3>2, <3>3, HoldersAfterMove
    <3>5. theirs \notin Within(half, x)
      BY <3>2, <3>4
    <3>6. Within(w, x) = Within(half, x) /\ Carrier(w, x) = Carrier(half, x)
      BY <3>2, <3>3, <3>5, HoldersAfterMove
    <3> QED BY <3>4, <3>6 DEF x
  <2> QED BY <2>1, <2>2 DEF LeftAlone
<1>6. OffersDisjoint' /\ OfferInReach'
  BY <1>1, <1>5, OffersLeftAlone DEF OfferInv
<1> QED BY <1>4, <1>6 DEF OfferInv, Acyclic
-----------------------------------------------------------------------------
LEMMA InRangeSymmetric ==
  ASSUME NEW n \in Nat, NEW a, NEW b, InRange(n, a, b)
  PROVE  InRange(n, b, a)
<1>1. a \in Int /\ b \in Int
  BY TradeAssumption DEF InRange
<1>2. a - b \in -n .. n
  BY DEF InRange
<1>3. b - a \in -n .. n
  BY <1>1, <1>2
<1> QED BY <1>3 DEF InRange

(* A new offer lies in reach, and apart from those that stand.             *)
LEMMA RequestKeepsOffers ==
  ASSUME TypeOK, TableMatchesOffers, OfferInv,
         NEW p \in Players, NEW q \in Players, NEW i \in Items, RequestTrade(p, q, i)
  PROVE  OfferInv'
<1>1. /\ CanRequestTrade(p, q, i) /\ InternalStartTrade(p, q, i) /\ UNCHANGED <<pos, where>>
  BY DEF RequestTrade
<1>2. p # q /\ InRange(2, pos[q], pos[p]) /\ Reach(p, i) /\ i # None /\ q # None /\ p # None
  BY <1>1, TradeAssumption DEF CanRequestTrade
<1>3. InRange(2, pos[p], pos[q])
  BY <1>2, InRangeSymmetric
<1>4. \A r \in Players : tradeItem'[r] = IF r = p THEN i ELSE tradeItem[r]
  BY <1>1 DEF InternalStartTrade, TypeOK
<1>5. \A r \in Players : \/ tradePartner'[r] = tradePartner[r]
                         \/ r = p /\ tradePartner'[r] = q
                         \/ r = q /\ tradePartner'[r] = p
  BY <1>1 DEF InternalStartTrade, TypeOK
<1>6. ASSUME NEW r \in Players, tradeItem[r] # None
      PROVE  tradeItem[r] \notin Within(where, i) /\ i \notin Within(where, tradeItem[r])
  <2>1. <<tradeItem[r], r>> \in tradeItems
    BY <1>6 DEF TableMatchesOffers
  <2>2. ~AlreadyTraded(i)
    BY <1>1 DEF CanRequestTrade
  <2> DEFINE x == tradeItem[r]
             e == <<x, r>>
  <2>3. e \in tradeItems /\ e[1] = x
    BY <2>1
  <2> HIDE DEF x, e
  <2>4. x # i /\ i \notin Holders(where, x) /\ x \notin Holders(where, i)
    BY <2>2, <2>3 DEF AlreadyTraded
  <2> QED BY <2>4 DEF x, Within
<1>7. OffersDisjoint'
  <2> SUFFICES ASSUME NEW a \in Players, NEW b \in Players, a # b, tradeItem'[a] # None
               PROVE  tradeItem'[b] \notin Within(where, tradeItem'[a])
    BY <1>1 DEF OffersDisjoint
  <2>1. None \notin Within(where, i)
    BY <1>2, HoldersClosed, TradeAssumption DEF Within
  <2>2. CASE a = p
    <3>1. tradeItem'[a] = i /\ tradeItem'[b] = tradeItem[b]
      BY <1>4, <2>2
    <3> QED BY <1>6, <2>1, <3>1
  <2>3. CASE b = p
    <3>1. tradeItem'[b] = i /\ tradeItem'[a] = tradeItem[a]
      BY <1>4, <2>3
    <3> QED BY <1>6, <3>1
  <2>4. CASE a # p /\ b # p
    <3>1. tradeItem'[b] = tradeItem[b] /\ tradeItem'[a] = tradeItem[a]
      BY <1>4, <2>4
    <3> QED BY <3>1 DEF OfferInv, OffersDisjoint
  <2> QED BY <2>2, <2>3, <2>4
<1>8. ASSUME NEW r \in Players, tradeItem'[r] # None
      PROVE  Reach(r, tradeItem[r])'
  <2>1. Reach(r, tradeItem'[r])
    BY <1>2, <1>4, <1>8 DEF OfferInv, OfferInReach
  <2> QED BY <1>1, <2>1 DEF Reach, PositionOf
<1>9. ASSUME NEW r \in Players, tradePartner'[r] # None
      PROVE  InRange(2, pos'[r], pos'[tradePartner'[r]])
  <2>1. InRange(2, pos[r], pos[tradePartner'[r]])
    BY <1>2, <1>3, <1>5, <1>9 DEF OfferInv, OfferInReach
  <2> QED BY <1>1, <2>1
<1>10. OfferInReach'
  BY <1>8, <1>9 DEF OfferInReach
<1>11. Acyclic(where)'
  BY <1>1 DEF OfferInv, Acyclic, Holders, Closed
<1> QED BY <1>7, <1>10, <1>11 DEF OfferInv

(* A player moves, or is gone.  Those who trade with somebody else do not  *)
(* care, nor does an offer that somebody else carries.                     *)
LEMMA PlaceKeepsOffers ==
  ASSUME TypeOK, PartnersAgree, TableMatchesOffers, OfferInv,
         NEW p \in Players, NEW to, pos' = [pos EXCEPT ![p] = to], UNCHANGED where,
         \/ Close({p})
         \/ to \in Positions /\ ~Leaves(p, to) /\ UNCHANGED tradeVars
  PROVE  OfferInv'
<1>0. /\ \A r \in Players : pos'[r] = IF r = p THEN to ELSE pos[r]
      /\ OffersDisjoint /\ OfferInReach
  BY DEF TypeOK, OfferInv
<1>1. ASSUME NEW r \in Players
      PROVE  /\ tradeItem'[r] \in {None, tradeItem[r]}
             /\ tradePartner'[r] \in {None, tradePartner[r]}
  <2>1. CASE Close({p})
    BY <2>1, CloseLeaves
  <2>2. CASE UNCHANGED tradeVars
    BY <2>2 DEF tradeVars
  <2> QED BY <2>1, <2>2
<1>2. OffersDisjoint'
  <2> SUFFICES ASSUME NEW a \in Players, NEW b \in Players, a # b, tradeItem'[a] # None
               PROVE  tradeItem'[b] \notin Within(where, tradeItem'[a])
    BY DEF OffersDisjoint
  <2>1. tradeItem'[a] = tradeItem[a] /\ tradeItem[a] \in Items
    BY <1>1 DEF TypeOK
  <2>2. None \notin Within(where, tradeItem[a])
    BY <2>1, HoldersClosed, TradeAssumption DEF Within
  <2>3. tradeItem[b] \notin Within(where, tradeItem[a])
    BY <1>0, <2>1 DEF OffersDisjoint
  <2> QED BY <1>1, <2>1, <2>2, <2>3
<1>3. ASSUME NEW r \in Players, tradeItem'[r] # None
      PROVE  Reach(r, tradeItem[r])'
  <2> DEFINE x == tradeItem[r]
             c == Carrier(where, x)
  <2>1. tradeItem'[r] = x /\ x # None
    BY <1>1, <1>3
  <2>2. ReachIn(where, r, x)
    BY <1>0, <2>1, ReachIsReachIn DEF OfferInReach
  <2>3. c = r \/ (c \in Positions /\ InRange(1, c, pos'[r]))
    <3>1. CASE r # p
      BY <1>0, <2>2, <3>1 DEF ReachIn
    <3>2. CASE r = p /\ c # p
      <4>1. ~Close({p})
        BY <1>3, <3>2, CloseLeaves DEF Ended
      <4>2. ~Leaves(p, to)
        BY <4>1
      <4>3. c \in Positions /\ InRange(1, PositionOf(where, x), to)
        BY <2>1, <2>2, <3>2, <4>2 DEF Leaves, ReachIn
      <4>4. PositionOf(where, x) = c
        BY <4>3, TradeAssumption DEF PositionOf
      <4> QED BY <1>0, <3>2, <4>3, <4>4
    <3> QED BY <3>1, <3>2
  <2> QED BY <2>1, <2>3, TradeAssumption DEF Reach, PositionOf
<1>4. ASSUME NEW r \in Players, tradePartner'[r] # None
      PROVE  InRange(2, pos'[r], pos'[tradePartner'[r]])
  <2> DEFINE q == tradePartner[r]
  <2>1. /\ tradePartner'[r] = q /\ q # None /\ q \in Players /\ q # r /\ tradePartner[q] = r
        /\ r # None
    BY <1>1, <1>4, TradeAssumption DEF PartnersAgree, TypeOK
  <2>2. InRange(2, pos[r], pos[q])
    BY <1>0, <2>1 DEF OfferInReach
  <2>3. CASE r # p /\ q # p
    BY <1>0, <2>1, <2>2, <2>3
  <2>4. CASE r = p \/ q = p
    <3>1. ~Close({p})
      <4> SUFFICES ASSUME Close({p}) PROVE FALSE
        OBVIOUS
      <4>1. r \in Ended({p})
        BY <2>1, <2>4 DEF Ended
      <4> QED BY <1>4, <4>1, CloseLeaves
    <3>2. ~Leaves(p, to)
      BY <3>1
    <3>3. InRange(2, pos[tradePartner[p]], to)
      BY <2>1, <2>4, <3>2 DEF Leaves
    <3>4. InRange(2, to, pos[tradePartner[p]])
      BY <3>3, InRangeSymmetric
    <3>5. CASE r = p
      BY <1>0, <2>1, <3>4, <3>5
    <3>6. CASE q = p
      BY <1>0, <2>1, <3>3, <3>6
    <3> QED BY <2>4, <3>5, <3>6
  <2> QED BY <2>3, <2>4
<1>5. OfferInReach'
  BY <1>3, <1>4 DEF OfferInReach
<1>6. Acyclic(where)'
  BY DEF OfferInv, Acyclic, Holders, Closed
<1> QED BY <1>2, <1>5, <1>6 DEF OfferInv
-----------------------------------------------------------------------------
(* What moves an item moves it where it is not yet inside itself.          *)
LEMMA MoveItemIsMove ==
  ASSUME TypeOK, NEW p \in Players, NEW i \in Items, MoveItem(p, i)
  PROVE  /\ UNCHANGED pos
         /\ p \in online /\ Reach(p, i)
         /\ \E to, ps : /\ where' = [where EXCEPT ![i] = to] /\ Close(ps)
                        /\ Notices(where, where', i) \subseteq ps
                        /\ to \in {p} \cup Positions \cup Bags
                        /\ to \in Bags => Reach(p, to) /\ i \notin Within(where, to)
<1>1. PICK to \in {p} \cup Positions \cup {b \in Bags : Reach(p, b) /\ i \notin Within(where, b)} :
        LET moved == [where EXCEPT ![i] = to] IN
        /\ where' = moved
        /\ Close(EndedByRemoval(where, i) \cup EndedByAddition(moved, i))
  BY DEF MoveItem
<1>2. /\ where' = [where EXCEPT ![i] = to]
      /\ Close(Notices(where, where', i))
  BY <1>1 DEF Notices
<1>3. to \in Bags => Reach(p, to) /\ i \notin Within(where, to)
  BY <1>1, TradeAssumption
<1>4. UNCHANGED pos /\ p \in online /\ Reach(p, i)
  BY DEF MoveItem
<1>5. to \in {p} \cup Positions \cup Bags
  BY <1>1
<1> QED BY <1>2, <1>3, <1>4, <1>5

LEMMA RemoveItemIsMove ==
  ASSUME TypeOK, NEW i \in Items, RemoveItem(i)
  PROVE  /\ UNCHANGED pos
         /\ where' = [where EXCEPT ![i] = None]
         /\ \E ps : Close(ps) /\ Notices(where, where', i) \subseteq ps
<1>1. /\ UNCHANGED pos /\ where' = [where EXCEPT ![i] = None]
      /\ Close(EndedByRemoval(where, i))
  BY DEF RemoveItem
<1>2. where'[i] = None /\ None \notin Bags
  BY <1>1, TradeAssumption DEF TypeOK
<1>3. EndedByAddition(where', i) = {}
  BY <1>2 DEF EndedByAddition
<1> QED BY <1>1, <1>3 DEF Notices

(* All that an offer needs, step by step.                                  *)
LEMMA OfferInvStep ==
  ASSUME TypeOK, PartnersAgree, TableMatchesOffers, OfferInv, [Next]_vars
  PROVE  OfferInv'
<1>same. ASSUME UNCHANGED <<pos, where>>,
                \/ UNCHANGED <<tradePartner, tradeItem>>
                \/ \E ps : Close(ps)
         PROVE  OfferInv'
  <2>1. ASSUME NEW r \in Players
        PROVE  LeftAlone(r)
    <3>1. /\ tradeItem'[r] \in {None, tradeItem[r]}
          /\ tradePartner'[r] \in {None, tradePartner[r]}
      BY <1>same, CloseLeaves
    <3>2. /\ Within(where', tradeItem[r]) = Within(where, tradeItem[r])
          /\ Carrier(where', tradeItem[r]) = Carrier(where, tradeItem[r])
      BY <1>same
    <3> QED BY <3>1, <3>2 DEF LeftAlone
  <2>2. OffersDisjoint' /\ OfferInReach'
    BY <1>same, <2>1, OffersLeftAlone DEF OfferInv
  <2>3. Acyclic(where')
    BY <1>same DEF OfferInv
  <2> QED BY <2>2, <2>3 DEF OfferInv, Acyclic
<1>1. ASSUME NEW p \in Players, NEW q \in Players, NEW i \in Items, RequestTrade(p, q, i)
      PROVE  OfferInv'
  BY <1>1, RequestKeepsOffers
<1>2. ASSUME NEW p \in Players, Accept(p) \/ TransferOfNothing(p)
      PROVE  OfferInv'
  BY <1>2, <1>same DEF Accept, TransferOfNothing, tradeVars
<1>3. ASSUME NEW p \in Players, Transfer(p)
      PROVE  OfferInv'
  BY <1>3, ExchangeKeepsOffers
<1>4. ASSUME NEW p \in Players, TransferFails(p) \/ CloseTrade(p)
      PROVE  OfferInv'
  BY <1>4, <1>same DEF TransferFails, CloseTrade
<1>5. ASSUME NEW p \in Players, Disappear(p)
      PROVE  OfferInv'
  BY <1>5, PlaceKeepsOffers DEF Disappear
<1>6. ASSUME NEW p \in Players, NEW at \in Positions, Appear(p, at)
      PROVE  OfferInv'
  <2>1. tradePartner[p] = None /\ tradeItem[p] = None
    BY <1>6 DEF PartnersAgree, TableMatchesOffers, Appear
  <2>2. pos' = [pos EXCEPT ![p] = at] /\ UNCHANGED where /\ UNCHANGED tradeVars /\ ~Leaves(p, at)
    BY <1>6, <2>1 DEF Appear, Leaves
  <2> QED BY <2>2, PlaceKeepsOffers
<1>7. ASSUME NEW p \in Players, NEW to \in Positions, Move(p, to)
      PROVE  OfferInv'
  BY <1>7, PlaceKeepsOffers DEF Move
<1>8. ASSUME NEW p \in Players, NEW i \in Items, MoveItem(p, i)
      PROVE  OfferInv'
  <2>1. PICK to, ps : /\ where' = [where EXCEPT ![i] = to] /\ Close(ps)
                      /\ Notices(where, where', i) \subseteq ps
                      /\ to \in Bags => i \notin Within(where, to)
    BY <1>8, MoveItemIsMove
  <2>2. UNCHANGED pos /\ EndedByRemoval(where, i) \subseteq ps
    BY <1>8, <2>1, MoveItemIsMove DEF Notices
  <2> QED BY <2>1, <2>2, MoveKeepsOffers
<1>9. ASSUME NEW i \in Items, RemoveItem(i)
      PROVE  OfferInv'
  <2>1. PICK ps : Close(ps) /\ Notices(where, where', i) \subseteq ps
    BY <1>9, RemoveItemIsMove
  <2>2. /\ where' = [where EXCEPT ![i] = None] /\ None \notin Bags
        /\ UNCHANGED pos /\ EndedByRemoval(where, i) \subseteq ps
    BY <1>9, <2>1, RemoveItemIsMove, TradeAssumption DEF Notices
  <2> QED BY <2>1, <2>2, MoveKeepsOffers
<1>10. ASSUME NEW i \in Items, UpdateItem(i)
       PROVE  OfferInv'
  BY <1>10, <1>same DEF UpdateItem
<1>11. CASE UNCHANGED vars
  BY <1>11, <1>same DEF vars, tradeVars
<1> QED BY <1>1, <1>2, <1>3, <1>4, <1>5, <1>6, <1>7, <1>8, <1>9, <1>10, <1>11
        DEF Next, PlayerStep

LEMMA OfferInvInit ==
  ASSUME Init
  PROVE  OfferInv
<1>1. Acyclic(where)
  <2>1. \A b \in Bags : where[b] \notin Bags
    BY TradeAssumption DEF Init
  <2> QED BY <2>1, HoldersThen DEF Acyclic
<1> QED BY <1>1 DEF Init, OfferInv, OffersDisjoint, OfferInReach

(* The inductive invariant of all that is said of trades.                  *)
THEOREM OfferInvHolds == Spec => [](IInv /\ OfferInv)
<1>1. Init => OfferInv
  BY OfferInvInit
<1>2. IInv /\ OfferInv /\ [Next]_vars => OfferInv'
  BY OfferInvStep DEF IInv
<1> QED BY <1>1, <1>2, IInvHolds, PTL DEF Spec

(* No order of requests, moves of items and of players, and exchanges      *)
(* makes two offers of one thing, or leaves an offer out of reach: who     *)
(* takes an offered item away, in whatever bag, is noticed.                *)
THEOREM OffersStandHolds == Spec => []OffersStand
<1>1. OfferInv => OffersStand
  BY DEF OfferInv, OffersStand
<1> QED BY <1>1, OfferInvHolds, PTL
-----------------------------------------------------------------------------
(* What a step leaves of an offer that it does not end.                    *)
Unmoved(w, v, i) ==
  /\ Contents(v, i) = Contents(w, i)
  /\ \A j \in {i} \cup Contents(w, i) : v[j] = w[j]

LEMMA OwnerNoticesUpdates ==
  ASSUME TypeOK, NEW p \in online, tradeItem[p] \in Items, ReachIn(where, p, tradeItem[p]),
         NEW j \in {tradeItem[p]} \cup Contents(where, tradeItem[p])
  PROVE  p \in EndedByUpdate(where, j)
<1>1. tradeItem[p] \in Within(where, j)
  BY DEF Contents, Within
<1>2. Carrier(where, j) = Carrier(where, tradeItem[p])
  BY <1>1, CarrierOfHolders
<1>3. p \in Watchers(where, j)
  BY <1>2, NoticesItsOffer
<1> QED BY <1>1, <1>3 DEF EndedByUpdate, CheckTradeState

(* A move that the owner does not notice, and an exchange of others.       *)
LEMMA UnmovedByMove ==
  ASSUME TypeOK, NEW w, Acyclic(w), NEW v, NEW k \in Items, OnlyMoves(w, v, k),
         NEW p \in online, tradeItem[p] \in Items, ReachIn(w, p, tradeItem[p]),
         p \notin Notices(w, v, k)
  PROVE  Unmoved(w, v, tradeItem[p]) /\ ReachIn(v, p, tradeItem[p])
<1>1. p \notin EndedByRemoval(w, k) /\ p \notin EndedByAddition(v, k)
  BY DEF Notices
<1>2. ReachIn(v, p, tradeItem[p])
  BY <1>1, OfferAfterMove
<1>3. Unmoved(w, v, tradeItem[p])
  BY <1>1, ContentsAfterMove DEF Unmoved
<1> QED BY <1>2, <1>3

LEMMA OfferUnmoved ==
  ASSUME IInv, OfferInv, [Next]_vars,
         NEW p \in Players, tradeItem[p] # None, tradeItem'[p] = tradeItem[p]
  PROVE  Unmoved(where, where', tradeItem[p])
<1> DEFINE x == tradeItem[p]
           w == where'
<1>0. TypeOK /\ PartnersAgree /\ TableMatchesOffers /\ Acyclic(where)
  BY DEF IInv, OfferInv
<1>1. /\ p \in online /\ x \in Items /\ tradePartner[p] \in Players
      /\ tradePartner[tradePartner[p]] = p
  BY <1>0, WhoOffersIsThere DEF online
<1>2. ReachIn(where, p, x)
  BY ReachIsReachIn DEF OfferInv, OfferInReach
<1>3. ASSUME NEW ps, Close(ps)
      PROVE  p \notin ps /\ \A q \in ps : tradePartner[q] # p
  <2>1. p \notin Ended(ps)
    BY <1>0, <1>3, CloseLeaves
  <2>2. p # None
    BY TradeAssumption
  <2> QED BY <2>1, <2>2 DEF Ended
<1> HIDE DEF x, w
<1>4. ASSUME UNCHANGED where
      PROVE  Unmoved(where, w, x)
  BY <1>4 DEF Unmoved, w
<1>5. ASSUME NEW k \in Items, NEW to, where' = [where EXCEPT ![k] = to],
             NEW ps, Close(ps), Notices(where, where', k) \subseteq ps
      PROVE  Unmoved(where, w, x)
  <2>1. OnlyMoves(where, w, k)
    BY <1>0, <1>5 DEF OnlyMoves, TypeOK, w
  <2>2. p \notin Notices(where, w, k)
    BY <1>3, <1>5 DEF w
  <2> QED BY <1>0, <1>1, <1>2, <2>1, <2>2, UnmovedByMove DEF x
<1>6. ASSUME NEW a \in Players, Transfer(a)
      PROVE  Unmoved(where, w, x)
  <2> DEFINE q == tradePartner[a]
             mine == tradeItem[a]
             theirs == tradeItem[q]
  <2>1. /\ a \in Players /\ q \in Players /\ a # q /\ mine \in Items /\ theirs \in Items
        /\ tradePartner[q] = a
        /\ \E half, ps : Exchange(a, q, half, ps)
    BY <1>0, <1>6, TransferIsExchange DEF online
  <2>2. PICK half, ps : Exchange(a, q, half, ps)
    BY <2>1
  <2>3. /\ Close(ps) /\ a \in ps
        /\ Notices(where, half, mine) \cup Notices(half, w, theirs) \subseteq ps \cup {q}
        /\ OnlyMoves(where, half, mine) /\ OnlyMoves(half, w, theirs)
    BY <2>2 DEF Exchange, w
  <2>4. p # q
    BY <1>3, <2>3
  <2>5. p \notin Notices(where, half, mine) /\ p \notin Notices(half, w, theirs)
    BY <1>3, <2>3, <2>4
  <2>6. Acyclic(half)
    BY <1>0, <2>1, <2>2, ExchangeThen
  <2> HIDE DEF q, mine, theirs
  <2>7. Unmoved(where, half, x) /\ ReachIn(half, p, x)
    BY <1>0, <1>1, <1>2, <2>1, <2>3, <2>5, UnmovedByMove DEF x
  <2>8. Unmoved(half, w, x)
    BY <1>0, <1>1, <2>1, <2>3, <2>5, <2>6, <2>7, UnmovedByMove DEF x
  <2> QED BY <2>7, <2>8 DEF Unmoved
<1>7. ASSUME NEW a \in Players, NEW i \in Items, MoveItem(a, i)
      PROVE  Unmoved(where, w, x)
  <2>1. PICK to, ps : /\ where' = [where EXCEPT ![i] = to] /\ Close(ps)
                      /\ Notices(where, where', i) \subseteq ps
    BY <1>0, <1>7, MoveItemIsMove
  <2> QED BY <1>5, <2>1
<1>8. ASSUME NEW i \in Items, RemoveItem(i)
      PROVE  Unmoved(where, w, x)
  <2>1. PICK ps : /\ where' = [where EXCEPT ![i] = None] /\ Close(ps)
                  /\ Notices(where, where', i) \subseteq ps
    BY <1>0, <1>8, RemoveItemIsMove
  <2> QED BY <1>5, <2>1
<1>9. ASSUME UNCHANGED vars \/ (\E i \in Items : UpdateItem(i))
             \/ \E a \in Players :
                  \/ \E q \in Players, i \in Items : RequestTrade(a, q, i)
                  \/ Accept(a) \/ TransferFails(a) \/ TransferOfNothing(a) \/ CloseTrade(a)
                  \/ Disappear(a) \/ \E at \in Positions : Appear(a, at) \/ Move(a, at)
      PROVE  Unmoved(where, w, x)
  BY <1>4, <1>9 DEF vars, UpdateItem, RequestTrade, Accept, TransferFails, TransferOfNothing,
                    CloseTrade, Disappear, Appear, Move
<1> QED BY <1>6, <1>7, <1>8, <1>9 DEF Next, PlayerStep, x, w

(* What the partner was shown is what is handed over: as long as an offer  *)
(* stands, nothing in it is moved, joined or changed.                      *)
THEOREM OfferFrozenHolds == Spec => OfferFrozen
<1> DEFINE Frozen ==
             \A p \in Players :
               LET i == tradeItem[p] IN
               i # None /\ tradeItem'[p] = i =>
                 /\ Contents(where', i) = Contents(where, i)
                 /\ \A j \in {i} \cup Contents(where, i) :
                      where'[j] = where[j] /\ p \in EndedByUpdate(where, j)
<1>1. IInv /\ OfferInv /\ [Next]_vars => [Frozen]_vars
  <2> SUFFICES ASSUME IInv, OfferInv, [Next]_vars,
                      NEW p \in Players, tradeItem[p] # None, tradeItem'[p] = tradeItem[p]
               PROVE  /\ Unmoved(where, where', tradeItem[p])
                      /\ \A j \in {tradeItem[p]} \cup Contents(where, tradeItem[p]) :
                           p \in EndedByUpdate(where, j)
    BY DEF Unmoved
  <2>1. Unmoved(where, where', tradeItem[p])
    BY OfferUnmoved
  <2>2. TypeOK /\ p \in online /\ tradeItem[p] \in Items
    BY WhoOffersIsThere DEF IInv
  <2>3. ReachIn(where, p, tradeItem[p])
    BY ReachIsReachIn DEF OfferInv, OfferInReach
  <2> QED BY <2>1, <2>2, <2>3, OwnerNoticesUpdates
<1> QED BY <1>1, OfferInvHolds, PTL DEF Spec, OfferFrozen
-----------------------------------------------------------------------------
(* Whose an item is after a move: that of the moved one, if it is in that. *)
LEMMA CarrierAfterMove ==
  ASSUME NEW w, Acyclic(w), NEW v, NEW k \in Items, OnlyMoves(w, v, k), NEW i \in Items
  PROVE  /\ k \notin Within(w, i) => Carrier(v, i) = Carrier(w, i)
         /\ k \in Within(w, i) => /\ k \in Within(v, i)
                                  /\ Carrier(w, i) = Carrier(w, k)
                                  /\ Carrier(v, i) = Carrier(v, k)
<1>1. ASSUME k \in Within(w, i)
      PROVE  k \in Within(v, i)
  <2>1. Holders(w, i) \subseteq Holders(v, i) \cup Holders(w, k)
    BY HoldersAfterMove
  <2>2. k \notin Holders(w, k)
    BY NotInItself
  <2> QED BY <1>1, <2>1, <2>2 DEF Within
<1>2. k \in Within(w, i) => Carrier(w, i) = Carrier(w, k)
  BY CarrierOfHolders
<1>3. k \in Within(w, i) => Carrier(v, i) = Carrier(v, k)
  BY <1>1, CarrierOfHolders
<1>4. k \notin Within(w, i) => Carrier(v, i) = Carrier(w, i)
  BY HoldersAfterMove
<1> QED BY <1>1, <1>2, <1>3, <1>4

(* An item that passes on in an exchange.                                  *)
Exchanged(i, p, q) ==
  /\ tradePartner[p] = q
  /\ CheckTradeState(p, where, i)
  /\ tradeItem[q] # None
  /\ Carrier(where', tradeItem[q]) = p

LEMMA ExchangedByTransfer ==
  ASSUME IInv, OfferInv, NEW a \in Players, Transfer(a), NEW i \in Items,
         Carrier(where, i) # Carrier(where', i),
         Carrier(where, i) \in Players
  PROVE  Exchanged(i, Carrier(where, i), Carrier(where', i))
<1> DEFINE b == tradePartner[a]
           mine == tradeItem[a]
           theirs == tradeItem[b]
           w == where'
<1>0. TypeOK /\ PartnersAgree /\ TableMatchesOffers /\ Acyclic(where)
  BY DEF IInv, OfferInv
<1>1. /\ a \in online /\ b \in online /\ b \in Players /\ a # b /\ mine \in Items /\ theirs \in Items
      /\ tradePartner[b] = a
      /\ \E half, ps : Exchange(a, b, half, ps)
  BY <1>0, TransferIsExchange DEF online
<1>2. PICK half, ps : Exchange(a, b, half, ps)
  BY <1>1
<1>3. OnlyMoves(where, half, mine) /\ OnlyMoves(half, w, theirs)
  BY <1>2 DEF Exchange
<1>4. /\ Acyclic(half)
      /\ mine \notin Within(where, theirs) /\ theirs \notin Within(where, mine)
      /\ Within(half, theirs) = Within(where, theirs)
      /\ theirs \notin Within(half, mine)
      /\ Carrier(half, theirs) = Carrier(where, theirs)
      /\ Carrier(half, mine) = b /\ Carrier(w, theirs) = a /\ Carrier(w, mine) = b
  BY <1>0, <1>1, <1>2, ExchangeThen
<1>5. /\ mine # None /\ theirs # None
      /\ Carrier(where, mine) \in {a} \cup Positions
      /\ Carrier(where, theirs) \in {b} \cup Positions
  BY <1>1, TradeAssumption DEF OfferInv, OfferInReach, Reach
<1>6. Players \cap Positions = {}
  BY TradeAssumption
<1> HIDE DEF mine, theirs, w
<1>7. CASE mine \in Within(where, i)
  <2>1. /\ Carrier(where, i) = Carrier(where, mine) /\ Carrier(half, i) = Carrier(half, mine)
    BY <1>0, <1>1, <1>3, <1>7, CarrierAfterMove
  <2>2. Carrier(where, i) = a
    BY <1>5, <1>6, <2>1
  <2>3. theirs \notin Within(half, i)
    <3> SUFFICES ASSUME theirs \in Within(half, i) PROVE FALSE
      OBVIOUS
    <3>1. mine \in Within(half, i)
      BY <1>0, <1>1, <1>3, <1>7, CarrierAfterMove
    <3>2. theirs \in Within(half, mine) \/ mine \in Within(half, theirs)
      BY <3>1, HoldersInLine
    <3> QED BY <1>4, <3>2
  <2>4. Carrier(w, i) = b
    BY <1>1, <1>3, <1>4, <2>1, <2>3, CarrierAfterMove
  <2>5. CheckTradeState(a, where, i)
    BY <1>7 DEF CheckTradeState, mine
  <2> QED BY <1>4, <1>5, <2>2, <2>4, <2>5 DEF Exchanged, w, theirs
<1>8. CASE mine \notin Within(where, i) /\ theirs \in Within(half, i)
  <2>1. Within(half, i) = Within(where, i) /\ Carrier(half, i) = Carrier(where, i)
    BY <1>1, <1>3, <1>8, HoldersAfterMove
  <2>2. Carrier(half, i) = Carrier(half, theirs) /\ Carrier(w, i) = Carrier(w, theirs)
    BY <1>1, <1>3, <1>4, <1>8, CarrierAfterMove
  <2>3. Carrier(where, i) = b /\ Carrier(w, i) = a
    BY <1>4, <1>5, <1>6, <2>1, <2>2
  <2>4. CheckTradeState(b, where, i)
    BY <1>8, <2>1 DEF CheckTradeState, theirs
  <2> QED BY <1>1, <1>4, <1>5, <2>3, <2>4 DEF Exchanged, w, mine
<1>9. CASE mine \notin Within(where, i) /\ theirs \notin Within(half, i)
  <2>1. Carrier(half, i) = Carrier(where, i)
    BY <1>0, <1>1, <1>3, <1>9, CarrierAfterMove
  <2>2. Carrier(w, i) = Carrier(half, i)
    BY <1>1, <1>3, <1>4, <1>9, CarrierAfterMove
  <2> QED BY <2>1, <2>2 DEF w
<1> QED BY <1>7, <1>8, <1>9

(* Nothing passes from one player to another but in an exchange.           *)
THEOREM OnlyInExchangeHolds == Spec => OnlyInExchange
<1> DEFINE Fair ==
             \A i \in Items :
               LET p == Carrier(where, i)
                   q == Carrier(where', i)
               IN p # q /\ {p, q} \subseteq Players =>
                    /\ tradePartner[p] = q
                    /\ CheckTradeState(p, where, i)
                    /\ tradeItem[q] # None
                    /\ Carrier(where', tradeItem[q]) = p
<1>1. ASSUME IInv, OfferInv, [Next]_vars
      PROVE  [Fair]_vars
  <2> SUFFICES ASSUME Next, NEW i \in Items,
                      Carrier(where, i) # Carrier(where', i),
                      Carrier(where, i) \in Players, Carrier(where', i) \in Players
               PROVE  Exchanged(i, Carrier(where, i), Carrier(where', i))
    BY <1>1 DEF Exchanged
  <2>0. TypeOK /\ Acyclic(where) /\ Bags \subseteq Items /\ Players \cap Bags = {}
    BY <1>1, TradeAssumption DEF IInv, OfferInv
  <2>1. CASE UNCHANGED where
    BY <2>1
  <2>2. ASSUME NEW a \in Players, Transfer(a)
        PROVE  Exchanged(i, Carrier(where, i), Carrier(where', i))
    BY <1>1, <2>2, ExchangedByTransfer
  <2>3. ASSUME NEW a \in Players, NEW k \in Items, MoveItem(a, k)
        PROVE  FALSE
    <3> DEFINE w == where'
    <3>1. PICK to : /\ where' = [where EXCEPT ![k] = to]
                    /\ to \in {a} \cup Positions \cup Bags
                    /\ to \in Bags => Reach(a, to) /\ k \notin Within(where, to)
      BY <2>0, <2>3, MoveItemIsMove
    <3>2. Reach(a, k)
      BY <2>0, <2>3, MoveItemIsMove
    <3>3. OnlyMoves(where, w, k) /\ w[k] = to
      BY <2>0, <3>1 DEF OnlyMoves, TypeOK
    <3> HIDE DEF w
    <3>4. k \in Within(where, i)
      BY <2>0, <3>3, CarrierAfterMove DEF w
    <3>5. Carrier(where, i) = Carrier(where, k) /\ Carrier(w, i) = Carrier(w, k)
      BY <2>0, <3>3, <3>4, CarrierAfterMove
    <3>6. Carrier(where, k) = a
      BY <3>2, <3>5, TradeAssumption DEF Reach
    <3>7. Carrier(w, k) \in {a} \cup Positions
      <4>1. CASE to \in Bags
        <5>1. Carrier(w, k) = Carrier(w, to)
          BY <3>3, <4>1, CarrierThen
        <5>2. Carrier(w, to) = Carrier(where, to)
          BY <2>0, <3>1, <3>3, <4>1, CarrierAfterMove
        <5> QED BY <3>1, <4>1, <5>1, <5>2 DEF Reach
      <4>2. CASE to \notin Bags
        BY <3>1, <3>3, <4>2, CarrierThen
      <4> QED BY <4>1, <4>2
    <3> QED BY <3>5, <3>6, <3>7, TradeAssumption DEF w
  <2>4. ASSUME NEW k \in Items, RemoveItem(k)
        PROVE  FALSE
    <3> DEFINE w == where'
    <3>1. OnlyMoves(where, w, k) /\ w[k] = None
      BY <2>0, <2>4 DEF RemoveItem, OnlyMoves, TypeOK
    <3> HIDE DEF w
    <3>2. k \in Within(where, i)
      BY <2>0, <3>1, CarrierAfterMove DEF w
    <3>3. Carrier(w, i) = Carrier(w, k)
      BY <2>0, <3>1, <3>2, CarrierAfterMove
    <3>4. Carrier(w, k) = None
      BY <3>1, CarrierThen, TradeAssumption
    <3> QED BY <3>3, <3>4, TradeAssumption DEF w
  <2>5. ASSUME (\E k \in Items : UpdateItem(k))
               \/ \E a \in Players :
                    \/ \E q \in Players, k \in Items : RequestTrade(a, q, k)
                    \/ Accept(a) \/ TransferFails(a) \/ TransferOfNothing(a) \/ CloseTrade(a)
                    \/ Disappear(a) \/ \E at \in Positions : Appear(a, at) \/ Move(a, at)
        PROVE  UNCHANGED where
    BY <2>5 DEF UpdateItem, RequestTrade, Accept, TransferFails, TransferOfNothing,
                CloseTrade, Disappear, Appear, Move
  <2> QED BY <2>1, <2>2, <2>3, <2>4, <2>5 DEF Next, PlayerStep
<1> QED BY <1>1, OfferInvHolds, PTL DEF Spec, OnlyInExchange
=============================================================================
