------------------------------- MODULE House -------------------------------
(***************************************************************************)
(* Who owns a house, for how long, and how it is lost (src/src/house.cpp,  *)
(* with the !buyhouse and !sellhouse of talkaction.cpp).  The rent is due  *)
(* when payHouses runs; who cannot pay gets a letter a day, and after      *)
(* WarningsLimit of them the house is gone.  A house is sold in a trade,   *)
(* for a document that stands until the trade ends.                        *)
(*                                                                         *)
(* Whether somebody has the money, is premium or was in the game lately is *)
(* a choice; a day is the unit of time, and day 0 is the C++ value 0.      *)
(***************************************************************************)
EXTENDS Naturals, Sequences, FiniteSets

CONSTANTS
  Players,
  Houses,        \* a sequence, in the order of houseMap
  Period,        \* the days a rent pays for
  WarningsLimit,
  MaxDay,        \* the last day of an instance
  None

HouseSet == {Houses[i] : i \in DOMAIN Houses}

HouseAssumption ==
  /\ Period \in Nat \ {0} /\ WarningsLimit \in Nat \ {0} /\ MaxDay \in Nat \ {0}
  /\ None \notin Players
  /\ Houses \in Seq(HouseSet)

VARIABLES
  today,
  owner,       \* House::owner
  paidUntil,   \* House::paidUntil
  warnings,    \* House::rentWarnings
  lastWarning, \* House::lastWarning
  deals,       \* the trades with a transfer document
  notice,      \* history: the day the owner's last letter names, 0 without a letter
  evicted,     \* history: the houses that the last payHouses took for unpaid rent
  crossed      \* history: the houses whose deal was closed though something had changed

vars == <<today, owner, paidUntil, warnings, lastWarning, deals, notice, evicted, crossed>>

Deals == [house : HouseSet, seller : Players, buyer : Players, stale : BOOLEAN]

State == [owner |-> owner, paidUntil |-> paidUntil, warnings |-> warnings,
          lastWarning |-> lastWarning, notice |-> notice, evicted |-> {}]

Become(s) ==
  /\ owner' = s.owner
  /\ paidUntil' = s.paidUntil
  /\ warnings' = s.warnings
  /\ lastWarning' = s.lastWarning
  /\ notice' = s.notice
  /\ evicted' = s.evicted

Init ==
  /\ today = 1
  /\ owner = [h \in HouseSet |-> None]
  /\ paidUntil = [h \in HouseSet |-> 0]
  /\ warnings = [h \in HouseSet |-> 0]
  /\ lastWarning = [h \in HouseSet |-> 0]
  /\ deals = {}
  /\ notice = [h \in HouseSet |-> 0]
  /\ evicted = {} /\ crossed = {}
-----------------------------------------------------------------------------
Owned(s, p) == {h \in HouseSet : s.owner[h] = p}

(* Mutant: the new owner inherits the warnings.                            *)
SetOwnerOnly(s, h, p) ==
  IF s.owner[h] = p THEN s
  ELSE [s EXCEPT
          !.owner[h] = p,
          !.paidUntil[h] = 0,
          !.lastWarning[h] = IF p = None THEN 0 ELSE today,
          !.notice[h] = 0]

(* setOwnerEx; what is in the house, its beds and lists are left out.      *)
SetOwnerEx(s, h, p) ==
  IF s.owner[h] = p THEN s
  ELSE [s EXCEPT
          !.owner[h] = p,
          !.warnings[h] = IF s.owner[h] = None THEN @ ELSE 0,
          !.paidUntil[h] = IF s.owner[h] = None THEN @ ELSE 0,
          !.lastWarning[h] = IF p = None THEN 0 ELSE today,
          !.notice[h] = 0]

(* payRent is called with the time 0 for a sale: whatever was paid counts. *)
RentIsDue(s, h, time) == s.owner[h] # None /\ ~(s.paidUntil[h] > time)

(* payHouse of a house whose rent is due.  The owner is unfit (deleted,    *)
(* not premium or long away), owes nothing, pays or fails to.              *)
PayHouse(s, h, fate) ==
  LET lastDay == today + WarningsLimit - s.warnings[h] IN
     IF fate = "free" THEN s
     ELSE IF fate = "unfit" THEN SetOwnerEx(s, h, None)
     ELSE IF fate = "pays" THEN [s EXCEPT !.paidUntil[h] = today + Period]
     ELSE IF today < s.lastWarning[h] + 1 THEN s
     ELSE IF s.warnings[h] < WarningsLimit
       THEN [s EXCEPT !.warnings[h] = @ + 1, !.lastWarning[h] = today, !.notice[h] = lastDay]
     ELSE [SetOwnerEx(s, h, None) EXCEPT !.evicted = @ \cup {h}, !.notice[h] = s.notice[h]]

(* What changed hands since a deal was made makes it stale.                *)
Standing(s, open) ==
  {[d EXCEPT !.stale = @ \/ s.owner[d.house] # d.seller \/ Owned(s, d.buyer) # {}] : d \in open}

(* The houses one after another; what becomes of one does not depend on    *)
(* the others.                                                             *)
Paid(fate) ==
  LET after == [h \in HouseSet |-> IF h \in DOMAIN fate THEN PayHouse(State, h, fate[h]) ELSE State]
  IN [owner |-> [h \in HouseSet |-> after[h].owner[h]],
      paidUntil |-> [h \in HouseSet |-> after[h].paidUntil[h]],
      warnings |-> [h \in HouseSet |-> after[h].warnings[h]],
      lastWarning |-> [h \in HouseSet |-> after[h].lastWarning[h]],
      notice |-> [h \in HouseSet |-> after[h].notice[h]],
      evicted |-> {h \in HouseSet : h \in after[h].evicted}]

PayHouses ==
  \E fate \in [{h \in HouseSet : RentIsDue(State, h, today)} -> {"unfit", "free", "pays", "fails"}] :
    LET s == Paid(fate) IN
    /\ Become(s)
    /\ deals' = Standing(s, deals)
    /\ crossed' = crossed \ {h \in HouseSet : s.owner[h] = None}
    /\ UNCHANGED today

NextDay ==
  /\ today < MaxDay
  /\ today' = today + 1
  /\ evicted' = {}
  /\ UNCHANGED <<owner, paidUntil, warnings, lastWarning, deals, notice, crossed>>
-----------------------------------------------------------------------------
BuyHouse(p, h) ==
  LET s == SetOwnerEx(State, h, p) IN
  /\ Owned(State, p) = {}
  /\ owner[h] = None
  /\ Become(s)
  /\ deals' = Standing(s, deals)
  /\ UNCHANGED <<today, crossed>>

(* !leavehouse, a script.                                                  *)
LeaveHouse(p, h) ==
  LET s == SetOwnerEx(State, h, None) IN
  /\ owner[h] = p
  /\ Become(s)
  /\ deals' = Standing(s, deals)
  /\ crossed' = crossed \ {h}
  /\ UNCHANGED today

(* internalStartTrade: neither trades yet, or q has an offer out to p and  *)
(* this one is the answer.                                                 *)
MayOffer(p, q) ==
  \A d \in deals : {p, q} \cap {d.seller, d.buyer} # {} => d.seller = q /\ d.buyer = p

FirstOwned(p) == Houses[CHOOSE i \in DOMAIN Houses :
                          /\ owner[Houses[i]] = p
                          /\ \A j \in DOMAIN Houses : owner[Houses[j]] = p => i <= j]

MaySell(p, q) ==
  /\ p # q
  /\ Owned(State, p) # {} /\ Owned(State, q) = {}
  /\ MayOffer(p, q)

(* !sellhouse.  A house nothing was paid for yet is paid for first, and    *)
(* stays so if then the trade does not come about; nothing is paid for a   *)
(* house without a rent, or by who need not pay any.                       *)
SellHouse(p, q) ==
  LET h == FirstOwned(p)
      terms == IF RentIsDue(State, h, 0) THEN {paidUntil[h], today + Period} ELSE {paidUntil[h]}
  IN
  /\ MaySell(p, q)
  /\ \E until \in terms : Become([State EXCEPT !.paidUntil[h] = until])
  /\ deals' = deals \cup {[house |-> h, seller |-> p, buyer |-> q, stale |-> FALSE]}
  /\ UNCHANGED <<today, crossed>>

(* TransferItem::onTradeEvent asks nobody who owns the house by now.  When *)
(* both sides trade a document the two are closed, or dropped, one after   *)
(* the other.                                                              *)
CloseDeal(d) ==
  LET s == SetOwnerEx(State, d.house, d.buyer) IN
  /\ d \in deals
  /\ Become(s)
  /\ crossed' = IF d.stale THEN crossed \cup {d.house} ELSE crossed \ {d.house}
  /\ deals' = Standing(s, deals \ {d})
  /\ UNCHANGED today

CancelDeal(d) ==
  /\ d \in deals
  /\ deals' = deals \ {d}
  /\ evicted' = {}
  /\ UNCHANGED <<today, owner, paidUntil, warnings, lastWarning, notice, crossed>>

Next ==
  \/ PayHouses
  \/ NextDay
  \/ \E p \in Players, h \in HouseSet : BuyHouse(p, h) \/ LeaveHouse(p, h)
  \/ \E p, q \in Players : SellHouse(p, q)
  \/ \E d \in deals : CloseDeal(d) \/ CancelDeal(d)

Spec == Init /\ [][Next]_vars
-----------------------------------------------------------------------------
TypeOK ==
  /\ today \in 1..MaxDay
  /\ owner \in [HouseSet -> Players \cup {None}]
  /\ paidUntil \in [HouseSet -> 0..MaxDay + Period]
  /\ warnings \in [HouseSet -> 0..WarningsLimit]
  /\ lastWarning \in [HouseSet -> 0..MaxDay]
  /\ deals \subseteq Deals
  /\ notice \in [HouseSet -> 0..MaxDay + WarningsLimit]
  /\ evicted \subseteq HouseSet /\ crossed \subseteq HouseSet

(***************************************************************************)
(* A player has one house at most, whatever is bought, left, lost and      *)
(* traded in between; only a deal that was closed though one side had got  *)
(* a house, or lost this one, since it was made breaks the rule.           *)
(***************************************************************************)
OneHouseEach ==
  \A p \in Players : Cardinality(Owned(State, p) \ crossed) <= 1

(***************************************************************************)
(* A house is taken for its rent only from an owner who got a letter, and  *)
(* not before the day that this owner's last letter named.                 *)
(***************************************************************************)
NoticeIsKept ==
  \A h \in evicted : notice[h] > 0 /\ today >= notice[h]
=============================================================================
