---------------------------- MODULE WaitingList ----------------------------
(***************************************************************************)
(* The queue of a full server (src/src/waitlist.cpp).  There is no         *)
(* connection behind an entry: a client that is refused hangs up, counts   *)
(* down the time it was told and comes back, and WaitingList::login finds  *)
(* its entry by name and address unless it has expired.  Expired entries   *)
(* stay in the list until a later login() gets as far as cleanup().        *)
(*                                                                         *)
(* One login is one task of the dispatcher, hence one step.                *)
(***************************************************************************)
EXTENDS Integers, Sequences, FiniteSets, SequencesExt

CONSTANTS
  Clients,     \* a character at an address
  Premium,     \* the clients with premium time
  AlwaysLogin, \* those with PlayerFlag_CanAlwaysLogin
  Diligent,    \* the clients that come back when they were told to
  PremiumSkip, \* PREMIUM_SKIP_WAIT
  MaxPlayers,  \* MAX_PLAYERS
  TickLength   \* bound: the seconds that one step of the clock takes

ASSUME WaitingListAssumption ==
  /\ IsFiniteSet(Clients)
  /\ Premium \subseteq Clients
  /\ AlwaysLogin \subseteq Clients
  /\ Diligent \subseteq Clients
  /\ PremiumSkip \in BOOLEAN
  /\ MaxPlayers \in Nat
  /\ TickLength \in Nat \ {0}

VARIABLES
  waitList,  \* WaitingList::waitList
  left,      \* the seconds until each entry's timeout, 0 when it is past
  online,    \* Player::autoList
  before     \* history: <<c, d>> when c was in the list at d's arrival

vars == <<waitList, left, online, before>>

Waiting == ToSet(waitList)

(* getTime(): what the client is told, in seconds.                         *)
GetTime(slot) ==
  IF slot < 5 THEN 5 ELSE IF slot < 10 THEN 10 ELSE IF slot < 20 THEN 20
  ELSE IF slot < 50 THEN 60 ELSE 120

(* getTimeout(): how long the place is kept.                               *)
GetTimeout(slot) == GetTime(slot) + 15

Init ==
  /\ waitList = <<>>
  /\ left = [c \in Clients |-> 0]
  /\ online = {}
  /\ before = {}

(* The first condition of login().                                         *)
Bypasses(c) == c \in AlwaysLogin \/ (PremiumSkip /\ c \in Premium)
Unhindered(c) == Bypasses(c) \/ (waitList = <<>> /\ Cardinality(online) < MaxPlayers)

(* Mutant: a place is lost when the client was to come back.               *)
CleanedEarly == SelectSeq(waitList, LAMBDA c : left[c] > 15)

(* cleanup(): the list without the entries that have expired, entry by     *)
(* entry.                                                                  *)
Kept[n \in 0 .. Len(waitList)] ==
  IF n = 0 THEN <<>>
  ELSE IF left[waitList[n]] > 0 THEN Append(Kept[n - 1], waitList[n]) ELSE Kept[n - 1]

Cleaned == Kept[Len(waitList)]

(* find(): the slot of an entry, counted from 1.                           *)
Slot(list, c) == CHOOSE i \in DOMAIN list : list[i] = c

(* Mutant: counts the slots from 0.                                        *)
NoRoomFromZero(slot) == Cardinality(online) + slot > MaxPlayers + 1

NoRoom(slot) == Cardinality(online) + slot > MaxPlayers

(* The player is placed in the game, or its login fails for another cause. *)
Enter(c) == online' \in {online, online \cup {c}}

LoginUnhindered(c) ==
  /\ c \notin online
  /\ Unhindered(c)
  /\ Enter(c)
  /\ UNCHANGED <<waitList, left, before>>

(* A client with an entry waits longer, or enters and gives up its place.  *)
LoginFromList(c) ==
  LET slot == Slot(Cleaned, c)
      list == IF NoRoom(slot) THEN Cleaned ELSE RemoveAt(Cleaned, slot)
  IN
  /\ c \notin online
  /\ ~Unhindered(c)
  /\ c \in ToSet(Cleaned)
  /\ waitList' = list
  /\ left' = [d \in Clients |->
       IF d \notin ToSet(list) THEN 0 ELSE IF d = c THEN GetTimeout(slot) ELSE left[d]]
  /\ IF NoRoom(slot) THEN UNCHANGED online ELSE Enter(c)
  /\ before' = {r \in before : {r[1], r[2]} \subseteq ToSet(list)}

(* Mutant: premium players do not go first.                                *)
SlotForLast(c) == Len(Cleaned) + 1

(* Where a new entry goes: before the first one without premium time, or   *)
(* at the end.                                                             *)
SlotFor(c) ==
  LET others == {i \in DOMAIN Cleaned : Cleaned[i] \notin Premium}
  IN IF c \in Premium /\ others # {}
       THEN CHOOSE i \in others : \A j \in others : i <= j
       ELSE Len(Cleaned) + 1

(* A new client queues, even if only expired entries stood in its way.     *)
LoginQueues(c) ==
  LET slot == SlotFor(c)
      list == InsertAt(Cleaned, slot, c)
  IN
  /\ c \notin online
  /\ ~Unhindered(c)
  /\ c \notin ToSet(Cleaned)
  /\ waitList' = list
  /\ left' = [d \in Clients |->
       IF d = c THEN GetTimeout(slot) ELSE IF d \in ToSet(Cleaned) THEN left[d] ELSE 0]
  /\ before' = {r \in before : {r[1], r[2]} \subseteq ToSet(Cleaned)}
                 \cup (ToSet(Cleaned) \X {c})
  /\ UNCHANGED online

Logout(c) ==
  /\ c \in online
  /\ online' = online \ {c}
  /\ UNCHANGED <<waitList, left, before>>

(* A diligent client's countdown is over: it must come back before its     *)
(* place expires.  (It was told 15 seconds less than its place is kept.)   *)
Due(c) == c \in Diligent \cap Waiting /\ c \notin online /\ left[c] \in 1 .. 15

(* Time passes, but not the moment at which a diligent client comes back.  *)
Tick ==
  /\ \A c \in Clients : ~Due(c)
  /\ left' = [c \in Clients |-> IF left[c] > TickLength THEN left[c] - TickLength ELSE 0]
  /\ UNCHANGED <<waitList, online, before>>

Login(c) == LoginUnhindered(c) \/ LoginFromList(c) \/ LoginQueues(c)

Next == Tick \/ \E c \in Clients : Login(c) \/ Logout(c)

Spec == Init /\ [][Next]_vars

(* Time passes, nobody plays for ever, and the diligent come back in time. *)
FairSpec ==
  /\ Spec
  /\ WF_vars(Tick)
  /\ \A c \in Clients : WF_vars(Logout(c)) /\ WF_vars(Due(c) /\ Login(c))
-----------------------------------------------------------------------------
(* Types; the list has no duplicates, and only its entries have a timeout. *)
TypeOK ==
  /\ waitList \in Seq(Clients)
  /\ IsInjective(waitList)
  /\ left \in [Clients -> Nat]
  /\ \A c \in Clients : left[c] > 0 => c \in Waiting
  /\ online \subseteq Clients
  /\ before \subseteq Waiting \X Waiting

(***************************************************************************)
(* Premium players wait in front of the others, and within each class the  *)
(* order is that of arrival, whatever expires or comes back between.       *)
(***************************************************************************)
QueueOrder == TypeOK /\
  \A i, j \in DOMAIN waitList : i < j =>
    /\ waitList[j] \in Premium => waitList[i] \in Premium
    /\ (waitList[i] \in Premium <=> waitList[j] \in Premium) =>
         <<waitList[i], waitList[j]>> \in before

(***************************************************************************)
(* Whoever enters without a privilege leaves room for everybody who still  *)
(* waits in front: all of them could come back now and enter as well.  In  *)
(* particular the server is never filled beyond MAX_PLAYERS this way.      *)
(***************************************************************************)
RoomForThoseAhead ==
  [][\A c \in online' \ online :
       ~Bypasses(c) =>
         LET ahead == IF c \notin Waiting THEN {}
                      ELSE {Cleaned[i] : i \in 1 .. (Slot(Cleaned, c) - 1)}
         IN Cardinality(online' \cup ahead) <= MaxPlayers]_vars

(***************************************************************************)
(* A client keeps its place for as long as it was told, and 15 seconds     *)
(* more: the entry disappears only when the client enters or the time is   *)
(* up, and nobody but a premium player is put in front of it.              *)
(***************************************************************************)
PlaceIsKept ==
  [][\A c \in Waiting : left[c] > 0 =>
       \/ c \notin ToSet(waitList') /\ LoginFromList(c)
       \/ /\ c \in ToSet(waitList')
          /\ \A i \in 1 .. (Slot(waitList', c) - 1) :
               \/ \E j \in 1 .. (Slot(waitList, c) - 1) : waitList[j] = waitList'[i]
               \/ waitList'[i] \in Premium]_vars

(***************************************************************************)
(* A diligent premium player is let in before long, once no privileged     *)
(* player takes the room any more.  (Others may wait for ever: premium     *)
(* players may keep coming, and they go first.)                            *)
(***************************************************************************)
PremiumEnters ==
  \A c \in Diligent \cap Premium :
    <>[](online \cap AlwaysLogin = {}) => (c \in Waiting ~> c \notin Waiting)
=============================================================================
