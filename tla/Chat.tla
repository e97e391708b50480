-------------------------------- MODULE Chat --------------------------------
(***************************************************************************)
(* The channels players open for themselves (src/src/chat.cpp): private    *)
(* channels, and the channels of parties.  Both keep pointers to the       *)
(* players who listen.  Which party a player is in is decided by Party;    *)
(* here a party is its members and what it tells the chat.                 *)
(*                                                                         *)
(* Going on after the erased element of a map is undefined: the loop of    *)
(* removeUserFromAllChannels may then miss channels, which is modelled as  *)
(* a choice of the channels it never comes to.                             *)
(***************************************************************************)
EXTENDS Naturals, FiniteSets

CONSTANTS
  Players,
  Premium,  \* the players who may have a channel of their own
  Parties,  \* the addresses of Party objects
  Ids,      \* the ids of private channels, 100 to 9999
  None

VARIABLES
  online,
  linked,     \* the players who have a client
  party,      \* Player::party
  partyOpen,  \* the keys of m_partyChannels, which nothing ever erases
  partyUsers, \* m_users of a party's channel
  owner,      \* m_owner of a private channel, None for an id that is free
  invites,    \* m_invites
  users,      \* m_users of a private channel
  strays,     \* history: who was not taken off when its party let go of it
  missed,     \* history: what removeUserFromAllChannels never came to
  stale,      \* the private channels that point to a deleted player
  down        \* the process used such a pointer

partyVars == <<party, partyOpen, partyUsers, strays>>
privateVars == <<owner, invites, users>>
vars == <<online, linked, partyVars, privateVars, missed, stale, down>>

Init ==
  /\ online = {} /\ linked = {}
  /\ party = [p \in Players |-> None]
  /\ partyOpen = {}
  /\ partyUsers = [g \in Parties |-> {}]
  /\ owner = [c \in Ids |-> None]
  /\ invites = [c \in Ids |-> {}]
  /\ users = [c \in Ids |-> {}]
  /\ strays = {} /\ missed = {} /\ stale = {}
  /\ down = FALSE
-----------------------------------------------------------------------------
Members(g) == {p \in Players : party[p] = g}
Owned(p) == {c \in Ids : owner[c] = p}
IsInvited(c, p) == owner[c] # None /\ (p = owner[c] \/ p \in invites[c])

(* getChannelList opens the channel of the player's party.                 *)
RequestChannels(p) ==
  /\ p \in linked
  /\ party[p] # None
  /\ partyOpen' = partyOpen \cup {party[p]}
  /\ UNCHANGED <<online, linked, party, partyUsers, strays, privateVars, missed, stale, down>>

OpenPartyChannel(p) ==
  /\ p \in linked
  /\ party[p] \in partyOpen
  /\ partyUsers' = [partyUsers EXCEPT ![party[p]] = @ \cup {p}]
  /\ UNCHANGED <<online, linked, party, partyOpen, strays, privateVars, missed, stale, down>>

ClosePartyChannel(p) ==
  /\ p \in linked
  /\ party[p] \in partyOpen
  /\ partyUsers' = [partyUsers EXCEPT ![party[p]] = @ \ {p}]
  /\ UNCHANGED <<online, linked, party, partyOpen, strays, privateVars, missed, stale, down>>

CreatePrivate(p) ==
  /\ p \in linked \cap Premium
  /\ Owned(p) = {}
  /\ \E c \in Ids :
       /\ owner[c] = None
       /\ \A b \in Ids : b < c => owner[b] # None
       /\ owner' = [owner EXCEPT ![c] = p]
       /\ users' = [users EXCEPT ![c] = {p}]
  /\ UNCHANGED <<online, linked, partyVars, invites, missed, stale, down>>

Invite(p, q) ==
  /\ p \in linked /\ q \in online \ {p}
  /\ \E c \in Owned(p) : invites' = [invites EXCEPT ![c] = @ \cup {q}]
  /\ UNCHANGED <<online, linked, partyVars, owner, users, missed, stale, down>>

Exclude(p, q) ==
  /\ p \in linked /\ q \in online \ {p}
  /\ \E c \in Owned(p) :
       /\ q \in invites[c]
       /\ invites' = [invites EXCEPT ![c] = @ \ {q}]
       /\ users' = [users EXCEPT ![c] = @ \ {q}]
  /\ UNCHANGED <<online, linked, partyVars, owner, missed, stale, down>>

OpenPrivate(p, c) ==
  /\ p \in linked
  /\ IsInvited(c, p)
  /\ users' = [users EXCEPT ![c] = @ \cup {p}]
  /\ UNCHANGED <<online, linked, partyVars, owner, invites, missed, stale, down>>

(* removeUserFromChannel; the channel goes with its owner.                 *)
ClosePrivate(p, c) ==
  /\ p \in linked
  /\ IsInvited(c, p) /\ p \in users[c]
  /\ IF p = owner[c]
       THEN /\ c \notin stale
            /\ owner' = [owner EXCEPT ![c] = None]
            /\ invites' = [invites EXCEPT ![c] = {}]
            /\ users' = [users EXCEPT ![c] = {}]
       ELSE /\ users' = [users EXCEPT ![c] = @ \ {p}]
            /\ UNCHANGED <<owner, invites>>
  /\ UNCHANGED <<online, linked, partyVars, missed, stale, down>>
-----------------------------------------------------------------------------
(* removeUserFromAllChannels.  The channels behind the player's own may    *)
(* never be reached.                                                       *)
Behind(p) == {c \in Ids : \E own \in Owned(p) : own < c /\ p \in users[c]}

TakenOff(p, unseen) ==
  LET own == Owned(p) IN
  /\ own \cap stale = {}
  /\ owner' = [c \in Ids |-> IF c \in own THEN None ELSE owner[c]]
  /\ invites' = [c \in Ids |-> IF c \in own THEN {} ELSE invites[c]]
  /\ users' = [c \in Ids |-> IF c \in own THEN {}
                             ELSE IF c \in unseen THEN users[c]
                             ELSE users[c] \ {p}]

(* The login of a player who is in the game takes over from its client.    *)
Replace(p) ==
  /\ p \in linked
  /\ \E unseen \in SUBSET Behind(p) : TakenOff(p, unseen)
  /\ partyUsers' = [g \in Parties |-> partyUsers[g] \ {p}]
  /\ strays' = {s \in strays : s[1] # p}
  /\ linked' = linked \ {p}
  /\ UNCHANGED <<online, party, partyOpen, missed, stale, down>>

(* onCreatureDisappear: the party first, then the channels.  What is not   *)
(* reached keeps a pointer to the player, who is deleted.                  *)
Disappear(p) ==
  /\ p \in online
  /\ party[p] = None
  /\ \E unseen \in SUBSET Behind(p) :
       /\ TakenOff(p, unseen)
       /\ stale' = stale \cup {c \in Ids : p \in users'[c]}
       /\ missed' = missed \cup unseen
  /\ partyUsers' = [g \in Parties |-> partyUsers[g] \ {p}]
  /\ strays' = {s \in strays : s[1] # p}
  /\ online' = online \ {p}
  /\ linked' = linked \ {p}
  /\ UNCHANGED <<party, partyOpen, down>>

(* Talking in such a channel, or closing it, sends to the deleted player.  *)
UseStale(p) ==
  /\ p \in online
  /\ \E c \in stale : p = owner[c] \/ p \in users[c]
  /\ down' = TRUE
  /\ UNCHANGED <<online, linked, partyVars, privateVars, missed, stale>>

(* The player is a new object: the pointers to the old one stay stale.     *)
Login(p) ==
  /\ p \notin online
  /\ online' = online \cup {p}
  /\ linked' = linked \cup {p}
  /\ users' = [c \in Ids |-> users[c] \ {p}]
  /\ UNCHANGED <<partyVars, owner, invites, missed, stale, down>>

LoseLink(p) ==
  /\ p \in linked
  /\ linked' = linked \ {p}
  /\ UNCHANGED <<online, partyVars, privateVars, missed, stale, down>>

Reconnect(p) ==
  /\ p \in online \ linked
  /\ linked' = linked \cup {p}
  /\ UNCHANGED <<online, partyVars, privateVars, missed, stale, down>>
-----------------------------------------------------------------------------
JoinParty(p, g) ==
  /\ p \in online
  /\ party[p] = None
  /\ party' = [party EXCEPT ![p] = g]
  /\ UNCHANGED <<online, linked, partyOpen, partyUsers, strays, privateVars, missed, stale, down>>

(* Mutant: the members forget the party first.                             *)
ToldLate(g, gone) == partyUsers

(* disband() tells the members before they forget the party, so the chat   *)
(* still finds the channel of those who have a client.                     *)
Told(g, gone) == [partyUsers EXCEPT ![g] = @ \ (gone \cap linked)]

(* leave() clears the player's party before it tells the client, and the   *)
(* chat finds no channel to take the player off.                           *)
LeaveParty(p) ==
  LET g == party[p]
      others == Members(g) \ {p}
  IN
  /\ p \in online
  /\ g # None
  /\ \E disbands \in BOOLEAN :
       /\ disbands => Cardinality(others) < 2
       /\ others = {} => disbands
       /\ LET gone == IF disbands THEN Members(g) ELSE {p} IN
          /\ party' = [q \in Players |-> IF q \in gone THEN None ELSE party[q]]
          /\ partyUsers' = Told(g, gone \ {p})
          /\ strays' = strays \cup ((({p} \cup (gone \ linked)) \cap partyUsers[g]) \X {g})
  /\ UNCHANGED <<online, linked, partyOpen, privateVars, missed, stale, down>>

(* The invitation that was the last company of a leader is revoked.        *)
DisbandParty(g) ==
  /\ Cardinality(Members(g)) = 1
  /\ party' = [p \in Players |-> IF party[p] = g THEN None ELSE party[p]]
  /\ partyUsers' = Told(g, Members(g))
  /\ strays' = strays \cup (((Members(g) \ linked) \cap partyUsers[g]) \X {g})
  /\ UNCHANGED <<online, linked, partyOpen, privateVars, missed, stale, down>>

PlayerStep(p) ==
  \/ RequestChannels(p) \/ OpenPartyChannel(p) \/ ClosePartyChannel(p)
  \/ CreatePrivate(p)
  \/ \E q \in Players : Invite(p, q) \/ Exclude(p, q)
  \/ \E c \in Ids : OpenPrivate(p, c) \/ ClosePrivate(p, c)
  \/ Replace(p) \/ Disappear(p) \/ UseStale(p)
  \/ Login(p) \/ LoseLink(p) \/ Reconnect(p)
  \/ \E g \in Parties : JoinParty(p, g)
  \/ LeaveParty(p)

Next ==
  /\ ~down
  /\ \/ \E p \in Players : PlayerStep(p)
     \/ \E g \in Parties : DisbandParty(g)

Spec == Init /\ [][Next]_vars
-----------------------------------------------------------------------------
TypeOK ==
  /\ linked \subseteq online /\ online \subseteq Players
  /\ party \in [Players -> Parties \cup {None}]
  /\ partyOpen \subseteq Parties
  /\ partyUsers \in [Parties -> SUBSET Players]
  /\ owner \in [Ids -> Players \cup {None}]
  /\ invites \in [Ids -> SUBSET Players]
  /\ users \in [Ids -> SUBSET Players]
  /\ strays \subseteq Players \X Parties
  /\ missed \subseteq Ids /\ stale \subseteq Ids
  /\ down \in BOOLEAN

(***************************************************************************)
(* Who listens is entitled to: to a private channel its owner and those    *)
(* it has invited and not excluded since, to the channel of a party its    *)
(* members - and, as the code has it, those who left it while they         *)
(* listened, or had no client when it disbanded.                           *)
(***************************************************************************)
OnlyEntitledListen ==
  /\ \A c \in Ids : users[c] \subseteq invites[c] \cup {owner[c]}
  /\ \A g \in Parties : \A p \in partyUsers[g] : party[p] = g \/ <<p, g>> \in strays

(***************************************************************************)
(* A private channel has an owner who is in the game, listens to it and    *)
(* has no other, and everybody on a channel is in the game: only channels  *)
(* behind the own one of a player who left may point to it still.          *)
(***************************************************************************)
ChannelsOfThePresent ==
  /\ \A c \in Ids :
       /\ users[c] # {} => owner[c] \in users[c]
       /\ owner[c] # None => Owned(owner[c]) = {c} /\ owner[c] \in users[c]
       /\ users[c] \subseteq online \/ c \in stale
  /\ \A g \in Parties : partyUsers[g] \subseteq online
  /\ stale \subseteq missed
=============================================================================
