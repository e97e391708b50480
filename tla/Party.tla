------------------------------- MODULE Party -------------------------------
(***************************************************************************)
(* Parties (src/src/party.cpp, with the handlers of game.cpp and           *)
(* player.cpp).  A party is named by its address: it deletes itself inside *)
(* its own methods, and the next one may be allocated in its place.        *)
(*                                                                         *)
(* Every request is a task of the dispatcher, hence one step.  The calls   *)
(* nest (leave - passLeadership - disband), so what they change is handed  *)
(* from one to the next in a record.                                       *)
(***************************************************************************)
EXTENDS Naturals, Sequences, FiniteSets

CONSTANTS
  Players,
  Parties,  \* the addresses of Party objects
  None      \* the null pointer

PartyAssumption ==
  /\ IsFiniteSet(Players) /\ IsFiniteSet(Parties)
  /\ None \notin Players \cup Parties

VARIABLES
  online,      \* the players in the game
  party,       \* Player::party
  invitations, \* Player::invitePartyList
  leader,      \* Party::leader, None for an address without a party
  memberList,  \* Party::memberList
  inviteList,  \* Party::inviteList
  strayed,     \* history: who left a party that it had invited itself to
  down         \* the process used a party that had been deleted

vars == <<online, party, invitations, leader, memberList, inviteList, strayed, down>>

State == [party |-> party, invitations |-> invitations, leader |-> leader,
          memberList |-> memberList, inviteList |-> inviteList,
          strayed |-> strayed]

Become(s) ==
  /\ party' = s.party
  /\ invitations' = s.invitations
  /\ leader' = s.leader
  /\ memberList' = s.memberList
  /\ inviteList' = s.inviteList
  /\ strayed' = s.strayed

Elements(seq) == {seq[i] : i \in DOMAIN seq}
Without(seq, p) ==
  LET i == CHOOSE i \in DOMAIN seq : seq[i] = p
  IN IF p \in Elements(seq) THEN SubSeq(seq, 1, i - 1) \o SubSeq(seq, i + 1, Len(seq)) ELSE seq

Init ==
  /\ online = {}
  /\ party = [p \in Players |-> None]
  /\ invitations = [p \in Players |-> {}]
  /\ leader = [g \in Parties |-> None]
  /\ memberList = [g \in Parties |-> <<>>]
  /\ inviteList = [g \in Parties |-> {}]
  /\ strayed = {}
  /\ down = FALSE
-----------------------------------------------------------------------------
(* All forget the party, which deletes itself.                             *)
Disband(s, g) ==
  LET gone == {s.leader[g]} \cup Elements(s.memberList[g]) IN
  [s EXCEPT
     !.party = [p \in Players |-> IF p \in gone THEN None ELSE @[p]],
     !.invitations = [p \in Players |-> IF p \in s.inviteList[g] THEN @[p] \ {g} ELSE @[p]],
     !.inviteList[g] = {},
     !.memberList[g] = <<>>,
     !.leader[g] = None]

CanDisband(s, g) == s.memberList[g] = <<>> /\ s.inviteList[g] = {}

PassLeadership(s, g, p) ==
  [s EXCEPT !.leader[g] = p, !.memberList[g] = <<s.leader[g]>> \o Without(@, p)]

(* Mutant: a party may be left with nobody but its leader.                 *)
LeaveOnly(s, p) ==
  LET g == s.party[p]
      passed == IF s.leader[g] = p THEN PassLeadership(s, g, Head(s.memberList[g])) ELSE s
  IN IF s.leader[g] = p /\ s.memberList[g] = <<>>
       THEN Disband(s, g)
       ELSE [passed EXCEPT !.memberList[g] = Without(@, p), !.inviteList[g] = @ \ {p},
                           !.party[p] = None]

(* Party::leave.                                                           *)
Leave(s, p) ==
  LET g == s.party[p]
      missingLeader ==
        s.leader[g] = p /\ \/ s.memberList[g] = <<>>
                           \/ Len(s.memberList[g]) = 1 /\ s.inviteList[g] = {}
      passed ==
        IF s.leader[g] = p /\ ~missingLeader
          THEN PassLeadership(s, g, Head(s.memberList[g]))
          ELSE s
      left ==
        [passed EXCEPT
           !.memberList[g] = Without(@, p),
           !.inviteList[g] = @ \ {p},
           !.party[p] = None,
           !.strayed = IF p \in s.inviteList[g] THEN @ \cup {<<p, g>>} ELSE @]
  IN IF missingLeader \/ CanDisband(left, g) THEN Disband(left, g) ELSE left

(* Party::removeInvite.                                                    *)
RemoveInvite(s, g, p) ==
  LET removed == [s EXCEPT !.inviteList[g] = @ \ {p}, !.invitations[p] = @ \ {g}]
  IN IF p \notin s.inviteList[g] THEN s
     ELSE IF CanDisband(removed, g) THEN Disband(removed, g)
     ELSE removed
-----------------------------------------------------------------------------
IsInviting(p, q) == party[p] # None /\ leader[party[p]] = p /\ q \in inviteList[party[p]]

InviteTo(s, g, q) ==
  [s EXCEPT !.inviteList[g] = @ \cup {q}, !.invitations[q] = @ \cup {g}]

(* playerInviteToParty.  Nothing keeps a player from inviting itself when  *)
(* it founds its party.                                                    *)
InviteToParty(p, q) ==
  /\ {p, q} \subseteq online
  /\ ~IsInviting(q, p)
  /\ party[q] = None
  /\ \/ /\ party[p] = None
        /\ \E g \in Parties :
             /\ leader[g] = None
             /\ Become(InviteTo([State EXCEPT !.party[p] = g, !.leader[g] = p], g, q))
     \/ /\ party[p] # None
        /\ leader[party[p]] = p
        /\ q \notin inviteList[party[p]]
        /\ Become(InviteTo(State, party[p], q))
  /\ UNCHANGED <<online, down>>

(* playerJoinParty: p joins the party of q.                                *)
JoinParty(p, q) ==
  /\ {p, q} \subseteq online
  /\ IsInviting(q, p)
  /\ party[p] = None
  /\ LET g == party[q] IN
     Become([State EXCEPT !.memberList[g] = Append(@, p), !.party[p] = g,
                          !.inviteList[g] = @ \ {p}, !.invitations[p] = @ \ {g}])
  /\ UNCHANGED <<online, down>>

RevokeInvitation(p, q) ==
  /\ {p, q} \subseteq online
  /\ IsInviting(p, q)
  /\ Become(RemoveInvite(State, party[p], q))
  /\ UNCHANGED <<online, down>>

PassPartyLeadership(p, q) ==
  /\ {p, q} \subseteq online
  /\ party[p] # None
  /\ leader[party[p]] = p
  /\ q \in Elements(memberList[party[p]])
  /\ Become(PassLeadership(State, party[p], q))
  /\ UNCHANGED <<online, down>>

(* playerLeaveParty, by a player who is not in a fight.                    *)
LeaveParty(p) ==
  /\ p \in online
  /\ party[p] # None
  /\ Become(Leave(State, p))
  /\ UNCHANGED <<online, down>>
-----------------------------------------------------------------------------
Login(p) ==
  /\ p \notin online
  /\ online' = online \cup {p}
  /\ UNCHANGED <<party, invitations, leader, memberList, inviteList, strayed, down>>

(* clearPartyInvitations: removeInvite by each party in a copy of the      *)
(* player's list.                                                          *)
ClearInvitations(s, p) ==
  LET inviting == {g \in s.invitations[p] : p \in s.inviteList[g]}
      ended == {g \in inviting : s.memberList[g] = <<>> /\ s.inviteList[g] = {p}}
      alone == {s.leader[g] : g \in ended}
  IN [s EXCEPT
        !.invitations[p] = {},
        !.inviteList = [g \in Parties |-> IF g \in inviting THEN @[g] \ {p} ELSE @[g]],
        !.party = [q \in Players |-> IF q \in alone THEN None ELSE @[q]],
        !.leader = [g \in Parties |-> IF g \in ended THEN None ELSE @[g]]]

(* onCreatureDisappear of the player itself.                               *)
Disappear(p) ==
  LET cleared == ClearInvitations(State, p)
      left == IF cleared.party[p] # None THEN Leave(cleared, p) ELSE cleared
  IN
  /\ p \in online
  /\ \A g \in invitations[p] : leader[g] # None
  /\ Become([left EXCEPT !.strayed = {r \in @ : r[1] # p}])
  /\ online' = online \ {p}
  /\ UNCHANGED down

(* An invitation by a party that was deleted is called all the same.       *)
DisappearInvitedByNobody(p) ==
  /\ p \in online
  /\ \E g \in invitations[p] : leader[g] = None
  /\ down' = TRUE
  /\ UNCHANGED <<online, party, invitations, leader, memberList, inviteList, strayed>>

PlayerStep(p) ==
  \/ \E q \in Players : InviteToParty(p, q) \/ JoinParty(p, q) \/ PassPartyLeadership(p, q)
  \/ \E q \in Players : RevokeInvitation(p, q)
  \/ LeaveParty(p)
  \/ Login(p)
  \/ Disappear(p)
  \/ DisappearInvitedByNobody(p)

Next == ~down /\ \E p \in Players : PlayerStep(p)

Spec == Init /\ [][Next]_vars
-----------------------------------------------------------------------------
TypeOK ==
  /\ online \subseteq Players
  /\ party \in [Players -> Parties \cup {None}]
  /\ invitations \in [Players -> SUBSET Parties]
  /\ leader \in [Parties -> Players \cup {None}]
  /\ memberList \in [Parties -> Seq(Players)]
  /\ inviteList \in [Parties -> SUBSET Players]
  /\ strayed \subseteq Players \X Parties
  /\ down \in BOOLEAN

(***************************************************************************)
(* A player points to a party exactly if it leads it or is listed once as  *)
(* its member, and all of them are in the game: no order of passing on,    *)
(* leaving, logging out and disbanding leaves a pointer to a party that    *)
(* has deleted itself, or in a party a player who is gone.                 *)
(***************************************************************************)
MembersAgree ==
  \A g \in Parties :
    LET members == memberList[g] IN
    /\ {p \in Players : party[p] = g} = ({leader[g]} \ {None}) \cup Elements(members)
    /\ leader[g] \notin Elements(members)
    /\ \A i, j \in DOMAIN members : members[i] = members[j] => i = j
    /\ ({leader[g]} \ {None}) \cup Elements(members) \subseteq online

(***************************************************************************)
(* Both sides know of an invitation, and nobody else does.  Only a player  *)
(* who had invited itself and left keeps one that the party has forgotten. *)
(***************************************************************************)
InvitationsAgree ==
  \A g \in Parties, p \in Players :
    /\ p \in inviteList[g] => p \in online /\ leader[g] # None /\ g \in invitations[p]
    /\ g \in invitations[p] => p \in inviteList[g] \/ <<p, g>> \in strayed

(***************************************************************************)
(* A party that is down to its leader and waits for nobody has disbanded,  *)
(* whether the last other one left, logged out or lost its invitation.     *)
(***************************************************************************)
PartyHasCompany ==
  \A g \in Parties : leader[g] # None => memberList[g] # <<>> \/ inviteList[g] # {}
=============================================================================
