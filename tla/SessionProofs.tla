--------------------------- MODULE SessionProofs ---------------------------
(***************************************************************************)
(* Proofs about Session for any connections and players: its types, that   *)
(* a Player counts its holders, that no task, event, protocol or player    *)
(* points to what is gone, that the character is in the game once and has  *)
(* one controller, and that a client is let go only when it is closing.    *)
(*                                                                         *)
(* All of it rests on what can be in the dispatcher's list and among the   *)
(* scheduler's events, and in which order, when releaseProtocol() runs.    *)
(***************************************************************************)
EXTENDS Session, FiniteSetTheorems, TLAPS

Listed(ts) == {ts[i] : i \in DOMAIN ts}
Jobs == Listed(tasks) \cup scheduled

(* No task is listed twice, a login comes before whatever else is listed   *)
(* for its protocol, and a logout before the release.                      *)
Ordered(ts) ==
  /\ \A i, j \in DOMAIN ts : ts[i] = ts[j] => i = j
  /\ \A i, j \in DOMAIN ts : ts[i] = <<"login", ts[j][2]>> => i <= j
  /\ \A i, j \in DOMAIN ts :
       ts[i][1] = "logout" /\ ts[j] = <<"release", ts[i][2]>> => i < j

(* What is listed or scheduled for a protocol fits the protocol's state.   *)
JobsFit ==
  /\ scheduled \subseteq {"connect", "release"} \X Protocols
  /\ scheduled \cap Listed(tasks) = {}
  /\ \A e \in Jobs : protocol[e[2]] = "alive"
  /\ \A p \in Protocols :
       /\ <<"login", p>> \in Jobs =>
            /\ player[p] = NoPlayer /\ connecting[p] = NoPlayer
            /\ \A e \in scheduled : e[2] # p
       /\ <<"connect", p>> \in Jobs => connecting[p] # NoPlayer
       /\ <<"close", p>> \in Jobs => conn[p] = "requested"
       /\ <<"release", p>> \in Jobs => conn[p] = "closing"
       /\ <<"release", p>> \in scheduled => <<"logout", p>> \notin Jobs

(* What a protocol is before it has a player, and while it is being used.  *)
ProtocolsFit ==
  \A p \in Protocols :
    /\ protocol[p] = "none" => player[p] = NoPlayer /\ connecting[p] = NoPlayer
    /\ connecting[p] # NoPlayer => player[p] = NoPlayer
    /\ conn[p] \in {"open", "requested"} => protocol[p] = "alive"

(* Protocols and players point to what is there, and to each other.        *)
PointersFit ==
  /\ \A p \in Protocols : player[p] # NoPlayer =>
       protocol[p] = "alive" /\ status[player[p]] \in {"in", "out"}
  /\ \A x \in Players :
       /\ status[x] \in {"in", "out"} /\ client[x] # NoProtocol => player[client[x]] = x
       /\ status[x] = "none" => client[x] = NoProtocol

Holders(x) == {p \in Protocols : player[p] = x}

(* The references of every player, those not made or deleted included.     *)
RefsFit ==
  \A x \in Players :
    /\ refCount[x] = (IF status[x] = "in" THEN 1 ELSE 0)
                     + (IF x \in checkVector THEN 1 ELSE 0)
                     + Cardinality(Holders(x)) + releaseThings[x]
    /\ status[x] \in {"none", "deleted"} => x \notin checkVector /\ releaseThings[x] = 0

(* One player is in the game, and of a player's protocols only its client  *)
(* has an open connection.                                                 *)
ControlFits ==
  /\ \A x, y \in InGame : x = y
  /\ \A p \in Protocols :
       player[p] # NoPlayer /\ conn[p] = "open" => client[player[p]] = p

(* The protocols whose login has run, and the players made so far.         *)
LoggedIn == {p \in Protocols : protocol[p] # "none" /\ <<"login", p>> \notin Jobs}
Created == {x \in Players : status[x] # "none"}

PlayersSuffice == Cardinality(Created) <= Cardinality(LoggedIn)

IInv ==
  /\ TypeOK /\ Ordered(tasks) /\ JobsFit /\ ProtocolsFit /\ PointersFit
  /\ RefsFit /\ ControlFits /\ PlayersSuffice
-----------------------------------------------------------------------------
(* What posting a task and taking the first one do to the list.            *)
LEMMA ListedMore ==
  ASSUME NEW ts, NEW us, NEW n, NEW e, DOMAIN us = DOMAIN ts \cup {n}, us[n] = e,
         \A i \in DOMAIN ts : us[i] = ts[i]
  PROVE  Listed(us) = Listed(ts) \cup {e}
<1>1. Listed(us) \subseteq Listed(ts) \cup {e}
  BY DEF Listed
<1>2. Listed(ts) \subseteq Listed(us)
  BY DEF Listed
<1>3. e \in Listed(us)
  BY DEF Listed
<1> QED BY <1>1, <1>2, <1>3

LEMMA ListedAppend ==
  ASSUME NEW S, NEW ts \in Seq(S), NEW e \in S
  PROVE  /\ Append(ts, e) \in Seq(S)
         /\ Listed(Append(ts, e)) = Listed(ts) \cup {e}
<1> DEFINE us == Append(ts, e)
           n == Len(ts) + 1
<1>1. us \in Seq(S)
  OBVIOUS
<1>2. DOMAIN us = DOMAIN ts \cup {n} /\ us[n] = e /\ \A i \in DOMAIN ts : us[i] = ts[i]
  OBVIOUS
<1> HIDE DEF us, n
<1>3. Listed(us) = Listed(ts) \cup {e}
  BY <1>2, ListedMore
<1> QED BY <1>1, <1>3 DEF us

LEMMA PostTask ==
  ASSUME NEW ts \in Seq(Kinds \X Protocols), NEW kind \in Kinds, NEW p \in Protocols
  PROVE  /\ Append(ts, <<kind, p>>) \in Seq(Kinds \X Protocols)
         /\ Listed(Append(ts, <<kind, p>>)) = Listed(ts) \cup {<<kind, p>>}
<1> DEFINE e == <<kind, p>>
<1>1. e \in Kinds \X Protocols
  OBVIOUS
<1> HIDE DEF e
<1>2. Append(ts, e) \in Seq(Kinds \X Protocols) /\ Listed(Append(ts, e)) = Listed(ts) \cup {e}
  BY <1>1, ListedAppend
<1> QED BY <1>2 DEF e

LEMMA OrderedAppend ==
  ASSUME NEW ts \in Seq(Kinds \X Protocols), Ordered(ts),
         NEW kind \in Kinds, NEW p \in Protocols, <<kind, p>> \notin Listed(ts),
         kind = "login" => \A f \in Listed(ts) : f[2] # p,
         kind = "logout" => <<"release", p>> \notin Listed(ts)
  PROVE  Ordered(Append(ts, <<kind, p>>))
<1> DEFINE e == <<kind, p>>
           us == Append(ts, e)
           n == Len(ts) + 1
<1>1. /\ DOMAIN us = DOMAIN ts \cup {n} /\ n \notin DOMAIN ts
      /\ \A i \in DOMAIN ts : us[i] = ts[i] /\ i < n /\ i \in Nat
      /\ us[n] = e /\ n \in Nat
  OBVIOUS
<1>2. \A i \in DOMAIN ts : ts[i] \in Listed(ts) /\ ts[i] \in Kinds \X Protocols
  BY DEF Listed
<1>3. e[1] = kind /\ e[2] = p
  OBVIOUS
<1> HIDE DEF us, n, e
<1>4. \A i, j \in DOMAIN us : us[i] = us[j] => i = j
  <2>1. \A i \in DOMAIN ts : us[i] # us[n]
    BY <1>1, <1>2 DEF e
  <2> QED BY <1>1, <2>1 DEF Ordered
<1>5. \A i, j \in DOMAIN us : us[i] = <<"login", us[j][2]>> => i <= j
  <2> SUFFICES ASSUME NEW i \in DOMAIN us, NEW j \in DOMAIN us, us[i] = <<"login", us[j][2]>>
               PROVE  i <= j
    OBVIOUS
  <2>1. CASE j = n
    BY <1>1, <2>1
  <2>2. CASE i = n /\ j # n
    BY <1>1, <1>2, <1>3, <2>2 DEF e
  <2>3. CASE i # n /\ j # n
    BY <1>1, <2>3 DEF Ordered
  <2> QED BY <2>1, <2>2, <2>3
<1>6. \A i, j \in DOMAIN us : us[i][1] = "logout" /\ us[j] = <<"release", us[i][2]>> => i < j
  <2> SUFFICES ASSUME NEW i \in DOMAIN us, NEW j \in DOMAIN us,
                      us[i][1] = "logout", us[j] = <<"release", us[i][2]>>
               PROVE  i < j
    OBVIOUS
  <2>1. CASE i = n
    BY <1>1, <1>2, <1>3, <2>1 DEF e
  <2>2. CASE i # n /\ j = n
    BY <1>1, <2>2
  <2>3. CASE i # n /\ j # n
    BY <1>1, <2>3 DEF Ordered
  <2> QED BY <2>1, <2>2, <2>3
<1> QED BY <1>4, <1>5, <1>6 DEF Ordered, us, e

LEMMA OrderedTail ==
  ASSUME NEW ts \in Seq(Kinds \X Protocols), Ordered(ts),
         NEW kind, NEW p, ts # <<>>, Head(ts) = <<kind, p>>
  PROVE  /\ Tail(ts) \in Seq(Kinds \X Protocols)
         /\ Ordered(Tail(ts))
         /\ Listed(Tail(ts)) = Listed(ts) \ {<<kind, p>>}
         /\ <<kind, p>> \in Listed(ts)
         /\ <<"login", p>> \notin Listed(Tail(ts))
         /\ kind = "release" => <<"logout", p>> \notin Listed(Tail(ts))
<1> DEFINE us == Tail(ts)
<1>1. /\ us \in Seq(Kinds \X Protocols)
      /\ 1 \in DOMAIN ts /\ ts[1] = <<kind, p>>
      /\ \A i \in DOMAIN us : i \in Nat /\ i + 1 \in DOMAIN ts /\ i + 1 # 1 /\ us[i] = ts[i + 1]
      /\ \A i \in DOMAIN ts : i \in Nat
      /\ \A i \in DOMAIN ts \ {1} : i - 1 \in DOMAIN us /\ us[i - 1] = ts[i]
  OBVIOUS
<1> HIDE DEF us
<1>2. Listed(us) = Listed(ts) \ {<<kind, p>>}
  <2>1. \A i \in DOMAIN ts \ {1} : ts[i] # ts[1]
    BY <1>1 DEF Ordered
  <2>2. \A i \in DOMAIN us : us[i] \in Listed(ts) /\ us[i] # <<kind, p>>
    BY <1>1, <2>1 DEF Listed
  <2>3. \A i \in DOMAIN ts : ts[i] # <<kind, p>> => ts[i] \in Listed(us)
    BY <1>1 DEF Listed
  <2> QED BY <2>2, <2>3 DEF Listed
<1>3. Ordered(us)
  <2>1. \A i, j \in DOMAIN us : us[i] = us[j] => i = j
    BY <1>1 DEF Ordered
  <2>2. \A i, j \in DOMAIN us : us[i] = <<"login", us[j][2]>> => i <= j
    <3> SUFFICES ASSUME NEW i \in DOMAIN us, NEW j \in DOMAIN us, us[i] = <<"login", us[j][2]>>
                 PROVE  i <= j
      OBVIOUS
    <3>1. /\ i + 1 \in DOMAIN ts /\ j + 1 \in DOMAIN ts
          /\ ts[i + 1] = <<"login", ts[j + 1][2]>>
      BY <1>1
    <3>2. i + 1 <= j + 1
      BY <3>1 DEF Ordered
    <3> QED BY <1>1, <3>2
  <2>3. \A i, j \in DOMAIN us : us[i][1] = "logout" /\ us[j] = <<"release", us[i][2]>> => i < j
    <3> SUFFICES ASSUME NEW i \in DOMAIN us, NEW j \in DOMAIN us,
                        us[i][1] = "logout", us[j] = <<"release", us[i][2]>>
                 PROVE  i < j
      OBVIOUS
    <3>1. /\ i + 1 \in DOMAIN ts /\ j + 1 \in DOMAIN ts
          /\ ts[i + 1][1] = "logout" /\ ts[j + 1] = <<"release", ts[i + 1][2]>>
      BY <1>1
    <3>2. i + 1 < j + 1
      BY <3>1 DEF Ordered
    <3> QED BY <1>1, <3>2
  <2> QED BY <2>1, <2>2, <2>3 DEF Ordered
<1> DEFINE h == ts[1]
<1>7. h = <<kind, p>> /\ h[2] = p
  BY <1>1
<1>4. <<"login", p>> \notin Listed(us)
  <2> SUFFICES ASSUME NEW i \in DOMAIN us, us[i] = <<"login", p>> PROVE FALSE
    BY DEF Listed
  <2>1. /\ i + 1 \in DOMAIN ts /\ 1 \in DOMAIN ts
        /\ ts[1][2] = p /\ ts[i + 1] = <<"login", p>>
    <3>1. i + 1 \in DOMAIN ts /\ 1 \in DOMAIN ts
      BY <1>1
    <3>2. us[i] = ts[i + 1]
      BY <1>1
    <3> QED BY <1>7, <3>1, <3>2
  <2>2. i + 1 <= 1
    BY <2>1 DEF Ordered
  <2>3. i + 1 # 1 /\ i \in Nat
    BY <1>1
  <2> QED BY <2>2, <2>3
<1>5. kind = "release" => <<"logout", p>> \notin Listed(us)
  <2> SUFFICES ASSUME kind = "release", NEW i \in DOMAIN us, us[i] = <<"logout", p>> PROVE FALSE
    BY DEF Listed
  <2>1. /\ i + 1 \in DOMAIN ts /\ 1 \in DOMAIN ts
        /\ ts[i + 1][1] = "logout" /\ ts[1] = <<"release", ts[i + 1][2]>>
    <3>1. i + 1 \in DOMAIN ts /\ 1 \in DOMAIN ts
      BY <1>1
    <3>2. us[i] = ts[i + 1]
      BY <1>1
    <3>3. ts[i + 1][1] = "logout" /\ ts[i + 1][2] = p
      BY <3>2
    <3> QED BY <1>7, <3>1, <3>3
  <2>2. i + 1 < 1
    BY <2>1 DEF Ordered
  <2> QED BY <1>1, <2>2
<1>6. <<kind, p>> \in Listed(ts)
  BY <1>1 DEF Listed
<1> QED BY <1>1, <1>2, <1>3, <1>4, <1>5, <1>6 DEF us

(* Connection::close() posts the closing task once.                        *)
LEMMA CloseEffect ==
  ASSUME TypeOK, NEW ts \in Seq(Kinds \X Protocols), Ordered(ts),
         NEW p \in Protocols, <<"close", p>> \in Listed(ts) => conn[p] = "requested", Close(p, ts)
  PROVE  /\ tasks' \in Seq(Kinds \X Protocols)
         /\ Ordered(tasks')
         /\ Listed(tasks') = Listed(ts) \cup (IF conn[p] = "open" THEN {<<"close", p>>} ELSE {})
         /\ conn' \in [Protocols -> {"none", "open", "requested", "closing"}]
         /\ \A q \in Protocols :
              conn'[q] = IF q = p /\ conn[q] = "open" THEN "requested" ELSE conn[q]
<1>1. conn' \in [Protocols -> {"none", "open", "requested", "closing"}]
      /\ \A q \in Protocols :
           conn'[q] = IF q = p /\ conn[q] = "open" THEN "requested" ELSE conn[q]
  BY DEF Close, TypeOK
<1>2. CASE conn[p] = "open"
  <2>1. tasks' = Append(ts, <<"close", p>>) /\ <<"close", p>> \notin Listed(ts)
    BY <1>2 DEF Close
  <2>2. "close" \in Kinds /\ <<"close", p>> \in Kinds \X Protocols
    BY DEF Kinds
  <2>3. Ordered(tasks')
    BY <2>1, <2>2, OrderedAppend
  <2> QED BY <1>1, <1>2, <2>1, <2>2, <2>3, ListedAppend
<1>3. CASE conn[p] # "open"
  BY <1>1, <1>3 DEF Close
<1> QED BY <1>2, <1>3
-----------------------------------------------------------------------------
(* Steps that leave the players and the pointers to them alone.            *)

LEMMA JobTypes ==
  ASSUME TypeOK
  PROVE  Jobs \subseteq Kinds \X Protocols
<1>1. \A i \in DOMAIN tasks : tasks[i] \in Kinds \X Protocols
  BY DEF TypeOK
<1> QED BY <1>1 DEF Jobs, Listed, TypeOK

LEMMA Holding ==
  ASSUME UNCHANGED <<status, player, refCount, checkVector, releaseThings>>, RefsFit
  PROVE  RefsFit'
BY DEF RefsFit, Holders

LEMMA ArriveKeeps ==
  ASSUME IInv, NEW p \in Protocols, Arrive(p)
  PROVE  IInv'
<1> USE DEF IInv
<1>1. /\ protocol[p] = "none"
      /\ conn' = [conn EXCEPT ![p] = "open"]
      /\ protocol' = [protocol EXCEPT ![p] = "alive"]
      /\ tasks' = Append(tasks, <<"login", p>>)
      /\ UNCHANGED <<player, m_acceptPackets, connecting, scheduled, status, client,
                     isConnecting, refCount, checkVector, releaseThings>>
  BY DEF Arrive, playerVars
<1>2. \A e \in Jobs : e[2] # p
  BY <1>1 DEF JobsFit
<1>3. "login" \in Kinds /\ <<"login", p>> \in Kinds \X Protocols /\ tasks \in Seq(Kinds \X Protocols)
  BY DEF Kinds, TypeOK
<1>4. <<"login", p>> \notin Listed(tasks) /\ \A f \in Listed(tasks) : f[2] # p
  BY <1>2 DEF Jobs
<1>5. tasks' \in Seq(Kinds \X Protocols) /\ Listed(tasks') = Listed(tasks) \cup {<<"login", p>>}
  BY <1>1, <1>3, ListedAppend
<1>6. Ordered(tasks')
  BY <1>1, <1>3, <1>4, OrderedAppend
<1>7. TypeOK'
  BY <1>1, <1>5 DEF TypeOK
<1>8. Jobs' = Jobs \cup {<<"login", p>>}
  BY <1>1, <1>5 DEF Jobs
<1>9. \A q \in Protocols : /\ protocol'[q] = IF q = p THEN "alive" ELSE protocol[q]
                           /\ conn'[q] = IF q = p THEN "open" ELSE conn[q]
  BY <1>1 DEF TypeOK
<1>10. JobsFit'
  <2>1. scheduled \cap Listed(tasks') = {}
    BY <1>2, <1>5 DEF JobsFit, Jobs
  <2>2. \A e \in Jobs' : protocol'[e[2]] = "alive"
    BY <1>2, <1>8, <1>9, JobTypes DEF JobsFit
  <2>3. player[p] = NoPlayer /\ connecting[p] = NoPlayer /\ \A e \in scheduled : e[2] # p
    BY <1>1, <1>2 DEF ProtocolsFit, Jobs
  <2>4. \A q \in Protocols : \A k \in {"connect", "close", "release", "logout"} :
          <<k, q>> \in Jobs' => <<k, q>> \in Jobs /\ q # p
    BY <1>2, <1>8
  <2>5. \A q \in Protocols : <<"login", q>> \in Jobs' => q = p \/ <<"login", q>> \in Jobs
    BY <1>8
  <2>6. \A q \in Protocols : <<"release", q>> \in scheduled => q # p
    BY <1>2 DEF Jobs
  <2> QED BY <1>1, <1>9, <2>1, <2>2, <2>3, <2>4, <2>5, <2>6 DEF JobsFit
<1>11. ProtocolsFit'
  BY <1>1, <1>9 DEF ProtocolsFit
<1>12. PointersFit'
  BY <1>1, <1>9 DEF PointersFit
<1>13. ControlFits'
  <2>1. player[p] = NoPlayer
    BY <1>1 DEF ProtocolsFit
  <2> QED BY <1>1, <1>9, <2>1 DEF ControlFits, InGame
<1>14. PlayersSuffice'
  <2>1. LoggedIn' = LoggedIn
    BY <1>1, <1>8, <1>9 DEF LoggedIn
  <2> QED BY <1>1, <2>1 DEF PlayersSuffice, Created
<1> QED BY <1>1, <1>6, <1>7, <1>10, <1>11, <1>12, <1>13, <1>14, Holding

(* The protocols that have logged in do not get fewer by other steps.      *)
LEMMA SufficeKeeps ==
  ASSUME PlayersSuffice, Created' = Created, LoggedIn \subseteq LoggedIn'
  PROVE  PlayersSuffice'
<1>1. LoggedIn' \subseteq Protocols
  BY DEF LoggedIn
<1>2. IsFiniteSet(LoggedIn') /\ IsFiniteSet(LoggedIn)
  BY <1>1, EnoughPlayers, FS_Subset
<1>3. Cardinality(LoggedIn) <= Cardinality(LoggedIn')
  BY <1>2, FS_Subset
<1>4. IsFiniteSet(Created)
  BY EnoughPlayers, FS_Subset DEF Created
<1>5. Cardinality(LoggedIn) \in Nat /\ Cardinality(LoggedIn') \in Nat /\ Cardinality(Created) \in Nat
  BY <1>2, <1>4, FS_CardinalityType
<1> QED BY <1>3, <1>5 DEF PlayersSuffice

(* Taking a task and closing a connection keeps what is listed in order.   *)
LEMMA ClosingKeeps ==
  ASSUME IInv, NEW L \in SUBSET Listed(tasks), NEW q \in Protocols,
         Listed(tasks') = L \cup (IF conn[q] = "open" THEN {<<"close", q>>} ELSE {}),
         \A p \in Protocols :
           conn'[p] = IF p = q /\ conn[p] = "open" THEN "requested" ELSE conn[p],
         UNCHANGED <<protocol, player, connecting, scheduled>>
  PROVE  JobsFit' /\ ProtocolsFit' /\ LoggedIn \subseteq LoggedIn'
<1> USE DEF IInv
<1>1. ProtocolsFit'
  BY DEF ProtocolsFit
<1>2. Jobs' \subseteq Jobs \cup (IF conn[q] = "open" THEN {<<"close", q>>} ELSE {})
  BY DEF Jobs
<1>3. conn[q] = "open" => protocol[q] = "alive" /\ <<"close", q>> \notin Jobs
  BY DEF ProtocolsFit, JobsFit
<1>4. \A e \in Jobs' : protocol[e[2]] = "alive"
  BY <1>2, <1>3 DEF JobsFit
<1>5. scheduled \cap Listed(tasks') = {}
  BY <1>3 DEF JobsFit, Jobs
<1>6. \A p \in Protocols : \A k \in {"login", "connect", "release", "logout"} :
        <<k, p>> \in Jobs' => <<k, p>> \in Jobs
  BY <1>2
<1>7. \A p \in Protocols : <<"close", p>> \in Jobs' =>
        <<"close", p>> \in Jobs \/ (p = q /\ conn[q] = "open")
  BY <1>2
<1>8. \A p \in Protocols : <<"close", p>> \in Jobs' => conn'[p] = "requested"
  <2>1. \A p \in Protocols : <<"close", p>> \in Jobs => conn[p] = "requested"
    BY DEF JobsFit
  <2> QED BY <1>7, <2>1
<1>9. \A p \in Protocols : <<"release", p>> \in Jobs' => conn'[p] = "closing"
  <2>1. \A p \in Protocols : <<"release", p>> \in Jobs => conn[p] = "closing"
    BY DEF JobsFit
  <2> QED BY <1>6, <2>1
<1>10. JobsFit'
  <2>1. \A p \in Protocols :
          /\ <<"login", p>> \in Jobs' =>
               /\ player[p] = NoPlayer /\ connecting[p] = NoPlayer
               /\ \A e \in scheduled : e[2] # p
          /\ <<"connect", p>> \in Jobs' => connecting[p] # NoPlayer
          /\ <<"release", p>> \in scheduled => <<"logout", p>> \notin Jobs'
    BY <1>6 DEF JobsFit
  <2>2. scheduled \subseteq {"connect", "release"} \X Protocols
    BY DEF JobsFit
  <2> QED BY <1>4, <1>5, <1>8, <1>9, <2>1, <2>2 DEF JobsFit
<1>11. LoggedIn \subseteq LoggedIn'
  BY <1>6 DEF LoggedIn
<1> QED BY <1>1, <1>10, <1>11

(* So does taking a task.                                                  *)
LEMMA TakingKeeps ==
  ASSUME IInv, Listed(tasks') \subseteq Listed(tasks),
         UNCHANGED <<conn, protocol, player, connecting, scheduled>>
  PROVE  JobsFit' /\ ProtocolsFit' /\ LoggedIn \subseteq LoggedIn'
<1> USE DEF IInv
<1>1. Jobs' \subseteq Jobs
  BY DEF Jobs
<1>2. JobsFit'
  BY <1>1 DEF JobsFit
<1> QED BY <1>1, <1>2 DEF ProtocolsFit, LoggedIn

LEMMA HangUpKeeps ==
  ASSUME IInv, NEW p \in Protocols, HangUp(p)
  PROVE  IInv'
<1> USE DEF IInv
<1>1. /\ Close(p, tasks)
      /\ UNCHANGED <<protocol, player, m_acceptPackets, connecting, scheduled, status, client,
                     isConnecting, refCount, checkVector, releaseThings>>
  BY DEF HangUp, playerVars, protocolVars
<1>2. tasks \in Seq(Kinds \X Protocols) /\ (<<"close", p>> \in Listed(tasks) => conn[p] = "requested")
  BY DEF TypeOK, JobsFit, Jobs
<1>3. /\ tasks' \in Seq(Kinds \X Protocols)
      /\ Ordered(tasks')
      /\ Listed(tasks') = Listed(tasks) \cup (IF conn[p] = "open" THEN {<<"close", p>>} ELSE {})
      /\ conn' \in [Protocols -> {"none", "open", "requested", "closing"}]
      /\ \A q \in Protocols :
           conn'[q] = IF q = p /\ conn[q] = "open" THEN "requested" ELSE conn[q]
  BY <1>1, <1>2, CloseEffect
<1>4. TypeOK'
  BY <1>1, <1>3 DEF TypeOK
<1>5. JobsFit' /\ ProtocolsFit' /\ LoggedIn \subseteq LoggedIn'
  BY <1>1, <1>3, ClosingKeeps
<1>6. PointersFit' /\ ControlFits' /\ Created' = Created
  BY <1>1, <1>3 DEF PointersFit, ControlFits, InGame, Created
<1> QED BY <1>1, <1>3, <1>4, <1>5, <1>6, Holding, SufficeKeeps

LEMMA ParseLogoutKeeps ==
  ASSUME IInv, NEW p \in Protocols, ParseLogout(p)
  PROVE  IInv'
<1> USE DEF IInv
<1>1. /\ conn[p] \in {"open", "requested"} /\ player[p] # NoPlayer
      /\ \A i \in DOMAIN tasks : tasks[i] # <<"logout", p>>
      /\ tasks' = Append(tasks, <<"logout", p>>)
      /\ UNCHANGED <<conn, protocol, player, m_acceptPackets, connecting, scheduled, status,
                     client, isConnecting, refCount, checkVector, releaseThings>>
  BY DEF ParseLogout, playerVars, protocolVars
<1>2. <<"logout", p>> \notin Listed(tasks)
  BY <1>1 DEF Listed
<1>3. "logout" \in Kinds /\ <<"logout", p>> \in Kinds \X Protocols
      /\ tasks \in Seq(Kinds \X Protocols)
  BY DEF Kinds, TypeOK
<1>4. tasks' \in Seq(Kinds \X Protocols) /\ Listed(tasks') = Listed(tasks) \cup {<<"logout", p>>}
  BY <1>1, <1>3, ListedAppend
<1>5. <<"release", p>> \notin Jobs
  BY <1>1 DEF JobsFit
<1>6. Ordered(tasks')
  BY <1>1, <1>2, <1>3, <1>5, OrderedAppend DEF Jobs
<1>7. TypeOK'
  BY <1>1, <1>4 DEF TypeOK
<1>8. Jobs' = Jobs \cup {<<"logout", p>>}
  BY <1>1, <1>4 DEF Jobs
<1>9. JobsFit'
  <2>1. \A e \in Jobs' : protocol[e[2]] = "alive"
    BY <1>1, <1>8 DEF JobsFit, PointersFit
  <2>2. scheduled \cap Listed(tasks') = {}
    BY <1>4 DEF JobsFit
  <2>3. \A q \in Protocols : \A k \in {"login", "connect", "close", "release"} :
          <<k, q>> \in Jobs' => <<k, q>> \in Jobs
    BY <1>8
  <2>4. \A q \in Protocols : <<"logout", q>> \in Jobs' => q = p \/ <<"logout", q>> \in Jobs
    BY <1>8
  <2>5. <<"release", p>> \notin scheduled
    BY <1>5 DEF Jobs
  <2> QED BY <1>1, <2>1, <2>2, <2>3, <2>4, <2>5 DEF JobsFit
<1>10. ProtocolsFit' /\ PointersFit' /\ ControlFits' /\ Created' = Created
  BY <1>1 DEF ProtocolsFit, PointersFit, ControlFits, InGame, Created
<1>11. LoggedIn \subseteq LoggedIn'
  BY <1>1, <1>8 DEF LoggedIn
<1> QED BY <1>1, <1>6, <1>7, <1>9, <1>10, <1>11, Holding, SufficeKeeps

LEMMA EventDueKeeps ==
  ASSUME IInv, NEW kind \in Kinds, NEW p \in Protocols, EventDue(kind, p)
  PROVE  IInv'
<1> USE DEF IInv
<1>1. /\ <<kind, p>> \in scheduled
      /\ scheduled' = scheduled \ {<<kind, p>>}
      /\ tasks' = Append(tasks, <<kind, p>>)
      /\ UNCHANGED <<conn, protocol, player, m_acceptPackets, connecting, status,
                     client, isConnecting, refCount, checkVector, releaseThings>>
  BY DEF EventDue, playerVars, protocolVars
<1>2. <<kind, p>> \notin Listed(tasks) /\ kind # "login" /\ kind # "logout"
  BY <1>1 DEF JobsFit
<1>3. <<kind, p>> \in Kinds \X Protocols /\ tasks \in Seq(Kinds \X Protocols)
  BY DEF TypeOK
<1>4. tasks' \in Seq(Kinds \X Protocols) /\ Listed(tasks') = Listed(tasks) \cup {<<kind, p>>}
  BY <1>1, <1>3, PostTask
<1>5. Ordered(tasks')
  BY <1>1, <1>2, <1>3, OrderedAppend
<1>6. TypeOK'
  BY <1>1, <1>4 DEF TypeOK
<1>7. Jobs' = Jobs
  BY <1>1, <1>4 DEF Jobs
<1>8. JobsFit'
  <2>1. scheduled' \cap Listed(tasks') = {}
    BY <1>1, <1>4 DEF JobsFit
  <2>2. scheduled' \subseteq scheduled
    BY <1>1
  <2>3. \A e \in Jobs' : protocol'[e[2]] = "alive"
    BY <1>1, <1>7 DEF JobsFit
  <2>4. \A q \in Protocols :
          /\ <<"login", q>> \in Jobs' =>
               /\ player'[q] = NoPlayer /\ connecting'[q] = NoPlayer
               /\ \A e \in scheduled' : e[2] # q
          /\ <<"release", q>> \in scheduled' => <<"logout", q>> \notin Jobs'
    BY <1>1, <1>7, <2>2 DEF JobsFit
  <2>5. \A q \in Protocols :
          /\ <<"connect", q>> \in Jobs' => connecting'[q] # NoPlayer
          /\ <<"close", q>> \in Jobs' => conn'[q] = "requested"
          /\ <<"release", q>> \in Jobs' => conn'[q] = "closing"
    BY <1>1, <1>7 DEF JobsFit
  <2> QED BY <2>1, <2>2, <2>3, <2>4, <2>5 DEF JobsFit
<1>9. ProtocolsFit' /\ PointersFit' /\ ControlFits' /\ Created' = Created
  BY <1>1 DEF ProtocolsFit, PointersFit, ControlFits, InGame, Created
<1>10. LoggedIn \subseteq LoggedIn'
  BY <1>1, <1>7 DEF LoggedIn
<1> QED BY <1>1, <1>5, <1>6, <1>8, <1>9, <1>10, Holding, SufficeKeeps
-----------------------------------------------------------------------------
(* The task that is taken is no longer listed, nor is a login of its       *)
(* protocol, nor a logout when it releases the protocol.                   *)
LEMMA Taken ==
  ASSUME IInv, NEW kind, NEW p \in Protocols, Take(kind, p)
  PROVE  /\ Tail(tasks) \in Seq(Kinds \X Protocols)
         /\ Ordered(Tail(tasks))
         /\ Listed(Tail(tasks)) = Listed(tasks) \ {<<kind, p>>}
         /\ Listed(Tail(tasks)) \subseteq Listed(tasks)
         /\ <<kind, p>> \in Listed(tasks) /\ <<kind, p>> \in Jobs /\ <<kind, p>> \notin scheduled
         /\ <<"login", p>> \notin Listed(Tail(tasks))
         /\ kind = "release" => <<"logout", p>> \notin Listed(Tail(tasks))
<1>1. tasks \in Seq(Kinds \X Protocols) /\ Ordered(tasks) /\ tasks # <<>> /\ Head(tasks) = <<kind, p>>
  BY DEF IInv, TypeOK, Take
<1>2. /\ Tail(tasks) \in Seq(Kinds \X Protocols)
      /\ Ordered(Tail(tasks))
      /\ Listed(Tail(tasks)) = Listed(tasks) \ {<<kind, p>>}
      /\ <<kind, p>> \in Listed(tasks)
      /\ <<"login", p>> \notin Listed(Tail(tasks))
      /\ kind = "release" => <<"logout", p>> \notin Listed(Tail(tasks))
  BY <1>1, OrderedTail
<1>3. <<kind, p>> \in Jobs /\ <<kind, p>> \notin scheduled
  BY <1>2 DEF IInv, JobsFit, Jobs
<1> QED BY <1>2, <1>3

LEMMA CloseTaskKeeps ==
  ASSUME IInv, NEW p \in Protocols, CloseTask(p)
  PROVE  IInv'
<1> USE DEF IInv
<1>1. /\ Take("close", p)
      /\ conn' = [conn EXCEPT ![p] = "closing"]
      /\ tasks' = Append(Tail(tasks), <<"release", p>>)
      /\ UNCHANGED <<protocol, player, m_acceptPackets, connecting, scheduled, status,
                     client, isConnecting, refCount, checkVector, releaseThings>>
  BY DEF CloseTask, playerVars, protocolVars
<1>2. /\ Tail(tasks) \in Seq(Kinds \X Protocols)
      /\ Ordered(Tail(tasks))
      /\ Listed(Tail(tasks)) = Listed(tasks) \ {<<"close", p>>}
      /\ <<"close", p>> \in Jobs /\ <<"close", p>> \notin scheduled
  BY <1>1, Taken
<1>3. conn[p] = "requested" /\ protocol[p] = "alive"
  BY <1>2 DEF JobsFit, ProtocolsFit
<1>4. <<"release", p>> \notin Jobs
  BY <1>3 DEF JobsFit
<1>5. "release" \in Kinds /\ <<"release", p>> \in Kinds \X Protocols
  BY DEF Kinds
<1>6. tasks' \in Seq(Kinds \X Protocols)
      /\ Listed(tasks') = (Listed(tasks) \ {<<"close", p>>}) \cup {<<"release", p>>}
  <2> DEFINE ts == Tail(tasks)
  <2>1. ts \in Seq(Kinds \X Protocols)
    BY <1>2
  <2> DEFINE e == <<"release", p>>
  <2>2. e \in Kinds \X Protocols
    BY <1>5
  <2> HIDE DEF ts, e
  <2>3. Append(ts, e) \in Seq(Kinds \X Protocols) /\ Listed(Append(ts, e)) = Listed(ts) \cup {e}
    BY <2>1, <2>2, ListedAppend
  <2>4. tasks' = Append(ts, e) /\ Listed(ts) = Listed(tasks) \ {<<"close", p>>}
    BY <1>1, <1>2 DEF ts, e
  <2> QED BY <2>3, <2>4 DEF e
<1>7. Ordered(tasks')
  <2>1. <<"release", p>> \notin Listed(Tail(tasks))
    BY <1>2, <1>4 DEF Jobs
  <2> QED BY <1>1, <1>2, <1>5, <2>1, OrderedAppend
<1>8. TypeOK'
  BY <1>1, <1>6 DEF TypeOK
<1>9. Jobs' = (Jobs \ {<<"close", p>>}) \cup {<<"release", p>>}
  BY <1>1, <1>2, <1>6 DEF Jobs
<1>10. \A q \in Protocols : conn'[q] = IF q = p THEN "closing" ELSE conn[q]
  BY <1>1 DEF TypeOK
<1>11. JobsFit'
  <2>1. \A e \in Jobs' : protocol[e[2]] = "alive"
    BY <1>3, <1>9 DEF JobsFit
  <2>2. scheduled \cap Listed(tasks') = {}
    BY <1>4, <1>6 DEF JobsFit, Jobs
  <2>3. \A q \in Protocols : \A k \in {"login", "connect", "close", "logout"} :
          <<k, q>> \in Jobs' => <<k, q>> \in Jobs
    BY <1>9
  <2>4. \A q \in Protocols : <<"close", q>> \in Jobs' => conn'[q] = "requested"
    <3>1. <<"close", p>> \notin Jobs'
      BY <1>9
    <3>2. \A q \in Protocols : <<"close", q>> \in Jobs => conn[q] = "requested"
      BY DEF JobsFit
    <3> QED BY <1>10, <2>3, <3>1, <3>2
  <2>5. \A q \in Protocols : <<"release", q>> \in Jobs' => conn'[q] = "closing"
    <3>1. \A q \in Protocols : <<"release", q>> \in Jobs' => q = p \/ <<"release", q>> \in Jobs
      BY <1>9
    <3>2. \A q \in Protocols : <<"release", q>> \in Jobs => conn[q] = "closing"
      BY DEF JobsFit
    <3> QED BY <1>10, <3>1, <3>2
  <2>6. \A q \in Protocols :
          /\ <<"login", q>> \in Jobs' =>
               /\ player[q] = NoPlayer /\ connecting[q] = NoPlayer
               /\ \A e \in scheduled : e[2] # q
          /\ <<"connect", q>> \in Jobs' => connecting[q] # NoPlayer
          /\ <<"release", q>> \in scheduled => <<"logout", q>> \notin Jobs'
    BY <2>3 DEF JobsFit
  <2>7. scheduled \subseteq {"connect", "release"} \X Protocols
    BY DEF JobsFit
  <2> QED BY <1>1, <2>1, <2>2, <2>4, <2>5, <2>6, <2>7 DEF JobsFit
<1>12. ProtocolsFit'
  BY <1>1, <1>10 DEF ProtocolsFit
<1>13. PointersFit' /\ ControlFits' /\ Created' = Created
  BY <1>1, <1>10 DEF PointersFit, ControlFits, InGame, Created
<1>14. LoggedIn \subseteq LoggedIn'
  BY <1>1, <1>9 DEF LoggedIn
<1> QED BY <1>1, <1>7, <1>8, <1>11, <1>12, <1>13, <1>14, Holding, SufficeKeeps

(* A replacement that is scheduled is the only one of its protocol, which  *)
(* has had nothing to do yet but to log in.                                *)
LEMMA LoginReplaceKeeps ==
  ASSUME IInv, NEW p \in Protocols, LoginReplace(p)
  PROVE  IInv'
<1> USE DEF IInv
<1>1. /\ Take("login", p)
      /\ UNCHANGED <<protocol, player, m_acceptPackets, status, client, refCount,
                     checkVector, releaseThings>>
  BY DEF LoginReplace
<1>2. /\ Tail(tasks) \in Seq(Kinds \X Protocols)
      /\ Ordered(Tail(tasks))
      /\ Listed(Tail(tasks)) \in SUBSET Listed(tasks)
      /\ <<"login", p>> \in Jobs
      /\ <<"login", p>> \notin Listed(Tail(tasks))
  BY <1>1, Taken
<1>3. PICK x \in Find :
        /\ client[x] # NoProtocol
        /\ \/ /\ Close(client[x], Tail(tasks))
              /\ isConnecting' = [isConnecting EXCEPT ![x] = TRUE]
              /\ connecting' = [connecting EXCEPT ![p] = x]
              /\ scheduled' = scheduled \cup {<<"connect", p>>}
           \/ /\ Close(p, Tail(tasks))
              /\ UNCHANGED <<isConnecting, connecting, scheduled>>
  BY DEF LoginReplace
<1>4. x \in Players /\ x # NoPlayer
  BY SessionAssumption DEF Find, InGame
<1> DEFINE Closing(q) ==
      /\ tasks' \in Seq(Kinds \X Protocols)
      /\ Ordered(tasks')
      /\ Listed(tasks') = Listed(Tail(tasks)) \cup (IF conn[q] = "open" THEN {<<"close", q>>} ELSE {})
      /\ conn' \in [Protocols -> {"none", "open", "requested", "closing"}]
      /\ \A r \in Protocols :
           conn'[r] = IF r = q /\ conn[r] = "open" THEN "requested" ELSE conn[r]
<1>5. ASSUME NEW q \in Protocols, Close(q, Tail(tasks)) PROVE Closing(q)
  <2>1. <<"close", q>> \in Listed(Tail(tasks)) => conn[q] = "requested"
    BY <1>2 DEF JobsFit, Jobs
  <2> QED BY <1>2, <1>5, <2>1, CloseEffect
<1> HIDE DEF Closing
<1>6. \A r \in Protocols : conn'[r] = "open" => conn[r] = "open"
  <2>1. client[x] \in Protocols
    BY <1>3, <1>4 DEF TypeOK
  <2>2. PICK q \in Protocols : Closing(q)
    BY <1>3, <1>5, <2>1
  <2> QED BY <2>2 DEF Closing
<1>7. PointersFit' /\ ControlFits' /\ Created' = Created
  BY <1>1, <1>6 DEF PointersFit, ControlFits, InGame, Created
<1>8. CASE /\ Close(p, Tail(tasks))
           /\ UNCHANGED <<isConnecting, connecting, scheduled>>
  <2>1. Closing(p)
    BY <1>5, <1>8
  <2>2. TypeOK'
    BY <1>1, <1>8, <2>1 DEF TypeOK, Closing
  <2>3. JobsFit' /\ ProtocolsFit' /\ LoggedIn \subseteq LoggedIn'
    BY <1>1, <1>2, <1>8, <2>1, ClosingKeeps DEF Closing
  <2> QED BY <1>1, <1>7, <2>1, <2>2, <2>3, Holding, SufficeKeeps DEF Closing
<1>9. CASE /\ Close(client[x], Tail(tasks))
           /\ isConnecting' = [isConnecting EXCEPT ![x] = TRUE]
           /\ connecting' = [connecting EXCEPT ![p] = x]
           /\ scheduled' = scheduled \cup {<<"connect", p>>}
  <2> DEFINE q == client[x]
             L == Listed(Tail(tasks))
             closing == IF conn[q] = "open" THEN {<<"close", q>>} ELSE {}
  <2>1. q \in Protocols /\ Closing(q)
    BY <1>3, <1>4, <1>5, <1>9 DEF TypeOK
  <2>2. TypeOK'
    <3>1. isConnecting' \in [Players -> BOOLEAN] /\ connecting' \in [Protocols -> Players \cup {NoPlayer}]
      BY <1>4, <1>9 DEF TypeOK
    <3>2. scheduled' \subseteq Kinds \X Protocols
      BY <1>9 DEF TypeOK, Kinds
    <3> QED BY <1>1, <2>1, <3>1, <3>2 DEF TypeOK, Closing
  <2>3. /\ player[p] = NoPlayer /\ connecting[p] = NoPlayer /\ protocol[p] = "alive"
        /\ \A e \in scheduled : e[2] # p
    BY <1>2 DEF JobsFit
  <2>4. <<"connect", p>> \notin Jobs
    BY <2>3 DEF JobsFit
  <2>5. \A r \in Protocols : connecting'[r] = IF r = p THEN x ELSE connecting[r]
    BY <1>9 DEF TypeOK
  <2>6. Listed(tasks') = L \cup closing
    BY <2>1 DEF Closing
  <2>7. conn[q] = "open" => protocol[q] = "alive" /\ <<"close", q>> \notin Jobs
    BY <2>1 DEF ProtocolsFit, JobsFit
  <2> HIDE DEF q
  <2>8. Jobs' \subseteq Jobs \cup closing \cup {<<"connect", p>>} /\ <<"login", p>> \notin Jobs'
    <3>1. L \subseteq Jobs
      BY <1>2 DEF Jobs
    <3>2. <<"login", p>> \notin scheduled
      BY DEF JobsFit
    <3> QED BY <1>2, <1>9, <2>6, <3>1, <3>2 DEF Jobs
  <2>9. JobsFit'
    <3>1. scheduled' \subseteq {"connect", "release"} \X Protocols
      BY <1>9 DEF JobsFit
    <3>2. scheduled' \cap Listed(tasks') = {}
      <4>1. <<"connect", p>> \notin L /\ L \subseteq Listed(tasks)
        BY <1>2, <2>4 DEF Jobs
      <4>2. scheduled \cap closing = {}
        BY DEF JobsFit
      <4> QED BY <1>9, <2>6, <4>1, <4>2 DEF JobsFit
    <3>3. \A e \in Jobs' : protocol[e[2]] = "alive"
      BY <2>3, <2>7, <2>8 DEF JobsFit
    <3>4. \A r \in Protocols : \A k \in {"login", "release", "logout"} :
            <<k, r>> \in Jobs' => <<k, r>> \in Jobs /\ (k = "login" => r # p)
      BY <2>8
    <3>5. \A r \in Protocols : <<"login", r>> \in Jobs' =>
            /\ player[r] = NoPlayer /\ connecting'[r] = NoPlayer
            /\ \A e \in scheduled' : e[2] # r
      <4>1. \A r \in Protocols : <<"login", r>> \in Jobs =>
              /\ player[r] = NoPlayer /\ connecting[r] = NoPlayer
              /\ \A e \in scheduled : e[2] # r
        BY DEF JobsFit
      <4>2. \A r \in Protocols : <<"login", r>> \in Jobs' => <<"login", r>> \in Jobs /\ r # p
        BY <3>4
      <4>3. \A e \in scheduled' : e \in scheduled \/ e[2] = p
        BY <1>9
      <4> QED BY <2>5, <4>1, <4>2, <4>3
    <3>6. \A r \in Protocols : <<"connect", r>> \in Jobs' => connecting'[r] # NoPlayer
      <4>1. \A r \in Protocols : <<"connect", r>> \in Jobs' => r = p \/ <<"connect", r>> \in Jobs
        BY <2>8
      <4> QED BY <1>4, <2>5, <4>1 DEF JobsFit
    <3>7. \A r \in Protocols : <<"close", r>> \in Jobs' => conn'[r] = "requested"
      <4>1. \A r \in Protocols : <<"close", r>> \in Jobs' =>
              (r = q /\ conn[r] = "open") \/ <<"close", r>> \in Jobs
        BY <2>8
      <4>2. \A r \in Protocols : <<"close", r>> \in Jobs => conn[r] = "requested"
        BY DEF JobsFit
      <4> QED BY <2>1, <4>1, <4>2 DEF Closing
    <3>8. \A r \in Protocols :
            /\ <<"release", r>> \in Jobs' => conn'[r] = "closing"
            /\ <<"release", r>> \in scheduled' => <<"logout", r>> \notin Jobs'
      <4>1. \A r \in Protocols : <<"release", r>> \in scheduled' => <<"release", r>> \in scheduled
        BY <1>9
      <4> QED BY <2>1, <3>4, <4>1 DEF JobsFit, Closing
    <3> QED BY <1>1, <3>1, <3>2, <3>3, <3>5, <3>6, <3>7, <3>8 DEF JobsFit
  <2>10. ProtocolsFit'
    BY <1>1, <2>1, <2>3, <2>5 DEF ProtocolsFit, Closing
  <2>11. LoggedIn \subseteq LoggedIn'
    BY <1>1, <2>8 DEF LoggedIn
  <2> QED BY <1>1, <1>7, <2>1, <2>2, <2>9, <2>10, <2>11, Holding, SufficeKeeps DEF Closing
<1> QED BY <1>3, <1>8, <1>9
-----------------------------------------------------------------------------
(* Removing players from the game, by a logout or a kick.                  *)

LEMMA HoldersCount ==
  ASSUME NEW x
  PROVE  IsFiniteSet(Holders(x)) /\ Cardinality(Holders(x)) \in Nat
<1>1. Holders(x) \subseteq Protocols
  BY DEF Holders
<1> QED BY <1>1, EnoughPlayers, FS_Subset, FS_CardinalityType

LEMMA RemoveKeeps ==
  ASSUME IInv, NEW X \in SUBSET InGame, Remove(X),
         UNCHANGED <<protocol, player, client, refCount, checkVector>>,
         \A p \in Protocols : conn'[p] = "open" => conn[p] = "open"
  PROVE  /\ RefsFit' /\ PointersFit' /\ ControlFits' /\ Created' = Created
         /\ status' \in [Players -> {"none", "in", "out", "deleted"}]
         /\ releaseThings' \in [Players -> Nat]
<1> USE DEF IInv
<1>1. \A x \in Players : status'[x] = IF x \in X THEN "out" ELSE status[x]
  BY DEF Remove
<1>2. \A x \in Players : releaseThings'[x] = releaseThings[x] + IF x \in X THEN 1 ELSE 0
  BY DEF Remove
<1>3. \A x \in X : x \in Players /\ status[x] = "in"
  BY DEF InGame
<1>4. /\ status' \in [Players -> {"none", "in", "out", "deleted"}]
      /\ releaseThings' \in [Players -> Nat]
  BY DEF Remove, TypeOK
<1>5. RefsFit'
  <2> SUFFICES ASSUME NEW x \in Players
               PROVE  /\ refCount[x] = (IF status'[x] = "in" THEN 1 ELSE 0)
                                       + (IF x \in checkVector THEN 1 ELSE 0)
                                       + Cardinality(Holders(x)) + releaseThings'[x]
                      /\ status'[x] \in {"none", "deleted"} =>
                           x \notin checkVector /\ releaseThings'[x] = 0
    BY DEF RefsFit, Holders
  <2>1. Cardinality(Holders(x)) \in Nat /\ releaseThings[x] \in Nat
    BY HoldersCount DEF TypeOK
  <2>2. /\ refCount[x] = (IF status[x] = "in" THEN 1 ELSE 0)
                         + (IF x \in checkVector THEN 1 ELSE 0)
                         + Cardinality(Holders(x)) + releaseThings[x]
        /\ status[x] \in {"none", "deleted"} => x \notin checkVector /\ releaseThings[x] = 0
    BY DEF RefsFit
  <2>3. CASE x \in X
    BY <1>1, <1>2, <1>3, <2>1, <2>2, <2>3
  <2>4. CASE x \notin X
    BY <1>1, <1>2, <2>1, <2>2, <2>4
  <2> QED BY <2>3, <2>4
<1>6. PointersFit'
  <2>1. \A x \in Players :
          /\ status'[x] \in {"in", "out"} <=> status[x] \in {"in", "out"}
          /\ status'[x] = "none" <=> status[x] = "none"
    BY <1>1, <1>3
  <2>2. \A p \in Protocols : player[p] # NoPlayer => player[p] \in Players
    BY DEF TypeOK
  <2> QED BY <2>1, <2>2 DEF PointersFit
<1>7. ControlFits'
  <2>1. InGame' \subseteq InGame
    BY <1>1 DEF InGame
  <2> QED BY <2>1 DEF ControlFits
<1>8. Created' = Created
  BY <1>1, <1>3 DEF Created
<1> QED BY <1>4, <1>5, <1>6, <1>7, <1>8

(* logout(), with what is left of the list.                                *)
LEMMA LogoutByKeeps ==
  ASSUME IInv, NEW p \in Protocols, NEW ts \in Seq(Kinds \X Protocols), Ordered(ts),
         Listed(ts) \subseteq Listed(tasks), LogoutBy(p, ts),
         UNCHANGED <<protocolVars, client, isConnecting, refCount, checkVector, scheduled>>
  PROVE  IInv'
<1> USE DEF IInv
<1>1. /\ Close(p, ts) /\ Remove({player[p]} \cap InGame)
      /\ UNCHANGED <<protocol, player, m_acceptPackets, connecting>>
  BY DEF LogoutBy, protocolVars
<1>2. <<"close", p>> \in Listed(ts) => conn[p] = "requested"
  BY DEF JobsFit, Jobs
<1>3. /\ tasks' \in Seq(Kinds \X Protocols)
      /\ Ordered(tasks')
      /\ Listed(tasks') = Listed(ts) \cup (IF conn[p] = "open" THEN {<<"close", p>>} ELSE {})
      /\ conn' \in [Protocols -> {"none", "open", "requested", "closing"}]
      /\ \A q \in Protocols :
           conn'[q] = IF q = p /\ conn[q] = "open" THEN "requested" ELSE conn[q]
  BY <1>1, <1>2, CloseEffect
<1>4. JobsFit' /\ ProtocolsFit' /\ LoggedIn \subseteq LoggedIn'
  BY <1>1, <1>3, ClosingKeeps
<1>5. \A q \in Protocols : conn'[q] = "open" => conn[q] = "open"
  BY <1>3
<1>6. /\ RefsFit' /\ PointersFit' /\ ControlFits' /\ Created' = Created
      /\ status' \in [Players -> {"none", "in", "out", "deleted"}]
      /\ releaseThings' \in [Players -> Nat]
  <2>1. {player[p]} \cap InGame \in SUBSET InGame
    OBVIOUS
  <2> QED BY <1>1, <1>5, <2>1, RemoveKeeps
<1>7. TypeOK'
  BY <1>1, <1>3, <1>6 DEF TypeOK
<1> QED BY <1>3, <1>4, <1>6, <1>7, SufficeKeeps

LEMMA LogoutKeeps ==
  ASSUME IInv, NEW p \in Protocols, Logout(p)
  PROVE  IInv'
<1>1. /\ Take("logout", p)
      /\ UNCHANGED <<protocolVars, client, isConnecting, refCount, checkVector, scheduled>>
  BY DEF Logout
<1>2. /\ Tail(tasks) \in Seq(Kinds \X Protocols)
      /\ Ordered(Tail(tasks))
      /\ Listed(Tail(tasks)) \subseteq Listed(tasks)
  BY <1>1, Taken
<1>3. CASE LogoutBy(p, Tail(tasks))
  BY <1>1, <1>2, <1>3, LogoutByKeeps
<1>4. CASE tasks' = Tail(tasks) /\ UNCHANGED <<conn, status, releaseThings>>
  <2> USE DEF IInv
  <2>1. TypeOK'
    BY <1>1, <1>2, <1>4 DEF TypeOK, protocolVars
  <2>2. JobsFit' /\ ProtocolsFit' /\ LoggedIn \subseteq LoggedIn'
    BY <1>1, <1>2, <1>4, TakingKeeps DEF protocolVars
  <2>3. PointersFit' /\ ControlFits' /\ Created' = Created
    BY <1>1, <1>4 DEF PointersFit, ControlFits, InGame, Created, protocolVars
  <2>4. RefsFit'
    BY <1>1, <1>4, Holding DEF protocolVars
  <2> QED BY <1>2, <1>4, <2>1, <2>2, <2>3, <2>4, SufficeKeeps
<1> QED BY <1>3, <1>4 DEF Logout

LEMMA KickKeeps ==
  ASSUME IInv, NEW x \in Players, Kick(x)
  PROVE  IInv'
<1>1. /\ x \in InGame
      /\ UNCHANGED <<protocolVars, client, isConnecting, refCount, checkVector, scheduled>>
  BY DEF Kick
<1>2. tasks \in Seq(Kinds \X Protocols) /\ Ordered(tasks)
  BY DEF IInv, TypeOK
<1>3. CASE client[x] # NoProtocol
  <2>1. client[x] \in Protocols /\ LogoutBy(client[x], tasks)
    BY <1>3 DEF Kick, IInv, TypeOK
  <2> QED BY <1>1, <1>2, <2>1, LogoutByKeeps
<1>4. CASE client[x] = NoProtocol
  <2> USE DEF IInv
  <2>1. Remove({x}) /\ UNCHANGED <<conn, tasks>>
    BY <1>4 DEF Kick
  <2>2. {x} \in SUBSET InGame /\ UNCHANGED <<protocol, player>>
    BY <1>1 DEF protocolVars
  <2>3. /\ RefsFit' /\ PointersFit' /\ ControlFits' /\ Created' = Created
        /\ status' \in [Players -> {"none", "in", "out", "deleted"}]
        /\ releaseThings' \in [Players -> Nat]
    BY <1>1, <2>1, <2>2, RemoveKeeps
  <2>4. TypeOK'
    BY <1>1, <2>1, <2>3 DEF TypeOK, protocolVars
  <2>5. JobsFit' /\ ProtocolsFit' /\ LoggedIn \subseteq LoggedIn'
    BY <1>1, <2>1, TakingKeeps DEF protocolVars
  <2> QED BY <1>2, <2>1, <2>3, <2>4, <2>5, SufficeKeeps
<1> QED BY <1>3, <1>4
-----------------------------------------------------------------------------
(* The closing handshake's release: nothing else is left for the protocol. *)

LEMMA LastJob ==
  ASSUME IInv, NEW p \in Protocols, Take("release", p), connecting[p] = NoPlayer
  PROVE  \A e \in Listed(Tail(tasks)) \cup scheduled : e[2] # p
<1> USE DEF IInv
<1>1. /\ Listed(Tail(tasks)) = Listed(tasks) \ {<<"release", p>>}
      /\ <<"release", p>> \in Jobs /\ <<"release", p>> \notin scheduled
      /\ <<"login", p>> \notin Listed(Tail(tasks))
      /\ <<"logout", p>> \notin Listed(Tail(tasks))
  BY Taken
<1>2. conn[p] = "closing"
  BY <1>1 DEF JobsFit
<1>3. <<"connect", p>> \notin Jobs /\ <<"close", p>> \notin Jobs
  BY <1>2 DEF JobsFit
<1>4. <<"login", p>> \notin scheduled /\ <<"logout", p>> \notin scheduled
  BY DEF JobsFit
<1>5. ASSUME NEW e \in Listed(Tail(tasks)) \cup scheduled, e[2] = p PROVE FALSE
  <2>1. e \in Jobs /\ e \in Kinds \X Protocols
    BY <1>1, JobTypes DEF Jobs
  <2>2. PICK k \in Kinds : e = <<k, p>>
    BY <1>5, <2>1
  <2>3. e # <<"release", p>>
    BY <1>1, <1>5
  <2> QED BY <1>1, <1>3, <1>4, <1>5, <2>1, <2>2, <2>3 DEF Kinds
<1> QED BY <1>5

LEMMA ForgetTypes ==
  ASSUME TypeOK, NEW p \in Protocols, ForgetClient(p)
  PROVE  /\ client' \in [Players -> Protocols \cup {NoProtocol}]
         /\ \A x \in Players :
              client'[x] = IF x = player[p] /\ client[x] = p THEN NoProtocol ELSE client[x]
BY DEF ForgetClient, TypeOK

LEMMA ReleaseAndDeleteKeeps ==
  ASSUME IInv, NEW p \in Protocols, ReleaseAndDelete(p)
  PROVE  IInv'
<1> USE DEF IInv
<1>1. /\ Take("release", p) /\ connecting[p] = NoPlayer /\ ForgetClient(p)
      /\ protocol' = [protocol EXCEPT ![p] = "deleted"]
      /\ player' = [player EXCEPT ![p] = NoPlayer]
      /\ releaseThings' = [x \in Players |-> releaseThings[x] + IF x = player[p] THEN 1 ELSE 0]
      /\ tasks' = Tail(tasks)
      /\ UNCHANGED <<conn, m_acceptPackets, connecting, status, isConnecting, refCount,
                     checkVector, scheduled>>
  BY DEF ReleaseAndDelete, Unreferenced
<1>2. /\ tasks' \in Seq(Kinds \X Protocols) /\ Ordered(tasks')
      /\ Listed(tasks') \subseteq Listed(tasks)
      /\ <<"release", p>> \in Jobs
  BY <1>1, Taken
<1>3. \A e \in Jobs' : e[2] # p /\ e \in Jobs
  BY <1>1, <1>2, LastJob DEF Jobs
<1>4. conn[p] = "closing"
  BY <1>2 DEF JobsFit
<1>5. \A q \in Protocols : /\ protocol'[q] = IF q = p THEN "deleted" ELSE protocol[q]
                           /\ player'[q] = IF q = p THEN NoPlayer ELSE player[q]
  BY <1>1 DEF TypeOK
<1>6. /\ client' \in [Players -> Protocols \cup {NoProtocol}]
      /\ \A x \in Players :
           client'[x] = IF x = player[p] /\ client[x] = p THEN NoProtocol ELSE client[x]
  BY <1>1, ForgetTypes
<1>7. TypeOK'
  BY <1>1, <1>2, <1>6 DEF TypeOK
<1>8. JobsFit'
  <2>1. \A e \in Jobs' : protocol'[e[2]] = "alive"
    BY <1>3, <1>5, JobTypes DEF JobsFit
  <2>2. scheduled \cap Listed(tasks') = {}
    BY <1>2 DEF JobsFit
  <2>3. \A q \in Protocols : <<"login", q>> \in Jobs' =>
          /\ player'[q] = NoPlayer /\ connecting[q] = NoPlayer
          /\ \A e \in scheduled : e[2] # q
    BY <1>3, <1>5 DEF JobsFit
  <2>4. \A q \in Protocols :
          /\ <<"connect", q>> \in Jobs' => connecting[q] # NoPlayer
          /\ <<"close", q>> \in Jobs' => conn[q] = "requested"
          /\ <<"release", q>> \in Jobs' => conn[q] = "closing"
          /\ <<"release", q>> \in scheduled => <<"logout", q>> \notin Jobs'
    BY <1>3 DEF JobsFit
  <2>5. scheduled \subseteq {"connect", "release"} \X Protocols
    BY DEF JobsFit
  <2> QED BY <1>1, <2>1, <2>2, <2>3, <2>4, <2>5 DEF JobsFit
<1>9. ProtocolsFit'
  BY <1>1, <1>4, <1>5 DEF ProtocolsFit
<1>10. PointersFit'
  <2>1. \A q \in Protocols : player'[q] # NoPlayer =>
          protocol'[q] = "alive" /\ status[player'[q]] \in {"in", "out"}
    BY <1>5 DEF PointersFit
  <2>2. ASSUME NEW x \in Players, status[x] \in {"in", "out"}, client'[x] # NoProtocol
        PROVE  player'[client'[x]] = x
    <3>1. client'[x] = client[x] /\ client[x] \in Protocols /\ player[client[x]] = x
      BY <1>6, <2>2 DEF PointersFit, TypeOK
    <3>2. client[x] # p
      BY <1>6, <2>2, <3>1
    <3> QED BY <1>5, <3>1, <3>2
  <2>3. \A x \in Players : status[x] = "none" => client'[x] = NoProtocol
    BY <1>6 DEF PointersFit
  <2> QED BY <1>1, <2>1, <2>2, <2>3 DEF PointersFit
<1>11. RefsFit'
  <2> SUFFICES ASSUME NEW x \in Players
               PROVE  /\ refCount[x] = (IF status[x] = "in" THEN 1 ELSE 0)
                                       + (IF x \in checkVector THEN 1 ELSE 0)
                                       + Cardinality(Holders(x)') + releaseThings'[x]
                      /\ status[x] \in {"none", "deleted"} =>
                           x \notin checkVector /\ releaseThings'[x] = 0
    BY <1>1 DEF RefsFit, Holders
  <2>1. Cardinality(Holders(x)) \in Nat /\ releaseThings[x] \in Nat /\ IsFiniteSet(Holders(x))
    BY HoldersCount DEF TypeOK
  <2>2. /\ refCount[x] = (IF status[x] = "in" THEN 1 ELSE 0)
                         + (IF x \in checkVector THEN 1 ELSE 0)
                         + Cardinality(Holders(x)) + releaseThings[x]
        /\ status[x] \in {"none", "deleted"} => x \notin checkVector /\ releaseThings[x] = 0
    BY DEF RefsFit
  <2>3. x # NoPlayer
    BY SessionAssumption
  <2>4. Holders(x)' = Holders(x) \ {p}
    BY <1>5, <2>3 DEF Holders
  <2>5. CASE x = player[p]
    <3>1. p \in Holders(x) /\ status[x] \in {"in", "out"}
      BY <2>3, <2>5 DEF Holders, PointersFit
    <3>2. Cardinality(Holders(x)') = Cardinality(Holders(x)) - 1
      BY <2>1, <2>4, <3>1, FS_RemoveElement
    <3>3. releaseThings'[x] = releaseThings[x] + 1
      BY <1>1, <2>5
    <3> QED BY <2>1, <2>2, <3>1, <3>2, <3>3
  <2>6. CASE x # player[p]
    <3>1. Holders(x)' = Holders(x)
      BY <2>4, <2>6 DEF Holders
    <3>2. releaseThings'[x] = releaseThings[x]
      BY <1>1, <2>1, <2>6
    <3> QED BY <2>2, <3>1, <3>2
  <2> QED BY <2>5, <2>6
<1>12. ControlFits'
  <2>1. ASSUME NEW q \in Protocols, player'[q] # NoPlayer, conn[q] = "open"
        PROVE  client'[player'[q]] = q
    <3>1. q # p /\ player'[q] = player[q] /\ player[q] \in Players
      BY <1>5, <2>1 DEF TypeOK
    <3>2. client[player[q]] = q
      BY <2>1, <3>1 DEF ControlFits
    <3> QED BY <1>6, <3>1, <3>2
  <2> QED BY <1>1, <2>1 DEF ControlFits, InGame
<1>13. Created' = Created
  BY <1>1 DEF Created
<1>14. LoggedIn \subseteq LoggedIn'
  BY <1>3, <1>5 DEF LoggedIn
<1> QED BY <1>2, <1>7, <1>8, <1>9, <1>10, <1>11, <1>12, <1>13, <1>14, SufficeKeeps

LEMMA ReleaseLaterKeeps ==
  ASSUME IInv, NEW p \in Protocols, ReleaseLater(p)
  PROVE  IInv'
<1> USE DEF IInv
<1>1. /\ Take("release", p) /\ ForgetClient(p)
      /\ scheduled' = scheduled \cup {<<"release", p>>}
      /\ tasks' = Tail(tasks)
      /\ UNCHANGED <<conn, protocol, player, m_acceptPackets, connecting, status, isConnecting,
                     refCount, checkVector, releaseThings>>
  BY DEF ReleaseLater, protocolVars
<1>2. /\ tasks' \in Seq(Kinds \X Protocols) /\ Ordered(tasks')
      /\ Listed(tasks') = Listed(tasks) \ {<<"release", p>>}
      /\ <<"release", p>> \in Jobs
      /\ <<"login", p>> \notin Listed(tasks')
      /\ <<"logout", p>> \notin Listed(tasks')
  BY <1>1, Taken
<1>3. Jobs' = Jobs
  <2>1. Jobs' = (Listed(tasks) \ {<<"release", p>>}) \cup (scheduled \cup {<<"release", p>>})
    BY <1>1, <1>2 DEF Jobs
  <2> QED BY <1>2, <2>1 DEF Jobs
<1>4. /\ client' \in [Players -> Protocols \cup {NoProtocol}]
      /\ \A x \in Players :
           client'[x] = IF x = player[p] /\ client[x] = p THEN NoProtocol ELSE client[x]
  BY <1>1, ForgetTypes
<1>5. conn[p] = "closing"
  BY <1>2 DEF JobsFit
<1>6. TypeOK'
  <2>1. scheduled' \subseteq Kinds \X Protocols
    BY <1>1 DEF TypeOK, Kinds
  <2> QED BY <1>1, <1>2, <1>4, <2>1 DEF TypeOK
<1>7. JobsFit'
  <2>1. scheduled' \subseteq {"connect", "release"} \X Protocols
    BY <1>1 DEF JobsFit
  <2>2. scheduled' \cap Listed(tasks') = {}
    BY <1>1, <1>2 DEF JobsFit
  <2>3. <<"login", p>> \notin Jobs' /\ <<"logout", p>> \notin Jobs'
    BY <1>1, <1>2, <2>1 DEF Jobs
  <2>4. \A q \in Protocols :
          <<"release", q>> \in scheduled' => <<"logout", q>> \notin Jobs'
    <3>1. \A q \in Protocols : <<"release", q>> \in scheduled' => q = p \/ <<"release", q>> \in scheduled
      BY <1>1
    <3>2. \A q \in Protocols : <<"release", q>> \in scheduled => <<"logout", q>> \notin Jobs
      BY DEF JobsFit
    <3> QED BY <1>3, <2>3, <3>1, <3>2
  <2>5. \A q \in Protocols : <<"login", q>> \in Jobs' =>
          /\ player[q] = NoPlayer /\ connecting[q] = NoPlayer
          /\ \A e \in scheduled' : e[2] # q
    <3>1. \A e \in scheduled' : e \in scheduled \/ e[2] = p
      BY <1>1
    <3>2. \A q \in Protocols : <<"login", q>> \in Jobs =>
          /\ player[q] = NoPlayer /\ connecting[q] = NoPlayer
          /\ \A e \in scheduled : e[2] # q
      BY DEF JobsFit
    <3> QED BY <1>3, <2>3, <3>1, <3>2
  <2>6. \A e \in Jobs' : protocol'[e[2]] = "alive"
    BY <1>1, <1>3 DEF JobsFit
  <2>7. \A q \in Protocols :
          /\ <<"connect", q>> \in Jobs' => connecting'[q] # NoPlayer
          /\ <<"close", q>> \in Jobs' => conn'[q] = "requested"
          /\ <<"release", q>> \in Jobs' => conn'[q] = "closing"
    BY <1>1, <1>3 DEF JobsFit
  <2> QED BY <1>1, <2>1, <2>2, <2>4, <2>5, <2>6, <2>7 DEF JobsFit
<1>8. PointersFit'
  BY <1>1, <1>4 DEF PointersFit
<1>9. ControlFits'
  <2>1. ASSUME NEW q \in Protocols, player[q] # NoPlayer, conn[q] = "open"
        PROVE  client'[player[q]] = q
    <3>1. q # p /\ player[q] \in Players
      BY <1>5, <2>1 DEF TypeOK
    <3>2. client[player[q]] = q
      BY <2>1, <3>1 DEF ControlFits
    <3> QED BY <1>4, <3>1, <3>2
  <2> QED BY <1>1, <2>1 DEF ControlFits, InGame
<1>10. ProtocolsFit' /\ Created' = Created
  BY <1>1 DEF ProtocolsFit, Created
<1>11. LoggedIn \subseteq LoggedIn'
  BY <1>1, <1>3 DEF LoggedIn
<1> QED BY <1>1, <1>2, <1>6, <1>7, <1>8, <1>9, <1>10, <1>11, Holding, SufficeKeeps
-----------------------------------------------------------------------------
(* cleanup() deletes a player only when no protocol points to it: what is  *)
(* dropped besides releaseThings are the references of the map, of those   *)
(* removed now, and of the check vector, of those removed before.          *)
LEMMA CheckEffect ==
  ASSUME IInv, NEW turn \in SUBSET checkVector, NEW gone \in SUBSET InGame,
         CheckCreatures(turn, gone),
         \A p \in Protocols : conn'[p] = "open" => conn[p] = "open"
  PROVE  /\ RefsFit' /\ PointersFit' /\ ControlFits' /\ Created' = Created
         /\ status' \in [Players -> {"none", "in", "out", "deleted"}]
         /\ refCount' \in [Players -> Nat]
         /\ releaseThings' \in [Players -> Nat]
         /\ checkVector' \subseteq Players
<1> USE DEF IInv
<1> DEFINE drop(x) == releaseThings[x] + (IF x \in gone THEN 1 ELSE 0)
                        + (IF x \in Freed(turn) THEN 1 ELSE 0)
<1>1. /\ refCount' = [x \in Players |-> refCount[x] - drop(x)]
      /\ checkVector' = checkVector \ {x \in turn : status[x] # "in"}
      /\ releaseThings' = [x \in Players |-> 0]
      /\ status' = [x \in Players |->
           IF status[x] = "none" THEN "none"
           ELSE IF refCount[x] <= drop(x) THEN "deleted"
           ELSE IF x \in gone THEN "out" ELSE status[x]]
      /\ UNCHANGED <<protocol, player, client>>
  BY DEF CheckCreatures, protocolVars
<1>2. \A x \in Players :
        /\ refCount'[x] = refCount[x] - drop(x)
        /\ releaseThings'[x] = 0
        /\ status'[x] = IF status[x] = "none" THEN "none"
                        ELSE IF refCount[x] <= drop(x) THEN "deleted"
                        ELSE IF x \in gone THEN "out" ELSE status[x]
  BY <1>1
<1>3. \A x \in Players :
        /\ x \in checkVector' <=> x \in checkVector /\ x \notin Freed(turn)
        /\ x \in Freed(turn) => x \in checkVector /\ status[x] # "in"
        /\ x \in gone => status[x] = "in"
  BY <1>1 DEF Freed, InGame
<1> HIDE DEF drop
<1>4. ASSUME NEW x \in Players
      PROVE  /\ drop(x) \in Nat /\ refCount[x] \in Nat
             /\ refCount[x] - drop(x) =
                  (IF status[x] = "in" /\ x \notin gone THEN 1 ELSE 0)
                  + (IF x \in checkVector' THEN 1 ELSE 0) + Cardinality(Holders(x))
             /\ refCount[x] - drop(x) \in Nat
             /\ Cardinality(Holders(x)) \in Nat
             /\ status[x] = "none" => x \notin checkVector
             /\ refCount[x] <= drop(x) =>
                  /\ Holders(x) = {} /\ x \notin checkVector'
                  /\ refCount[x] = drop(x)
  <2>1. Cardinality(Holders(x)) \in Nat /\ releaseThings[x] \in Nat /\ refCount[x] \in Nat
        /\ IsFiniteSet(Holders(x))
    BY HoldersCount DEF TypeOK
  <2>2. /\ refCount[x] = (IF status[x] = "in" THEN 1 ELSE 0)
                         + (IF x \in checkVector THEN 1 ELSE 0)
                         + Cardinality(Holders(x)) + releaseThings[x]
        /\ status[x] \in {"none", "deleted"} => x \notin checkVector /\ releaseThings[x] = 0
    BY DEF RefsFit
  <2>3. drop(x) \in Nat
    BY <2>1 DEF drop
  <2>4. refCount[x] - drop(x) =
          (IF status[x] = "in" /\ x \notin gone THEN 1 ELSE 0)
          + (IF x \in checkVector' THEN 1 ELSE 0) + Cardinality(Holders(x))
    BY <1>3, <2>1, <2>2 DEF drop
  <2>5. refCount[x] - drop(x) \in Nat
    BY <2>1, <2>4
  <2>6. refCount[x] <= drop(x) =>
          Cardinality(Holders(x)) = 0 /\ x \notin checkVector' /\ refCount[x] = drop(x)
    BY <2>1, <2>3, <2>4
  <2>7. refCount[x] <= drop(x) => Holders(x) = {}
    BY <2>1, <2>6, FS_EmptySet
  <2> QED BY <2>1, <2>2, <2>3, <2>4, <2>5, <2>6, <2>7
<1>5. /\ status' \in [Players -> {"none", "in", "out", "deleted"}]
      /\ refCount' \in [Players -> Nat]
      /\ releaseThings' \in [Players -> Nat]
      /\ checkVector' \subseteq Players
  BY <1>1, <1>4 DEF TypeOK
<1>6. \A x \in Players :
        /\ status'[x] = "none" <=> status[x] = "none"
        /\ status'[x] \in {"in", "out"} => status[x] \in {"in", "out"}
        /\ status'[x] = "in" => status[x] = "in" /\ x \notin gone
        /\ status[x] = "in" /\ x \notin gone => status'[x] \in {"in", "deleted"}
  <2>1. status \in [Players -> {"none", "in", "out", "deleted"}]
    BY DEF TypeOK
  <2> QED BY <1>2, <1>3, <2>1
<1>7. RefsFit'
  <2> SUFFICES ASSUME NEW x \in Players
               PROVE  /\ refCount'[x] = (IF status'[x] = "in" THEN 1 ELSE 0)
                                       + (IF x \in checkVector' THEN 1 ELSE 0)
                                       + Cardinality(Holders(x)) + releaseThings'[x]
                      /\ status'[x] \in {"none", "deleted"} =>
                           x \notin checkVector' /\ releaseThings'[x] = 0
    BY <1>1 DEF RefsFit, Holders
  <2>1. status'[x] = "deleted" => x \notin checkVector'
    <3>1. CASE refCount[x] <= drop(x)
      BY <1>4, <3>1
    <3>2. CASE ~(refCount[x] <= drop(x))
      <4>1. status'[x] = "deleted" => status[x] = "deleted"
        BY <1>2, <3>2
      <4> QED BY <1>3, <4>1 DEF RefsFit
    <3> QED BY <3>1, <3>2
  <2>2. (IF status'[x] = "in" THEN 1 ELSE 0) = (IF status[x] = "in" /\ x \notin gone THEN 1 ELSE 0)
    <3>1. CASE status[x] = "in" /\ x \notin gone
      <4>1. ~(refCount[x] <= drop(x))
        BY <1>4, <3>1
      <4> QED BY <1>2, <3>1, <4>1
    <3>2. CASE ~(status[x] = "in" /\ x \notin gone)
      BY <1>6, <3>2
    <3> QED BY <3>1, <3>2
  <2>3. refCount'[x] = (IF status'[x] = "in" THEN 1 ELSE 0)
                       + (IF x \in checkVector' THEN 1 ELSE 0) + Cardinality(Holders(x))
    BY <1>2, <1>4, <2>2
  <2>4. status'[x] = "none" => x \notin checkVector'
    BY <1>3, <1>4, <1>6
  <2> QED BY <1>2, <1>4, <2>1, <2>3, <2>4
<1>8. PointersFit'
  <2>1. ASSUME NEW p \in Protocols, player[p] # NoPlayer
        PROVE  protocol[p] = "alive" /\ status'[player[p]] \in {"in", "out"}
    <3>1. player[p] \in Players /\ p \in Holders(player[p])
          /\ protocol[p] = "alive" /\ status[player[p]] \in {"in", "out"}
      BY <2>1 DEF TypeOK, Holders, PointersFit
    <3>2. ~(refCount[player[p]] <= drop(player[p]))
      BY <1>4, <3>1
    <3> QED BY <1>2, <3>1, <3>2
  <2> QED BY <1>1, <1>6, <2>1 DEF PointersFit
<1>9. ControlFits'
  <2>1. InGame' \subseteq InGame
    BY <1>6 DEF InGame
  <2> QED BY <1>1, <2>1 DEF ControlFits
<1>10. Created' = Created
  BY <1>6 DEF Created
<1> QED BY <1>5, <1>7, <1>8, <1>9, <1>10

LEMMA CheckKeeps ==
  ASSUME IInv, Check
  PROVE  IInv'
<1> USE DEF IInv
<1>1. PICK turn \in SUBSET checkVector : Think(turn) \/ \E x \in Players : Die(turn, x) \/ PongTimeout(turn, x)
  BY DEF Check
<1>2. ASSUME NEW gone \in SUBSET InGame, CheckCreatures(turn, gone), UNCHANGED <<conn, tasks>>
      PROVE  IInv'
  <2>1. UNCHANGED <<protocol, player, m_acceptPackets, connecting, client, isConnecting, scheduled>>
    BY <1>2 DEF CheckCreatures, protocolVars
  <2>2. /\ RefsFit' /\ PointersFit' /\ ControlFits' /\ Created' = Created
        /\ status' \in [Players -> {"none", "in", "out", "deleted"}]
        /\ refCount' \in [Players -> Nat]
        /\ releaseThings' \in [Players -> Nat]
        /\ checkVector' \subseteq Players
    BY <1>2, CheckEffect
  <2>3. TypeOK'
    BY <1>2, <2>1, <2>2 DEF TypeOK
  <2>4. JobsFit' /\ ProtocolsFit' /\ LoggedIn \subseteq LoggedIn'
    BY <1>2, <2>1, TakingKeeps
  <2> QED BY <1>2, <2>2, <2>3, <2>4, SufficeKeeps
<1>3. ASSUME NEW gone \in SUBSET InGame, CheckCreatures(turn, gone),
             NEW q \in Protocols, Close(q, tasks)
      PROVE  IInv'
  <2>1. UNCHANGED <<protocol, player, m_acceptPackets, connecting, client, isConnecting, scheduled>>
    BY <1>3 DEF CheckCreatures, protocolVars
  <2>2. tasks \in Seq(Kinds \X Protocols) /\ (<<"close", q>> \in Listed(tasks) => conn[q] = "requested")
    BY DEF TypeOK, JobsFit, Jobs
  <2>3. /\ tasks' \in Seq(Kinds \X Protocols)
        /\ Ordered(tasks')
        /\ Listed(tasks') = Listed(tasks) \cup (IF conn[q] = "open" THEN {<<"close", q>>} ELSE {})
        /\ conn' \in [Protocols -> {"none", "open", "requested", "closing"}]
        /\ \A p \in Protocols :
             conn'[p] = IF p = q /\ conn[p] = "open" THEN "requested" ELSE conn[p]
    BY <1>3, <2>2, CloseEffect
  <2>4. \A p \in Protocols : conn'[p] = "open" => conn[p] = "open"
    BY <2>3
  <2>5. /\ RefsFit' /\ PointersFit' /\ ControlFits' /\ Created' = Created
        /\ status' \in [Players -> {"none", "in", "out", "deleted"}]
        /\ refCount' \in [Players -> Nat]
        /\ releaseThings' \in [Players -> Nat]
        /\ checkVector' \subseteq Players
    BY <1>3, <2>4, CheckEffect
  <2>6. TypeOK'
    BY <2>1, <2>3, <2>5 DEF TypeOK
  <2>7. JobsFit' /\ ProtocolsFit' /\ LoggedIn \subseteq LoggedIn'
    BY <2>1, <2>3, ClosingKeeps
  <2> QED BY <2>3, <2>5, <2>6, <2>7, SufficeKeeps
<1>4. CASE Think(turn)
  <2>1. {} \in SUBSET InGame /\ CheckCreatures(turn, {}) /\ UNCHANGED <<conn, tasks>>
    BY <1>4 DEF Think
  <2> QED BY <1>2, <2>1
<1>5. ASSUME NEW x \in Players, Die(turn, x) PROVE IInv'
  <2>1. {x} \in SUBSET InGame /\ CheckCreatures(turn, {x}) /\ UNCHANGED <<conn, tasks>>
    BY <1>5 DEF Die
  <2> QED BY <1>2, <2>1
<1>6. ASSUME NEW x \in Players, PongTimeout(turn, x) PROVE IInv'
  <2>1. {x} \in SUBSET InGame /\ CheckCreatures(turn, {x})
    BY <1>6 DEF PongTimeout
  <2>2. CASE client[x] = NoProtocol
    BY <1>2, <1>6, <2>1, <2>2 DEF PongTimeout
  <2>3. CASE client[x] # NoProtocol
    <3>1. client[x] \in Protocols /\ Close(client[x], tasks)
      BY <1>6, <2>3 DEF PongTimeout, TypeOK
    <3> QED BY <1>3, <2>1, <3>1
  <2> QED BY <2>2, <2>3
<1> QED BY <1>1, <1>4, <1>5, <1>6
-----------------------------------------------------------------------------
(* A protocol gets its player, or is closed, by its login or its connect.  *)

(* What its task may do to the jobs.                                       *)
LEMMA AttachKeeps ==
  ASSUME IInv, NEW p \in Protocols, NEW L \in SUBSET Listed(tasks),
         <<"login", p>> \notin L, <<"connect", p>> \notin L \cup scheduled,
         protocol[p] = "alive", connecting'[p] = NoPlayer,
         Listed(tasks') = L \/
           (conn[p] = "open" /\ conn'[p] = "requested" /\ Listed(tasks') = L \cup {<<"close", p>>}),
         \A r \in Protocols : conn'[r] = conn[r] \/ (conn[r] = "open" /\ conn'[r] = "requested"),
         UNCHANGED <<protocol, scheduled>>,
         \A r \in Protocols \ {p} : player'[r] = player[r] /\ connecting'[r] = connecting[r]
  PROVE  JobsFit' /\ ProtocolsFit' /\ LoggedIn \subseteq LoggedIn' /\ p \in LoggedIn'
<1> USE DEF IInv
<1>1. ProtocolsFit'
  BY DEF ProtocolsFit
<1>2. Jobs' \subseteq L \cup scheduled \cup {<<"close", p>>} /\ L \subseteq Jobs /\ scheduled \subseteq Jobs
  BY DEF Jobs
<1>3. \A q \in Protocols : \A k \in {"login", "connect", "release", "logout"} :
        <<k, q>> \in Jobs' => <<k, q>> \in L \cup scheduled /\ <<k, q>> \in Jobs
  BY <1>2
<1>4. <<"login", p>> \notin Jobs' /\ <<"connect", p>> \notin Jobs'
  <2>1. <<"login", p>> \notin scheduled
    BY DEF JobsFit
  <2> QED BY <1>3, <2>1
<1>5. \A e \in Jobs' : protocol'[e[2]] = "alive"
  <2>1. \A e \in Jobs : protocol[e[2]] = "alive"
    BY DEF JobsFit
  <2> QED BY <1>2, <2>1
<1>6. \A q \in Protocols : <<"close", q>> \in Jobs => conn[q] = "requested"
  BY DEF JobsFit
<1>7. scheduled \cap Listed(tasks') = {}
  <2>1. <<"close", p>> \notin scheduled
    BY DEF JobsFit
  <2> QED BY <2>1 DEF JobsFit
<1>8. \A q \in Protocols : <<"close", q>> \in Jobs' => conn'[q] = "requested"
  <2>1. \A q \in Protocols : <<"close", q>> \in Jobs' =>
          <<"close", q>> \in Jobs \/ (q = p /\ conn'[p] = "requested")
    BY DEF Jobs
  <2> QED BY <1>6, <2>1
<1>9. \A q \in Protocols : <<"login", q>> \in Jobs' =>
        /\ player'[q] = NoPlayer /\ connecting'[q] = NoPlayer
        /\ \A e \in scheduled' : e[2] # q
  <2>1. \A q \in Protocols : <<"login", q>> \in Jobs =>
          /\ player[q] = NoPlayer /\ connecting[q] = NoPlayer
          /\ \A e \in scheduled : e[2] # q
    BY DEF JobsFit
  <2> QED BY <1>3, <1>4, <2>1
<1>10. \A q \in Protocols : <<"connect", q>> \in Jobs' => connecting'[q] # NoPlayer
  <2>1. \A q \in Protocols : <<"connect", q>> \in Jobs => connecting[q] # NoPlayer
    BY DEF JobsFit
  <2> QED BY <1>3, <1>4, <2>1
<1>11. \A q \in Protocols :
         /\ <<"release", q>> \in Jobs' => conn'[q] = "closing"
         /\ <<"release", q>> \in scheduled' => <<"logout", q>> \notin Jobs'
  <2>1. \A q \in Protocols :
          /\ <<"release", q>> \in Jobs => conn[q] = "closing"
          /\ <<"release", q>> \in scheduled => <<"logout", q>> \notin Jobs
    BY DEF JobsFit
  <2> QED BY <1>3, <2>1
<1>12. scheduled' \subseteq {"connect", "release"} \X Protocols
  BY DEF JobsFit
<1>13. JobsFit'
  BY <1>5, <1>7, <1>8, <1>9, <1>10, <1>11, <1>12 DEF JobsFit
<1>14. LoggedIn \subseteq LoggedIn' /\ p \in LoggedIn'
  BY <1>3, <1>4 DEF LoggedIn
<1> QED BY <1>1, <1>13, <1>14

(* The tasks left and the connection, when the task closes it or not.      *)
LEMMA AttachList ==
  ASSUME IInv, NEW kind \in {"login", "connect"}, NEW p \in Protocols, Take(kind, p),
         Close(p, Tail(tasks)) \/ (tasks' = Tail(tasks) /\ UNCHANGED conn)
  PROVE  /\ tasks' \in Seq(Kinds \X Protocols) /\ Ordered(tasks')
         /\ conn' \in [Protocols -> {"none", "open", "requested", "closing"}]
         /\ Listed(tasks') = Listed(Tail(tasks)) \/
              (conn[p] = "open" /\ conn'[p] = "requested"
                 /\ Listed(tasks') = Listed(Tail(tasks)) \cup {<<"close", p>>})
         /\ \A r \in Protocols : conn'[r] = conn[r] \/ (conn[r] = "open" /\ conn'[r] = "requested")
<1> USE DEF IInv
<1>1. /\ Tail(tasks) \in Seq(Kinds \X Protocols)
      /\ Ordered(Tail(tasks))
      /\ Listed(Tail(tasks)) \subseteq Listed(tasks)
  BY Taken
<1>2. CASE tasks' = Tail(tasks) /\ UNCHANGED conn
  BY <1>1, <1>2 DEF TypeOK
<1>3. CASE Close(p, Tail(tasks))
  <2>1. <<"close", p>> \in Listed(Tail(tasks)) => conn[p] = "requested"
    BY <1>1 DEF JobsFit, Jobs
  <2>2. /\ tasks' \in Seq(Kinds \X Protocols)
        /\ Ordered(tasks')
        /\ Listed(tasks') = Listed(Tail(tasks)) \cup
             (IF conn[p] = "open" THEN {<<"close", p>>} ELSE {})
        /\ conn' \in [Protocols -> {"none", "open", "requested", "closing"}]
        /\ \A q \in Protocols :
             conn'[q] = IF q = p /\ conn[q] = "open" THEN "requested" ELSE conn[q]
    BY <1>1, <1>3, <2>1, CloseEffect
  <2> QED BY <2>2
<1> QED BY <1>2, <1>3

(* A Player object is left for every login, as each login makes one.       *)
LEMMA PlayerIsLeft ==
  ASSUME IInv, NEW p \in Protocols, <<"login", p>> \in Jobs
  PROVE  \E x \in Players : status[x] = "none"
<1>1. LoggedIn \subseteq Protocols /\ p \notin LoggedIn
  BY DEF LoggedIn
<1>2. IsFiniteSet(LoggedIn) /\ Cardinality(LoggedIn) <= Cardinality(Protocols)
      /\ Cardinality(LoggedIn) # Cardinality(Protocols)
  <2>1. LoggedIn # Protocols /\ IsFiniteSet(Protocols)
    BY <1>1, EnoughPlayers
  <2> QED BY <1>1, <2>1, FS_Subset
<1>3. SUFFICES ASSUME Created = Players PROVE FALSE
  BY DEF Created
<1>4. Cardinality(Players) <= Cardinality(LoggedIn)
  BY <1>3 DEF IInv, PlayersSuffice
<1>5. Cardinality(LoggedIn) \in Nat /\ Cardinality(Protocols) \in Nat /\ Cardinality(Players) \in Nat
  BY <1>2, EnoughPlayers, FS_CardinalityType
<1> QED BY <1>2, <1>4, <1>5, EnoughPlayers

(* The player made by a login: nobody held it before.                      *)
LEMMA LoginNewKeeps ==
  ASSUME IInv, NEW p \in Protocols, LoginNew(p)
  PROVE  IInv'
<1> USE DEF IInv
<1> DEFINE x == CHOOSE y \in Players : status[y] = "none"
<1>1. Take("login", p) /\ Find = {} /\ UNCHANGED <<protocol, connecting, isConnecting, scheduled>>
  BY DEF LoginNew
<1>2. /\ Listed(Tail(tasks)) \subseteq Listed(tasks)
      /\ <<"login", p>> \in Jobs
      /\ <<"login", p>> \notin Listed(Tail(tasks))
  BY <1>1, Taken
<1>3. x \in Players /\ status[x] = "none" /\ x # NoPlayer
  BY <1>2, PlayerIsLeft, SessionAssumption
<1> HIDE DEF x
<1>4. PICK where \in {"in", "out"} :
        /\ player' = [player EXCEPT ![p] = x]
        /\ client' = [client EXCEPT ![x] = p]
        /\ status' = [status EXCEPT ![x] = where]
        /\ \/ /\ where = "out"
              /\ refCount' = [refCount EXCEPT ![x] = 1]
              /\ UNCHANGED <<checkVector, m_acceptPackets, releaseThings>>
           \/ /\ where = "in"
              /\ refCount' = [refCount EXCEPT ![x] = 3]
              /\ checkVector' = checkVector \cup {x}
              /\ m_acceptPackets' = [m_acceptPackets EXCEPT ![p] = TRUE]
              /\ UNCHANGED releaseThings
           \/ /\ where = "out"
              /\ refCount' = [refCount EXCEPT ![x] = 3]
              /\ checkVector' = checkVector \cup {x}
              /\ m_acceptPackets' = [m_acceptPackets EXCEPT ![p] = TRUE]
              /\ releaseThings' = [releaseThings EXCEPT ![x] = 1]
        /\ Close(p, Tail(tasks)) \/ (tasks' = Tail(tasks) /\ UNCHANGED conn)
  BY DEF LoginNew, x
<1>5. /\ player[p] = NoPlayer /\ connecting[p] = NoPlayer /\ protocol[p] = "alive"
      /\ <<"connect", p>> \notin Jobs
  <2>1. player[p] = NoPlayer /\ connecting[p] = NoPlayer /\ protocol[p] = "alive"
    BY <1>2 DEF JobsFit
  <2> QED BY <2>1 DEF JobsFit
<1>6. /\ tasks' \in Seq(Kinds \X Protocols) /\ Ordered(tasks')
      /\ conn' \in [Protocols -> {"none", "open", "requested", "closing"}]
      /\ Listed(tasks') = Listed(Tail(tasks)) \/
           (conn[p] = "open" /\ conn'[p] = "requested"
              /\ Listed(tasks') = Listed(Tail(tasks)) \cup {<<"close", p>>})
      /\ \A r \in Protocols : conn'[r] = conn[r] \/ (conn[r] = "open" /\ conn'[r] = "requested")
  BY <1>1, <1>4, AttachList
<1>7. TypeOK'
  <2>1. /\ status' \in [Players -> {"none", "in", "out", "deleted"}]
        /\ player' \in [Protocols -> Players \cup {NoPlayer}]
        /\ client' \in [Players -> Protocols \cup {NoProtocol}]
    BY <1>3, <1>4 DEF TypeOK
  <2>2. /\ refCount' \in [Players -> Nat]
        /\ checkVector' \subseteq Players
        /\ releaseThings' \in [Players -> Nat]
    BY <1>3, <1>4 DEF TypeOK
  <2>3. m_acceptPackets' \in [Protocols -> BOOLEAN]
    BY <1>4 DEF TypeOK
  <2> QED BY <1>1, <1>6, <2>1, <2>2, <2>3 DEF TypeOK
<1>8. \A y \in Players : /\ status'[y] = IF y = x THEN where ELSE status[y]
                         /\ client'[y] = IF y = x THEN p ELSE client[y]
  BY <1>4 DEF TypeOK
<1>9. \A q \in Protocols : player'[q] = IF q = p THEN x ELSE player[q]
  BY <1>4 DEF TypeOK
<1>10. JobsFit' /\ ProtocolsFit' /\ LoggedIn \subseteq LoggedIn' /\ p \in LoggedIn'
  <2>1. <<"connect", p>> \notin Listed(Tail(tasks)) \cup scheduled
    BY <1>2, <1>5 DEF Jobs
  <2>2. connecting'[p] = NoPlayer /\ \A r \in Protocols \ {p} :
          player'[r] = player[r] /\ connecting'[r] = connecting[r]
    BY <1>1, <1>5, <1>9
  <2>3. Listed(Tail(tasks)) \in SUBSET Listed(tasks) /\ UNCHANGED <<protocol, scheduled>>
    BY <1>1, <1>2
  <2> QED BY <1>2, <1>5, <1>6, <2>1, <2>2, <2>3, AttachKeeps
<1>11. \A q \in Protocols : player[q] # x
  BY <1>3 DEF PointersFit
<1>12. PointersFit'
  <2>1. \A q \in Protocols : player'[q] # NoPlayer =>
          protocol'[q] = "alive" /\ status'[player'[q]] \in {"in", "out"}
    <3>1. \A q \in Protocols : player[q] # NoPlayer => player[q] \in Players /\ player[q] # x
      BY <1>11 DEF TypeOK
    <3> QED BY <1>1, <1>3, <1>5, <1>8, <1>9, <3>1 DEF PointersFit
  <2>2. ASSUME NEW y \in Players, status'[y] \in {"in", "out"}, client'[y] # NoProtocol
        PROVE  player'[client'[y]] = y
    <3>1. CASE y = x
      BY <1>8, <1>9, <3>1
    <3>2. CASE y # x
      <4>1. client'[y] = client[y] /\ client[y] \in Protocols /\ player[client[y]] = y
        BY <1>8, <2>2, <3>2 DEF PointersFit, TypeOK
      <4>2. y # NoPlayer
        BY SessionAssumption
      <4>3. client[y] # p
        BY <1>5, <4>1, <4>2
      <4> QED BY <1>9, <4>1, <4>3
    <3> QED BY <3>1, <3>2
  <2>3. \A y \in Players : status'[y] = "none" => client'[y] = NoProtocol
    BY <1>8 DEF PointersFit
  <2> QED BY <2>1, <2>2, <2>3 DEF PointersFit
<1>13. RefsFit'
  <2> SUFFICES ASSUME NEW y \in Players
               PROVE  /\ refCount'[y] = (IF status'[y] = "in" THEN 1 ELSE 0)
                                       + (IF y \in checkVector' THEN 1 ELSE 0)
                                       + Cardinality(Holders(y)') + releaseThings'[y]
                      /\ status'[y] \in {"none", "deleted"} =>
                           y \notin checkVector' /\ releaseThings'[y] = 0
    BY DEF RefsFit, Holders
  <2>1. CASE y = x
    <3>1. Holders(y)' = {p}
      BY <1>9, <1>11, <2>1 DEF Holders
    <3>2. Cardinality(Holders(y)') = 1
      BY <3>1, FS_Singleton
    <3>3. y \notin checkVector /\ releaseThings[y] = 0
      BY <1>3, <2>1 DEF RefsFit
    <3>4. /\ refCount'[y] = (IF where = "in" THEN 1 ELSE 0)
                              + (IF y \in checkVector' THEN 1 ELSE 0) + 1 + releaseThings'[y]
          /\ status'[y] = where
      BY <1>3, <1>4, <1>8, <2>1, <3>3 DEF TypeOK
    <3> QED BY <3>2, <3>4
  <2>2. CASE y # x
    <3>1. Holders(y)' = Holders(y)
      <4>1. y # NoPlayer
        BY SessionAssumption
      <4> QED BY <1>5, <1>9, <2>2, <4>1 DEF Holders
    <3>2. /\ refCount'[y] = refCount[y] /\ releaseThings'[y] = releaseThings[y]
          /\ y \in checkVector' <=> y \in checkVector
          /\ status'[y] = status[y]
      BY <1>4, <1>8, <2>2 DEF TypeOK
    <3> QED BY <3>1, <3>2 DEF RefsFit
  <2> QED BY <2>1, <2>2
<1>14. ControlFits'
  <2>1. \A y, z \in InGame' : y = z
    BY <1>1, <1>8 DEF InGame, Find
  <2>2. ASSUME NEW q \in Protocols, player'[q] # NoPlayer, conn'[q] = "open"
        PROVE  client'[player'[q]] = q
    <3>1. CASE q = p
      BY <1>3, <1>8, <1>9, <3>1
    <3>2. CASE q # p
      <4>1. player'[q] = player[q] /\ player[q] \in Players /\ player[q] # x /\ conn[q] = "open"
        BY <1>6, <1>9, <1>11, <2>2, <3>2 DEF TypeOK
      <4>2. client[player[q]] = q
        BY <2>2, <4>1 DEF ControlFits
      <4> QED BY <1>8, <4>1, <4>2
    <3> QED BY <3>1, <3>2
  <2> QED BY <2>1, <2>2 DEF ControlFits
<1>15. PlayersSuffice'
  <2>1. Created' = Created \cup {x} /\ x \notin Created
    BY <1>3, <1>8 DEF Created
  <2>2. p \notin LoggedIn /\ LoggedIn \cup {p} \subseteq LoggedIn' /\ LoggedIn' \subseteq Protocols
    BY <1>2, <1>10 DEF LoggedIn
  <2>3. IsFiniteSet(LoggedIn) /\ IsFiniteSet(LoggedIn') /\ IsFiniteSet(Created)
    <3>1. LoggedIn \subseteq Protocols /\ Created \subseteq Players
      BY DEF LoggedIn, Created
    <3> QED BY <2>2, <3>1, EnoughPlayers, FS_Subset
  <2>4. Cardinality(Created') = Cardinality(Created) + 1
    BY <2>1, <2>3, FS_AddElement
  <2>5. Cardinality(LoggedIn \cup {p}) = Cardinality(LoggedIn) + 1
    BY <2>2, <2>3, FS_AddElement
  <2>6. Cardinality(LoggedIn \cup {p}) <= Cardinality(LoggedIn')
    BY <2>2, <2>3, FS_Subset
  <2>7. Cardinality(LoggedIn) \in Nat /\ Cardinality(LoggedIn') \in Nat /\ Cardinality(Created) \in Nat
    BY <2>3, FS_CardinalityType
  <2> QED BY <2>4, <2>5, <2>6, <2>7 DEF PlayersSuffice
<1> QED BY <1>6, <1>7, <1>10, <1>12, <1>13, <1>14, <1>15
(* A protocol that has no player gets the one connect() finds, or none.    *)
LEMMA ConnectKeeps ==
  ASSUME IInv, NEW kind \in {"login", "connect"}, NEW p \in Protocols, NEW x \in Players,
         Take(kind, p), Connect(p, x),
         player[p] = NoPlayer, protocol[p] = "alive",
         <<"connect", p>> \notin Listed(Tail(tasks)) \cup scheduled,
         connecting' \in [Protocols -> Players \cup {NoPlayer}], connecting'[p] = NoPlayer,
         \A r \in Protocols \ {p} : connecting'[r] = connecting[r],
         UNCHANGED <<protocol, status, checkVector, releaseThings, scheduled>>
  PROVE  IInv'
<1> USE DEF IInv
<1>1. /\ tasks' \in Seq(Kinds \X Protocols) /\ Ordered(tasks')
      /\ conn' \in [Protocols -> {"none", "open", "requested", "closing"}]
      /\ Listed(tasks') = Listed(Tail(tasks)) \/
           (conn[p] = "open" /\ conn'[p] = "requested"
              /\ Listed(tasks') = Listed(Tail(tasks)) \cup {<<"close", p>>})
      /\ \A r \in Protocols : conn'[r] = conn[r] \/ (conn[r] = "open" /\ conn'[r] = "requested")
  <2>1. Close(p, Tail(tasks)) \/ (tasks' = Tail(tasks) /\ UNCHANGED conn)
    BY DEF Connect
  <2> QED BY <2>1, AttachList
<1>2. \A r \in Protocols \ {p} : player'[r] = player[r]
  BY DEF Connect, TypeOK
<1>3. JobsFit' /\ ProtocolsFit' /\ LoggedIn \subseteq LoggedIn'
  <2>1. Listed(Tail(tasks)) \in SUBSET Listed(tasks) /\ <<"login", p>> \notin Listed(Tail(tasks))
    BY Taken
  <2>2. UNCHANGED <<protocol, scheduled>>
    OBVIOUS
  <2> QED BY <1>1, <1>2, <2>1, <2>2, AttachKeeps
<1>4. PlayersSuffice'
  <2>1. Created' = Created
    BY DEF Created
  <2> QED BY <1>3, <2>1, SufficeKeeps
<1>5. CASE ~CanConnect(x)
  <2>1. UNCHANGED <<player, refCount, isConnecting, client, m_acceptPackets>>
    BY <1>5 DEF Connect
  <2>2. TypeOK'
    BY <1>1, <2>1 DEF TypeOK
  <2>3. PointersFit'
    BY <2>1 DEF PointersFit
  <2>4. ControlFits'
    BY <1>1, <2>1 DEF ControlFits, InGame
  <2> QED BY <1>1, <1>3, <1>4, <2>1, <2>2, <2>3, <2>4, Holding
<1>6. CASE CanConnect(x)
  <2>1. /\ status[x] = "in" /\ client[x] = NoProtocol
        /\ player' = [player EXCEPT ![p] = x]
        /\ refCount' = [refCount EXCEPT ![x] = @ + 1]
        /\ isConnecting' = [isConnecting EXCEPT ![x] = FALSE]
        /\ client' = [client EXCEPT ![x] = p]
        /\ m_acceptPackets' = [m_acceptPackets EXCEPT ![p] = TRUE]
    BY <1>6 DEF Connect, CanConnect
  <2>2. TypeOK'
    <3>1. /\ player' \in [Protocols -> Players \cup {NoPlayer}]
          /\ client' \in [Players -> Protocols \cup {NoProtocol}]
          /\ refCount' \in [Players -> Nat]
      BY <2>1 DEF TypeOK
    <3>2. /\ isConnecting' \in [Players -> BOOLEAN]
          /\ m_acceptPackets' \in [Protocols -> BOOLEAN]
      BY <2>1 DEF TypeOK
    <3> QED BY <1>1, <3>1, <3>2 DEF TypeOK
  <2>3. /\ \A y \in Players : client'[y] = IF y = x THEN p ELSE client[y]
        /\ \A q \in Protocols : player'[q] = IF q = p THEN x ELSE player[q]
        /\ \A y \in Players : refCount'[y] = IF y = x THEN refCount[y] + 1 ELSE refCount[y]
    BY <2>1 DEF TypeOK
  <2>4. \A y \in Players : y # NoPlayer
    BY SessionAssumption
  <2>5. PointersFit'
    <3>1. \A q \in Protocols : player'[q] # NoPlayer =>
            protocol[q] = "alive" /\ status[player'[q]] \in {"in", "out"}
      BY <2>1, <2>3 DEF PointersFit
    <3>2. ASSUME NEW y \in Players, status[y] \in {"in", "out"}, client'[y] # NoProtocol
          PROVE  player'[client'[y]] = y
      <4>1. CASE y = x
        BY <2>3, <4>1
      <4>2. CASE y # x
        <5>1. client'[y] = client[y] /\ client[y] \in Protocols /\ player[client[y]] = y
          BY <2>3, <3>2, <4>2 DEF PointersFit, TypeOK
        <5>2. client[y] # p
          BY <2>4, <5>1
        <5> QED BY <2>3, <5>1, <5>2
      <4> QED BY <4>1, <4>2
    <3>3. \A y \in Players : status[y] = "none" => client'[y] = NoProtocol
      BY <2>1, <2>3 DEF PointersFit
    <3> QED BY <3>1, <3>2, <3>3 DEF PointersFit
  <2>6. RefsFit'
    <3> SUFFICES ASSUME NEW y \in Players
                 PROVE  /\ refCount'[y] = (IF status[y] = "in" THEN 1 ELSE 0)
                                         + (IF y \in checkVector THEN 1 ELSE 0)
                                         + Cardinality(Holders(y)') + releaseThings[y]
                        /\ status[y] \in {"none", "deleted"} =>
                             y \notin checkVector /\ releaseThings[y] = 0
      BY DEF RefsFit, Holders
    <3>1. /\ refCount[y] = (IF status[y] = "in" THEN 1 ELSE 0)
                           + (IF y \in checkVector THEN 1 ELSE 0)
                           + Cardinality(Holders(y)) + releaseThings[y]
          /\ status[y] \in {"none", "deleted"} => y \notin checkVector /\ releaseThings[y] = 0
      BY DEF RefsFit
    <3>2. IsFiniteSet(Holders(y)) /\ Cardinality(Holders(y)) \in Nat /\ releaseThings[y] \in Nat
      BY HoldersCount DEF TypeOK
    <3>3. CASE y = x
      <4>1. Holders(y)' = Holders(y) \cup {p} /\ p \notin Holders(y)
        BY <2>3, <2>4, <3>3 DEF Holders
      <4>2. Cardinality(Holders(y)') = Cardinality(Holders(y)) + 1
        BY <3>2, <4>1, FS_AddElement
      <4>3. refCount'[y] = refCount[y] + 1
        BY <2>3, <3>3
      <4> QED BY <3>1, <3>2, <4>2, <4>3
    <3>4. CASE y # x
      <4>1. Holders(y)' = Holders(y)
        BY <2>3, <2>4, <3>4 DEF Holders
      <4>2. refCount'[y] = refCount[y]
        BY <2>3, <3>4
      <4> QED BY <3>1, <4>1, <4>2
    <3> QED BY <3>3, <3>4
  <2>7. ControlFits'
    <3>1. \A y, z \in InGame' : y = z
      BY DEF ControlFits, InGame
    <3>2. ASSUME NEW q \in Protocols, player'[q] # NoPlayer, conn'[q] = "open"
          PROVE  client'[player'[q]] = q
      <4>1. CASE q = p
        BY <2>3, <4>1
      <4>2. CASE q # p
        <5>1. player'[q] = player[q] /\ player[q] \in Players /\ conn[q] = "open"
          BY <1>1, <2>3, <3>2, <4>2 DEF TypeOK
        <5>2. client[player[q]] = q
          BY <3>2, <5>1 DEF ControlFits
        <5>3. player[q] # x
          BY <2>1, <5>2, SessionAssumption
        <5> QED BY <2>3, <5>1, <5>2, <5>3
      <4> QED BY <4>1, <4>2
    <3> QED BY <3>1, <3>2 DEF ControlFits
  <2> QED BY <1>1, <1>3, <1>4, <2>2, <2>5, <2>6, <2>7
<1> QED BY <1>5, <1>6

LEMMA LoginTakeOverKeeps ==
  ASSUME IInv, NEW p \in Protocols, LoginTakeOver(p)
  PROVE  IInv'
<1>1. /\ Take("login", p)
      /\ UNCHANGED <<protocol, connecting, status, checkVector, releaseThings, scheduled>>
  BY DEF LoginTakeOver
<1>2. PICK x \in Find : Connect(p, x)
  BY DEF LoginTakeOver
<1>3. x \in Players
  BY DEF Find, InGame
<1>4. <<"login", p>> \in Jobs /\ Listed(Tail(tasks)) \subseteq Listed(tasks)
  BY <1>1, Taken
<1>5. player[p] = NoPlayer /\ connecting[p] = NoPlayer /\ protocol[p] = "alive"
  BY <1>4 DEF IInv, JobsFit
<1>6. <<"connect", p>> \notin Listed(Tail(tasks)) \cup scheduled
  BY <1>4, <1>5 DEF IInv, JobsFit, Jobs
<1>7. connecting' \in [Protocols -> Players \cup {NoPlayer}] /\ connecting' = connecting
  BY <1>1 DEF IInv, TypeOK
<1> QED BY <1>1, <1>2, <1>3, <1>5, <1>6, <1>7, ConnectKeeps

LEMMA ConnectTaskKeeps ==
  ASSUME IInv, NEW p \in Protocols, ConnectTask(p)
  PROVE  IInv'
<1>1. /\ Take("connect", p)
      /\ Connect(p, connecting[p])
      /\ connecting' = [connecting EXCEPT ![p] = NoPlayer]
      /\ UNCHANGED <<protocol, status, checkVector, releaseThings, scheduled>>
  BY DEF ConnectTask
<1>2. /\ <<"connect", p>> \in Jobs
      /\ <<"connect", p>> \notin Listed(Tail(tasks)) \cup scheduled
  <2>1. /\ Listed(Tail(tasks)) = Listed(tasks) \ {<<"connect", p>>}
        /\ <<"connect", p>> \in Jobs /\ <<"connect", p>> \notin scheduled
    BY <1>1, Taken
  <2> QED BY <2>1
<1>3. connecting[p] # NoPlayer /\ protocol[p] = "alive"
  BY <1>2 DEF IInv, JobsFit
<1>4. connecting[p] \in Players /\ player[p] = NoPlayer
  BY <1>3 DEF IInv, TypeOK, ProtocolsFit
<1>5. /\ connecting' \in [Protocols -> Players \cup {NoPlayer}] /\ connecting'[p] = NoPlayer
      /\ \A r \in Protocols \ {p} : connecting'[r] = connecting[r]
  BY <1>1 DEF IInv, TypeOK
<1> QED BY <1>1, <1>2, <1>3, <1>4, <1>5, ConnectKeeps
-----------------------------------------------------------------------------
LEMMA InitInv == Init => IInv
<1> SUFFICES ASSUME Init PROVE IInv
  OBVIOUS
<1> USE DEF Init
<1>1. TypeOK
  <2>1. <<>> \in Seq(Kinds \X Protocols) /\ {} \subseteq Kinds \X Protocols
    OBVIOUS
  <2> QED BY <2>1 DEF TypeOK
<1>2. Jobs = {} /\ Listed(tasks) = {} /\ DOMAIN tasks = {}
  BY DEF Jobs, Listed
<1>3. Ordered(tasks)
  BY <1>2 DEF Ordered
<1>4. JobsFit
  BY <1>2 DEF JobsFit
<1>5. ProtocolsFit /\ PointersFit
  BY DEF ProtocolsFit, PointersFit
<1>6. RefsFit
  <2>1. ASSUME NEW x \in Players PROVE Cardinality(Holders(x)) = 0
    <3>1. Holders(x) = {}
      BY SessionAssumption DEF Holders
    <3> QED BY <3>1, FS_EmptySet
  <2> QED BY <2>1 DEF RefsFit
<1>7. ControlFits
  BY DEF ControlFits, InGame
<1>8. PlayersSuffice
  <2>1. Created = {} /\ LoggedIn = {}
    BY DEF Created, LoggedIn
  <2>2. Cardinality({}) = 0
    BY FS_EmptySet
  <2> QED BY <2>1, <2>2 DEF PlayersSuffice
<1> QED BY <1>1, <1>3, <1>4, <1>5, <1>6, <1>7, <1>8 DEF IInv

LEMMA NextKeeps == IInv /\ [Next]_vars => IInv'
<1> SUFFICES ASSUME IInv, [Next]_vars PROVE IInv'
  OBVIOUS
<1>1. CASE UNCHANGED vars
  <2>1. UNCHANGED <<conn, protocol, player, m_acceptPackets, connecting, status, client,
                    isConnecting, refCount, checkVector, releaseThings, tasks, scheduled>>
    BY <1>1 DEF vars, protocolVars, playerVars
  <2>2. TypeOK' /\ Ordered(tasks')
    BY <2>1 DEF IInv, TypeOK
  <2>3. Jobs' = Jobs /\ JobsFit'
    BY <2>1 DEF IInv, JobsFit, Jobs
  <2>4. ProtocolsFit' /\ PointersFit'
    BY <2>1 DEF IInv, ProtocolsFit, PointersFit
  <2>5. RefsFit'
    BY <2>1, Holding DEF IInv
  <2>6. ControlFits'
    BY <2>1 DEF IInv, ControlFits, InGame
  <2>7. PlayersSuffice'
    BY <2>1, <2>3 DEF IInv, PlayersSuffice, Created, LoggedIn
  <2> QED BY <2>2, <2>3, <2>4, <2>5, <2>6, <2>7 DEF IInv
<1>2. ASSUME NEW p \in Protocols, Arrive(p) PROVE IInv'
  BY <1>2, ArriveKeeps
<1>3. ASSUME NEW p \in Protocols, HangUp(p) PROVE IInv'
  BY <1>3, HangUpKeeps
<1>4. ASSUME NEW p \in Protocols, ParseLogout(p) PROVE IInv'
  BY <1>4, ParseLogoutKeeps
<1>5. ASSUME NEW p \in Protocols, Task(p) PROVE IInv'
  <2>1. CASE LoginNew(p)
    BY <2>1, LoginNewKeeps
  <2>2. CASE LoginReplace(p)
    BY <2>2, LoginReplaceKeeps
  <2>3. CASE LoginTakeOver(p)
    BY <2>3, LoginTakeOverKeeps
  <2>4. CASE ConnectTask(p)
    BY <2>4, ConnectTaskKeeps
  <2>5. CASE Logout(p)
    BY <2>5, LogoutKeeps
  <2>6. CASE CloseTask(p)
    BY <2>6, CloseTaskKeeps
  <2>7. CASE ReleaseAndDelete(p)
    BY <2>7, ReleaseAndDeleteKeeps
  <2>8. CASE ReleaseLater(p)
    BY <2>8, ReleaseLaterKeeps
  <2> QED BY <1>5, <2>1, <2>2, <2>3, <2>4, <2>5, <2>6, <2>7, <2>8 DEF Task
<1>6. ASSUME NEW kind \in Kinds, NEW p \in Protocols, EventDue(kind, p) PROVE IInv'
  BY <1>6, EventDueKeeps
<1>7. ASSUME NEW x \in Players, Kick(x) PROVE IInv'
  BY <1>7, KickKeeps
<1>8. CASE Check
  BY <1>8, CheckKeeps
<1> QED BY <1>1, <1>2, <1>3, <1>4, <1>5, <1>6, <1>7, <1>8 DEF Next

(***************************************************************************)
(* What is listed for a protocol, what it points to and what each player   *)
(* counts stay consistent under every step.                                *)
(***************************************************************************)
THEOREM IInvHolds == Spec => []IInv
<1> QED BY InitInv, NextKeeps, PTL DEF Spec
-----------------------------------------------------------------------------
(***************************************************************************)
(* Every variable keeps its type, however many connections there are.      *)
(***************************************************************************)
THEOREM TypeInvariant == Spec => []TypeOK
<1>1. IInv => TypeOK
  BY DEF IInv
<1> QED BY <1>1, IInvHolds, PTL

(***************************************************************************)
(* A player counts its holders exactly, so cleanup() deletes it with the   *)
(* last of them.                                                           *)
(***************************************************************************)
THEOREM RefsCountHoldersHolds == Spec => []RefsCountHolders
<1>1. IInv => RefsCountHolders
  BY DEF IInv, RefsFit, Holders, RefsCountHolders
<1> QED BY <1>1, IInvHolds, PTL

(***************************************************************************)
(* The pointers bound into tasks and events, and those of protocols and    *)
(* players, are to objects that are still there.                           *)
(***************************************************************************)
THEOREM NothingDanglesHolds == Spec => []NothingDangles
<1>1. ASSUME IInv PROVE NothingDangles
  <2>1. \A i \in DOMAIN tasks : tasks[i] \in Jobs
    BY DEF Jobs, Listed
  <2>2. \A e \in scheduled : e \in Jobs
    BY DEF Jobs
  <2>3. \A e \in Jobs : protocol[e[2]] = "alive"
    BY <1>1 DEF IInv, JobsFit
  <2> QED BY <1>1, <2>1, <2>2, <2>3 DEF IInv, PointersFit, NothingDangles
<1> QED BY <1>1, IInvHolds, PTL

(***************************************************************************)
(* The character is in the game once, and only its client's connection is  *)
(* open.                                                                   *)
(***************************************************************************)
THEOREM OneControllerHolds == Spec => []OneController
<1>1. ASSUME IInv PROVE OneController
  <2>1. \A x, y \in InGame : x = y
    BY <1>1 DEF IInv, ControlFits
  <2>2. InGame = {} \/ \E x \in InGame : InGame = {x}
    BY <2>1
  <2>3. Cardinality(InGame) <= 1
    <3>1. CASE InGame = {}
      BY <3>1, FS_EmptySet
    <3>2. ASSUME NEW x \in InGame, InGame = {x} PROVE Cardinality(InGame) <= 1
      <4>1. Cardinality({x}) = 1
        BY FS_Singleton
      <4> QED BY <3>2, <4>1
    <3> QED BY <2>2, <3>1, <3>2
  <2> QED BY <1>1, <2>3 DEF IInv, ControlFits, OneController, InGameOnce
<1> QED BY <1>1, IInvHolds, PTL

(***************************************************************************)
(* A player's client is replaced only after it was forgotten, and it is    *)
(* forgotten only when its connection is closing.                          *)
(***************************************************************************)
THEOREM ClientLetsGoFirstHolds == Spec => ClientLetsGoFirst
<1> DEFINE LetsGo == \A x \in Players :
             client[x] # NoProtocol /\ client'[x] # client[x] =>
               client'[x] = NoProtocol /\ conn[client[x]] = "closing"
<1>1. ASSUME IInv, [Next]_vars PROVE [LetsGo]_vars
  <2> SUFFICES ASSUME Next, NEW x \in Players, client[x] # NoProtocol, client'[x] # client[x]
               PROVE  client'[x] = NoProtocol /\ conn[client[x]] = "closing"
    BY <1>1
  <2>1. ASSUME NEW p \in Protocols, Task(p)
        PROVE  client'[x] = NoProtocol /\ conn[client[x]] = "closing"
    <3>1. ASSUME LoginNew(p) PROVE FALSE
      <4> DEFINE y == CHOOSE z \in Players : status[z] = "none"
      <4>1. Take("login", p) /\ client' = [client EXCEPT ![y] = p]
        BY <3>1 DEF LoginNew
      <4>2. y \in Players /\ status[y] = "none"
        <5>1. <<"login", p>> \in Jobs
          BY <1>1, <4>1, Taken
        <5> QED BY <1>1, <5>1, PlayerIsLeft
      <4> HIDE DEF y
      <4>3. client[y] = NoProtocol
        BY <1>1, <4>2 DEF IInv, PointersFit
      <4> QED BY <1>1, <4>1, <4>3 DEF IInv, TypeOK
    <3>2. ASSUME NEW y, Connect(p, y) PROVE FALSE
      BY <1>1, <3>2 DEF Connect, CanConnect, IInv, TypeOK
    <3>3. ASSUME Take("release", p), ForgetClient(p)
          PROVE  client'[x] = NoProtocol /\ conn[client[x]] = "closing"
      <4>1. client'[x] = NoProtocol /\ client[x] = p
        BY <3>3 DEF ForgetClient
      <4>2. <<"release", p>> \in Jobs
        BY <1>1, <3>3, Taken
      <4>3. conn[p] = "closing"
        BY <1>1, <4>2 DEF IInv, JobsFit
      <4> QED BY <4>1, <4>3
    <3> QED BY <2>1, <3>1, <3>2, <3>3 DEF Task, LoginReplace, LoginTakeOver, ConnectTask,
               Logout, CloseTask, ReleaseAndDelete, ReleaseLater, playerVars
  <2>2. ASSUME NEW p \in Protocols, Arrive(p) \/ HangUp(p) \/ ParseLogout(p) PROVE FALSE
    BY <2>2 DEF Arrive, HangUp, ParseLogout, playerVars
  <2>3. ASSUME NEW kind, NEW p, EventDue(kind, p) PROVE FALSE
    BY <2>3 DEF EventDue, playerVars
  <2>4. ASSUME NEW y, Kick(y) PROVE FALSE
    BY <2>4 DEF Kick
  <2>5. ASSUME Check PROVE FALSE
    BY <2>5 DEF Check, Think, Die, PongTimeout, CheckCreatures
  <2> QED BY <2>1, <2>2, <2>3, <2>4, <2>5 DEF Next
<1> QED BY <1>1, IInvHolds, PTL DEF Spec, ClientLetsGoFirst
=============================================================================
