------------------------- MODULE ServerPartsProofs -------------------------
(***************************************************************************)
(* Proofs about the parts of the server that share no state: the clients   *)
(* that log in, play and leave, the engine of Lua's asynchronous jobs, the *)
(* sending of blocks, and the callbacks of an emerged area.  Each has an   *)
(* inductive invariant of its own.                                         *)
(***************************************************************************)
EXTENDS ClientSessions, AsyncJobs, BlockSending, EmergeArea, DataLemmas

-----------------------------------------------------------------------------
(* Clients: what a client's state says of its account, its player and the  *)
(* one packet handler that takes several steps.                            *)

States == {"unborn", "Created", "HelloSent", "AwaitingInit2", "DefinitionsSent",
           "Active", "SudoMode", "Denied", "Disconnecting", "deleted"}

Playing(p) == state[p] \in {"Active", "SudoMode"}
Past(p)    == Playing(p) \/ state[p] \in {"AwaitingInit2", "DefinitionsSent"}
Named(p)   == Past(p) \/ state[p] = "HelloSent"

LinkPlaces == {"unborn", "up", "dropped", "gone"}

SessionTypes ==
  /\ state \in [Clients -> States]
  /\ name \in [Clients -> Names \union {NoName}]
  /\ allowed \in [Clients -> {"none", "first", "srp"}]
  /\ chosen \in [Clients -> BOOLEAN]
  /\ link \in [Clients -> LinkPlaces]
  /\ accounts \in [Names -> Nat]
  /\ m_players \in Seq(Clients) /\ connected \subseteq Clients
  /\ joining \in Clients \union {NoClient} /\ leaving \in Clients \union {NoClient}

(* What the state of one client says of its login.  An account exists from *)
(* the moment it is found at Init or made, and chosen_mech is only set for *)
(* one that does.                                                          *)
LoginOK(p) ==
  /\ Named(p) => name[p] \in Names
  /\ Past(p) \/ (state[p] = "HelloSent" /\ allowed[p] = "srp")
       => accounts[name[p]] = 1
  /\ chosen[p] /\ state[p] = "HelloSent" => allowed[p] = "srp"
  /\ state[p] \in {"unborn", "Created"} => ~ chosen[p]

Logins == (\A p \in Clients : LoginOK(p)) /\ \A n \in Names : accounts[n] <= 1

(* Who is between emergePlayer() and SetClientReady is nothing else.        *)
Joins == joining # NoClient =>
  joining \in connected /\ state[joining] \in {"DefinitionsSent", "Denied"}

(* A client that is being deleted is no longer active, and the ServerThread *)
(* does nothing else meanwhile.                                            *)
Leaves ==
  /\ leaving # NoClient => /\ joining = NoClient /\ link[leaving] = "gone"
                           /\ state[leaving] \in {"Denied", "Disconnecting"}
  /\ \A p \in Clients : state[p] = "Disconnecting" => leaving = p
  /\ \A p \in Clients : link[p] \in {"up", "dropped"} =>
       state[p] \notin {"unborn", "Disconnecting", "deleted"}

PlayerOK(p) ==
  /\ Playing(p) => p \in connected
  /\ p \in connected => \/ Playing(p) \/ state[p] = "Denied" \/ joining = p
                        \/ state[p] = "Disconnecting" /\ leaving = p
  /\ p \in connected => p \in Range(m_players)
  /\ p \in Range(m_players) => p \in connected \/ state[p] = "deleted" \/ leaving = p

Players == \A p \in Clients : PlayerOK(p)

(* A place that the final check has found stays free.                      *)
Room == joining # NoClient /\ name[joining] \notin Bypass =>
  Cardinality({p \in Clients : Playing(p)}) < MaxUsers

SessionInv ==
  SessionTypes /\ Logins /\ Joins /\ Leaves /\ Players /\ NoStateError

SessionActions(p) ==
  \/ PeerAdded(p) \/ \E n \in Names : InitDenied(p, n) \/ HandleInit(p, n)
  \/ Register(p) \/ ChangePassword(p) \/ SrpBytesA(p) \/ SrpBytesM(p)
  \/ Init2(p) \/ ClientReady(p) \/ SetClientReady(p)
  \/ Kick(p) \/ PeerLost(p) \/ Linger(p)
  \/ DeletingPeer(p) \/ Disconnected(p) \/ DeleteClient(p) \/ RemoveLeaving(p)

LEMMA AfterValues ==
  /\ After("Created", "Hello") = "HelloSent"
  /\ After("HelloSent", "AuthAccept") = "AwaitingInit2"
  /\ After(After("AwaitingInit2", "GotInit2"), "SetDefinitionsSent") = "DefinitionsSent"
  /\ After("DefinitionsSent", "SetClientReady") = "Active"
  /\ After("Active", "SudoSuccess") = "SudoMode"
  /\ After("SudoMode", "SudoLeave") = "Active"
  /\ After("Denied", "SetClientReady") = "Denied"
  /\ \A s \in States : After(s, "SetDenied") =
       IF s \in {"unborn", "Disconnecting", "deleted"} THEN s ELSE "Denied"
  /\ \A s \in States : LeavingState(s) =
       IF s \in {"unborn", "Denied", "deleted"} THEN s ELSE "Disconnecting"
<1> DEFINE Step(s, event) == CHOOSE t \in Transitions : t[1] = s /\ t[2] = event
<1>1. ASSUME NEW s, NEW event, NEW r, <<s, event, r>> \in Transitions,
             \A t \in Transitions : t[1] = s /\ t[2] = event => t = <<s, event, r>>
      PROVE  /\ \E t \in Transitions : t[1] = s /\ t[2] = event
             /\ Step(s, event)[3] = r
  <2>1. <<s, event, r>>[1] = s /\ <<s, event, r>>[2] = event /\ <<s, event, r>>[3] = r
    OBVIOUS
  <2>2. \E t \in Transitions : t[1] = s /\ t[2] = event
    BY <1>1, <2>1
  <2>3. Step(s, event) = <<s, event, r>>
    BY <1>1, <2>2
  <2> QED BY <2>1, <2>2, <2>3
<1>2. ASSUME NEW s, NEW event, NEW r, <<s, event, r>> \in Transitions,
             \A t \in Transitions : t[1] = s /\ t[2] = event => t = <<s, event, r>>,
             s \notin Settled, event \notin {"SetDenied", "Disconnect"}
      PROVE  After(s, event) = r
  BY <1>1, <1>2 DEF After
<1> HIDE DEF Step
<1>3. After("Created", "Hello") = "HelloSent"
  BY <1>2 DEF Transitions, Settled
<1>4. After("HelloSent", "AuthAccept") = "AwaitingInit2"
  BY <1>2 DEF Transitions, Settled
<1>5. After("AwaitingInit2", "GotInit2") = "InitDone"
  BY <1>2 DEF Transitions, Settled
<1>6. After("InitDone", "SetDefinitionsSent") = "DefinitionsSent"
  BY <1>2 DEF Transitions, Settled
<1>7. After("DefinitionsSent", "SetClientReady") = "Active"
  BY <1>2 DEF Transitions, Settled
<1>8. After("Active", "SudoSuccess") = "SudoMode"
  BY <1>2 DEF Transitions, Settled
<1>9. After("SudoMode", "SudoLeave") = "Active"
  BY <1>2 DEF Transitions, Settled
<1>10. /\ After("Denied", "SetClientReady") = "Denied"
       /\ \A s \in States : After(s, "SetDenied") =
            IF s \in {"unborn", "Disconnecting", "deleted"} THEN s ELSE "Denied"
       /\ \A s \in States : LeavingState(s) =
            IF s \in {"unborn", "Denied", "deleted"} THEN s ELSE "Disconnecting"
  BY DEF After, Settled, States, LeavingState
<1> QED BY <1>3, <1>4, <1>5, <1>6, <1>7, <1>8, <1>9, <1>10

LEMMA DenyTypes ==
  ASSUME SessionTypes, NEW p \in Clients, DenyAccess(p)
  PROVE  /\ state' \in [Clients -> States] /\ chosen' \in [Clients -> BOOLEAN]
         /\ link' \in [Clients -> LinkPlaces]
<1>1. state' \in [Clients -> States]
  BY AfterValues DEF SessionTypes, DenyAccess, Become, States
<1>2. chosen' \in [Clients -> BOOLEAN]
  BY DEF SessionTypes, DenyAccess, Become
<1>3. link' \in [Clients -> LinkPlaces]
  BY DEF SessionTypes, DenyAccess, Drop, LinkPlaces
<1> QED BY <1>1, <1>2, <1>3

LEMMA EventTypes ==
  ASSUME SessionTypes, NEW p \in Clients, NEW s \in States \union {"error"}, Event(p, s)
  PROVE  /\ state' \in [Clients -> States] /\ chosen' \in [Clients -> BOOLEAN]
         /\ link' \in [Clients -> LinkPlaces]
<1>1. CASE s = "error"
  BY <1>1, DenyTypes DEF Event
<1>2. CASE s # "error"
  BY <1>2 DEF Event, Become, SessionTypes, States, LinkPlaces
<1> QED BY <1>1, <1>2

LEMMA RefuseTypes ==
  ASSUME SessionTypes, NEW p \in Clients, NEW stop \in BOOLEAN, Refuse(p, stop)
  PROVE  /\ state' \in [Clients -> States] /\ chosen' \in [Clients -> BOOLEAN]
         /\ link' \in [Clients -> LinkPlaces]
BY DenyTypes DEF Refuse, SessionTypes, LinkPlaces

LEMMA ActionTypes ==
  ASSUME SessionInv, NEW p \in Clients, SessionActions(p)
  PROVE  SessionTypes'
<1> USE AfterValues, DenyTypes, EventTypes, RefuseTypes
        DEF SessionTypes, States, LinkPlaces, Drop, Receiving, WantSudo, authVars, playerVars
<1>0. SessionTypes /\ Logins /\ Joins
  BY DEF SessionInv
<1> USE SessionsAssumption DEF Idle
<1>1. ASSUME PeerAdded(p) PROVE SessionTypes'
  BY <1>0, <1>1 DEF PeerAdded
<1>2. ASSUME NEW n \in Names, InitDenied(p, n) PROVE SessionTypes'
  BY <1>0, <1>2 DEF InitDenied
<1>3. ASSUME NEW n \in Names, HandleInit(p, n) PROVE SessionTypes'
  BY <1>0, <1>3 DEF HandleInit
<1>4. ASSUME Register(p) PROVE SessionTypes'
  <2>1. CASE DenyAccess(p) /\ UNCHANGED <<authVars, stateError>>
    BY <1>0, <1>4, <2>1 DEF Register
  <2>2. CASE ~ (DenyAccess(p) /\ UNCHANGED <<authVars, stateError>>)
    <3>1. /\ accounts' = [accounts EXCEPT ![name[p]] = @ + 1] /\ name[p] \in Names
          /\ allowed' = [allowed EXCEPT ![p] = "srp"]
          /\ Event(p, After(state[p], "AuthAccept")) /\ UNCHANGED <<name, playerVars>>
      BY <1>0, <1>4, <2>2 DEF Register, Logins, LoginOK, Named
    <3>2. After(state[p], "AuthAccept") \in States \union {"error"}
      BY <1>4 DEF Register
    <3> QED BY <1>0, <3>1, <3>2
  <2> QED BY <2>1, <2>2
<1>5. ASSUME ChangePassword(p) PROVE SessionTypes'
  BY <1>0, <1>5 DEF ChangePassword
<1>6. ASSUME SrpBytesA(p) PROVE SessionTypes'
  BY <1>0, <1>6 DEF SrpBytesA
<1>7. ASSUME SrpBytesM(p) PROVE SessionTypes'
  BY <1>0, <1>7 DEF SrpBytesM
<1>8. ASSUME Init2(p) PROVE SessionTypes'
  BY <1>0, <1>8 DEF Init2
<1>9. ASSUME ClientReady(p) PROVE SessionTypes'
  <2>1. CASE DenyAccess(p) /\ UNCHANGED playerVars
    BY <1>0, <1>9, <2>1 DEF ClientReady
  <2>2. CASE ~ (DenyAccess(p) /\ UNCHANGED playerVars)
    <3>1. /\ m_players' = Append(m_players, p) /\ connected' = connected \union {p}
          /\ joining' = p /\ UNCHANGED <<state, chosen, link, name, allowed, accounts, leaving>>
      BY <1>9, <2>2 DEF ClientReady
    <3>2. m_players' \in Seq(Clients)
      BY <1>0, <3>1, AppendRange
    <3> QED BY <1>0, <3>1, <3>2
  <2> QED BY <2>1, <2>2
<1>10. ASSUME SetClientReady(p) PROVE SessionTypes'
  BY <1>0, <1>10, SessionsAssumption DEF SetClientReady, Joins
<1>11. ASSUME Kick(p) PROVE SessionTypes'
  BY <1>0, <1>11 DEF Kick
<1>12. ASSUME PeerLost(p) PROVE SessionTypes'
  BY <1>0, <1>12 DEF PeerLost
<1>13. ASSUME Linger(p) PROVE SessionTypes'
  BY <1>0, <1>13 DEF Linger
<1>14. ASSUME DeletingPeer(p) PROVE SessionTypes'
  BY <1>0, <1>14 DEF DeletingPeer
<1>15. ASSUME RemoveLeaving(p) PROVE SessionTypes'
  BY <1>0, <1>15, RemoveAtElements DEF RemoveLeaving
<1>16. ASSUME Disconnected(p) \/ DeleteClient(p) PROVE SessionTypes'
  BY <1>0, <1>16 DEF Disconnected, DeleteClient
<1> QED BY <1>1, <1>2, <1>3, <1>4, <1>5, <1>6, <1>7, <1>8,
           <1>9, <1>10, <1>11, <1>12, <1>13, <1>14, <1>15, <1>16 DEF SessionActions

(* Every action of a client keeps the invariant.                           *)
LEMMA ActionInv ==
  ASSUME SessionInv, NEW p \in Clients, SessionActions(p)
  PROVE  SessionInv'
<1>0. SessionTypes'
  BY ActionTypes
<1> USE AfterValues, SessionsAssumption
        DEF SessionInv, SessionTypes, Logins, LoginOK, Named, Past, Playing, Joins, Leaves,
            Players, PlayerOK, NoStateError, States, LinkPlaces, DenyAccess, Become, Drop,
            Event, Refuse, WantSudo, Idle, Receiving, IsNewPlayer, CanEmerge, authVars,
            playerVars
<1>1. ASSUME PeerAdded(p) PROVE SessionInv'
  BY <1>1 DEF PeerAdded
<1>2. ASSUME NEW n \in Names, InitDenied(p, n) PROVE SessionInv'
  BY <1>2 DEF InitDenied
<1>3. ASSUME NEW n \in Names, HandleInit(p, n) PROVE SessionInv'
  <2>1. Logins'
    BY <1>3 DEF HandleInit
  <2>2. Joins' /\ Leaves' /\ Players' /\ NoStateError'
    BY <1>3 DEF HandleInit
  <2> QED BY <1>0, <2>1, <2>2
<1>4. ASSUME Register(p) PROVE SessionInv'
  <2>1. CASE DenyAccess(p) /\ UNCHANGED <<authVars, stateError>>
    <3>1. Logins'
      BY <2>1
    <3> QED BY <1>0, <1>4, <2>1, <3>1 DEF Register
  <2>2. CASE ~ (DenyAccess(p) /\ UNCHANGED <<authVars, stateError>>)
    <3>1. /\ state[p] = "HelloSent" /\ name[p] \in Names /\ accounts[name[p]] = 0
          /\ state' = [state EXCEPT ![p] = "AwaitingInit2"]
          /\ chosen' = [chosen EXCEPT ![p] = FALSE]
          /\ accounts' = [accounts EXCEPT ![name[p]] = 1]
          /\ UNCHANGED name
      BY <1>4, <2>2 DEF Register
    <3>2. Logins'
      BY <1>0, <1>4, <2>2, <3>1 DEF Register
    <3>3. Joins' /\ Leaves' /\ Players' /\ NoStateError'
      BY <1>4 DEF Register
    <3> QED BY <1>0, <3>2, <3>3
  <2> QED BY <2>1, <2>2
<1>5. ASSUME ChangePassword(p) PROVE SessionInv'
  <2>1. Logins'
    BY <1>5 DEF ChangePassword
  <2>2. Joins' /\ Leaves' /\ Players' /\ NoStateError'
    BY <1>5 DEF ChangePassword
  <2> QED BY <1>0, <2>1, <2>2
<1>6. ASSUME SrpBytesA(p) PROVE SessionInv'
  <2>1. Logins'
    BY <1>6 DEF SrpBytesA
  <2>2. Joins' /\ Leaves' /\ Players' /\ NoStateError'
    BY <1>6 DEF SrpBytesA
  <2> QED BY <1>0, <2>1, <2>2
<1>7. ASSUME SrpBytesM(p) PROVE SessionInv'
  <2>1. Logins'
    BY <1>7 DEF SrpBytesM
  <2>2. Joins' /\ Leaves' /\ Players' /\ NoStateError'
    BY <1>7 DEF SrpBytesM
  <2> QED BY <1>0, <2>1, <2>2
<1>8. ASSUME Init2(p) PROVE SessionInv'
  BY <1>8 DEF Init2
<1>9. ASSUME ClientReady(p) PROVE SessionInv'
  <2>1. CASE DenyAccess(p) /\ UNCHANGED playerVars
    <3>1. Logins' /\ Joins' /\ Leaves' /\ NoStateError'
      BY <1>9, <2>1 DEF ClientReady
    <3>2. Players'
      BY <1>9, <2>1 DEF ClientReady
    <3> QED BY <1>0, <3>1, <3>2
  <2>2. CASE ~ (DenyAccess(p) /\ UNCHANGED playerVars)
    <3>1. /\ m_players' = Append(m_players, p) /\ connected' = connected \union {p}
          /\ joining' = p /\ state[p] = "DefinitionsSent"
          /\ joining = NoClient /\ leaving = NoClient
          /\ UNCHANGED <<state, chosen, link, name, allowed, accounts, leaving, stateError>>
      BY <1>9, <2>2 DEF ClientReady
    <3>2. Range(m_players') = Range(m_players) \union {p}
      BY <3>1, AppendRange
    <3>3. Logins' /\ Joins' /\ Leaves' /\ NoStateError'
      BY <3>1
    <3>4. Players'
      BY <3>1, <3>2
    <3> QED BY <1>0, <3>3, <3>4
  <2> QED BY <2>1, <2>2
<1>10. ASSUME SetClientReady(p) PROVE SessionInv'
  BY <1>10 DEF SetClientReady
<1>11. ASSUME Kick(p) PROVE SessionInv'
  BY <1>11 DEF Kick
<1>12. ASSUME PeerLost(p) PROVE SessionInv'
  BY <1>12 DEF PeerLost
<1>13. ASSUME Linger(p) PROVE SessionInv'
  BY <1>13 DEF Linger
<1>14. ASSUME DeletingPeer(p) PROVE SessionInv'
  <2>1. Logins' /\ Joins' /\ NoStateError'
    BY <1>14 DEF DeletingPeer
  <2>2. Leaves'
    BY <1>14 DEF DeletingPeer
  <2>3. Players'
    BY <1>14 DEF DeletingPeer
  <2> QED BY <1>0, <2>1, <2>2, <2>3
<1>16. ASSUME Disconnected(p) PROVE SessionInv'
  BY <1>0, <1>16 DEF Disconnected
<1>17. ASSUME DeleteClient(p) PROVE SessionInv'
  <2>1. Logins' /\ Joins' /\ NoStateError'
    BY <1>17 DEF DeleteClient
  <2>2. Leaves'
    BY <1>17 DEF DeleteClient
  <2>3. Players'
    BY <1>17 DEF DeleteClient
  <2> QED BY <1>0, <2>1, <2>2, <2>3
<1>15. ASSUME RemoveLeaving(p) PROVE SessionInv'
  <2>1. PICK i \in DOMAIN m_players :
          m_players[i] = p /\ m_players' = RemoveAt(m_players, i)
    BY <1>15 DEF RemoveLeaving
  <2>2. /\ Range(m_players') \subseteq Range(m_players)
        /\ \A q \in Range(m_players) : q = p \/ q \in Range(m_players')
    BY <2>1, RemoveAtRange
  <2>3. Logins' /\ Joins' /\ Leaves' /\ NoStateError'
    BY <1>15 DEF RemoveLeaving
  <2>4. Players'
    BY <1>15, <2>2 DEF RemoveLeaving, IsLeaving
  <2> QED BY <1>0, <2>3, <2>4
<1> QED BY <1>1, <1>2, <1>3, <1>4, <1>5, <1>6, <1>7, <1>8,
           <1>9, <1>10, <1>11, <1>12, <1>13, <1>14, <1>15, <1>16, <1>17 DEF SessionActions

(* What no handler does: it changes the name of a client that it has said  *)
(* hello to, and nobody but SetClientReady() makes a client active.        *)
LEMMA SessionStep ==
  ASSUME SessionInv, NEW p \in Clients, SessionActions(p)
  PROVE  /\ \A q \in Clients : state[q] # "Created" => name'[q] = name[q]
         /\ \A q \in Clients : state[q] = "deleted" => state'[q] = "deleted"
         /\ \A q \in Clients : Playing(q)' => Playing(q) \/ (SetClientReady(p) /\ q = p)
         /\ ClientReady(p) \/ connected' \subseteq connected
         /\ \/ ClientReady(p) \/ SetClientReady(p)
            \/ joining' = joining
<1> USE AfterValues, SessionsAssumption
        DEF SessionInv, SessionTypes, Logins, LoginOK, Named, Past, Playing, Joins, Leaves,
            Players, PlayerOK, NoStateError, States, LinkPlaces, DenyAccess, Become, Drop,
            Event, Refuse, WantSudo, Idle, Receiving, IsNewPlayer, CanEmerge, authVars,
            playerVars
<1>1. CASE PeerAdded(p)
  BY <1>1 DEF PeerAdded
<1>2. CASE \E n \in Names : InitDenied(p, n) \/ HandleInit(p, n)
  BY <1>2 DEF InitDenied, HandleInit
<1>3. CASE Register(p)
  BY <1>3 DEF Register
<1>4. CASE ChangePassword(p)
  BY <1>4 DEF ChangePassword
<1>5. CASE SrpBytesA(p)
  BY <1>5 DEF SrpBytesA
<1>6. CASE SrpBytesM(p)
  BY <1>6 DEF SrpBytesM
<1>7. CASE Init2(p)
  BY <1>7 DEF Init2
<1>8. CASE ClientReady(p)
  BY <1>8 DEF ClientReady
<1>9. CASE SetClientReady(p)
  BY <1>9 DEF SetClientReady
<1>10. CASE Kick(p)
  BY <1>10 DEF Kick
<1>11. CASE PeerLost(p) \/ Linger(p) \/ RemoveLeaving(p)
  BY <1>11 DEF PeerLost, Linger, RemoveLeaving
<1>12. CASE DeletingPeer(p) \/ Disconnected(p) \/ DeleteClient(p)
  BY <1>12 DEF DeletingPeer, Disconnected, DeleteClient
<1> QED BY <1>1, <1>2, <1>3, <1>4, <1>5, <1>6, <1>7, <1>8, <1>9, <1>10, <1>11,
           <1>12 DEF SessionActions

LEMMA SessionInvStep == SessionInv /\ [SessionsNext]_sessionVars => SessionInv'
<1> SUFFICES ASSUME SessionInv, [SessionsNext]_sessionVars PROVE SessionInv'
  OBVIOUS
<1>1. CASE UNCHANGED sessionVars
  BY <1>1 DEF sessionVars, SessionInv, SessionTypes, Logins, LoginOK, Named, Past,
     Joins, Leaves, Players, PlayerOK, Playing, NoStateError
<1>2. CASE SessionsNext
  BY <1>2, ActionInv DEF SessionsNext, SessionActions
<1> QED BY <1>1, <1>2

LEMMA SessionInvInit == SessionsInit => SessionInv
BY SessionsAssumption DEF SessionsInit, SessionInv, SessionTypes, Logins, LoginOK, Named, Past,
   Joins, Leaves, Players, PlayerOK, Playing, NoStateError, States, LinkPlaces, Range

(* No order of packets makes a handler signal an event its client's state  *)
(* has no transition for, however clients log in, are kicked and leave.    *)
THEOREM NoStateErrorCorrect == SessionsSpec => []NoStateError
<1>1. SessionInv => NoStateError
  BY DEF SessionInv
<1> QED BY <1>1, SessionInvInit, SessionInvStep, PTL DEF SessionsSpec

(* An active client has a connected player in the environment, at every     *)
(* step of every thread: CSE_Disconnect comes before the player loses its  *)
(* peer id, which comes before the client is deleted.                      *)
THEOREM ActiveHasPlayerCorrect == SessionsSpec => []ActiveHasPlayer
<1>1. SessionInv => ActiveHasPlayer
  BY DEF SessionInv, Players, PlayerOK, Playing, ActiveHasPlayer
<1> QED BY <1>1, SessionInvInit, SessionInvStep, PTL DEF SessionsSpec

(* However logins interleave, the account of a name is created once, and   *)
(* who is past authentication has one.                                     *)
THEOREM AccountCreatedOnceCorrect == SessionsSpec => []AccountCreatedOnce
<1>1. SessionInv => AccountCreatedOnce
  BY DEF SessionInv, Logins, LoginOK, Past, Playing, AccountCreatedOnce
<1> QED BY <1>1, SessionInvInit, SessionInvStep, PTL DEF SessionsSpec

-----------------------------------------------------------------------------
(* The user limit.                                                         *)

ActiveClients == {p \in Clients : Playing(p)}
Counted == {p \in ActiveClients : name[p] \notin Bypass}

LimitInv == Room /\ Cardinality(Counted) <= MaxUsers

LEMMA ActiveCounts ==
  ASSUME NEW A, A \subseteq Clients
  PROVE  /\ IsFiniteSet(A) /\ Cardinality(A) \in Nat
         /\ \A B : B \subseteq A => Cardinality(B) <= Cardinality(A)
         /\ \A p : Cardinality(A \union {p}) <= Cardinality(A) + 1
<1>1. IsFiniteSet(A) /\ Cardinality(A) \in Nat
  BY SessionsAssumption, FS_Subset, FS_CardinalityType
<1> QED BY <1>1, FS_Subset, FS_AddElement

LEMMA NoNewcomer ==
  ASSUME SessionInv, LimitInv, ActiveClients' \subseteq ActiveClients,
         \A q \in Clients : state[q] # "Created" => name'[q] = name[q]
  PROVE  /\ Cardinality(Counted') <= MaxUsers
         /\ Cardinality(ActiveClients') <= Cardinality(ActiveClients)
<1>1. ActiveClients \subseteq Clients /\ Counted \subseteq Clients
  BY DEF ActiveClients, Counted
<1>2. Counted' \subseteq Counted
  BY DEF Counted, ActiveClients, Playing
<1>3. /\ Cardinality(Counted') \in Nat /\ Cardinality(Counted') <= Cardinality(Counted)
      /\ Cardinality(Counted) \in Nat
  BY <1>1, <1>2, ActiveCounts
<1> QED BY <1>1, <1>3, ActiveCounts, SessionsAssumption DEF LimitInv

LEMMA LimitStep ==
  ASSUME SessionInv, LimitInv, [SessionsNext]_sessionVars
  PROVE  LimitInv'
<1>0. ActiveClients \subseteq Clients /\ Counted \subseteq Clients /\ MaxUsers \in Nat
  BY SessionsAssumption DEF ActiveClients, Counted
<1>00. Cardinality(ActiveClients) \in Nat
  BY <1>0, ActiveCounts
<1>1. CASE UNCHANGED sessionVars
  BY <1>1 DEF sessionVars, LimitInv, Room, Counted, ActiveClients, Playing
<1>2. ASSUME NEW p \in Clients, SetClientReady(p) PROVE LimitInv'
  <2>1. joining = p /\ joining' = NoClient /\ UNCHANGED name
    BY <1>2 DEF SetClientReady, authVars
  <2>2. ActiveClients' \subseteq ActiveClients \union {p}
    BY <1>2, SessionStep DEF SessionActions, ActiveClients
  <2>3. CASE name[p] \in Bypass
    <3>1. Counted' \subseteq Counted
      BY <2>1, <2>2, <2>3 DEF Counted
    <3>2. Cardinality(Counted') <= Cardinality(Counted)
      BY <1>0, <3>1, ActiveCounts
    <3>3. Cardinality(Counted') \in Nat /\ Cardinality(Counted) \in Nat
      BY <1>0, <3>1, ActiveCounts
    <3> QED BY <1>0, <2>1, <3>2, <3>3 DEF LimitInv, Room
  <2>4. CASE name[p] \notin Bypass
    <3>1. Cardinality(ActiveClients) < MaxUsers
      BY <1>2, <2>1, <2>4, SessionsAssumption DEF LimitInv, Room, ActiveClients
    <3>2. Counted' \subseteq ActiveClients \union {p}
      BY <2>2 DEF Counted
    <3>3. ActiveClients \union {p} \subseteq Clients
      BY <1>0, <1>2
    <3>4. /\ Cardinality(Counted') <= Cardinality(ActiveClients \union {p})
          /\ Cardinality(ActiveClients \union {p}) <= Cardinality(ActiveClients) + 1
          /\ Cardinality(Counted') \in Nat
          /\ Cardinality(ActiveClients \union {p}) \in Nat
      BY <1>0, <3>2, <3>3, ActiveCounts
    <3> QED BY <1>0, <1>00, <2>1, <3>1, <3>4 DEF LimitInv, Room
  <2> QED BY <2>3, <2>4
<1>3. ASSUME NEW p \in Clients, ClientReady(p), ~ SetClientReady(p) PROVE LimitInv'
  <2>1. ActiveClients' \subseteq ActiveClients
    BY <1>3, SessionStep DEF SessionActions, ActiveClients
  <2>2. /\ Cardinality(Counted') <= MaxUsers
        /\ Cardinality(ActiveClients') <= Cardinality(ActiveClients)
    BY <1>3, <2>1, SessionStep, NoNewcomer DEF SessionActions
  <2>3. Cardinality(ActiveClients') \in Nat
    BY <1>0, <2>1, ActiveCounts
  <2>4. CASE DenyAccess(p) /\ UNCHANGED playerVars
    BY <1>3, <2>2, <2>4 DEF ClientReady, Receiving, Idle, playerVars, LimitInv, Room
  <2>5. CASE ~ (DenyAccess(p) /\ UNCHANGED playerVars)
    <3>1. joining' = p /\ UNCHANGED name
      BY <1>3, <2>5 DEF ClientReady, authVars
    <3>2. name[p] \notin Bypass => Cardinality(ActiveClients) < MaxUsers
      BY <1>0, <1>00, <1>3, <2>5 DEF ClientReady, FinallyFull, UserLimitReached, ActiveClients, Playing
    <3> QED BY <1>0, <1>00, <2>2, <2>3, <3>1, <3>2 DEF LimitInv, Room, ActiveClients
  <2> QED BY <2>4, <2>5
<1>4. ASSUME SessionsNext, \A p \in Clients : ~ ClientReady(p) /\ ~ SetClientReady(p)
      PROVE  LimitInv'
  <2>1. /\ ActiveClients' \subseteq ActiveClients /\ joining' = joining
        /\ \A q \in Clients : state[q] # "Created" => name'[q] = name[q]
    BY <1>4, SessionStep DEF SessionsNext, SessionActions, ActiveClients
  <2>2. /\ Cardinality(Counted') <= MaxUsers
        /\ Cardinality(ActiveClients') <= Cardinality(ActiveClients)
    BY <2>1, NoNewcomer
  <2>3. Cardinality(ActiveClients') \in Nat
    BY <1>0, <2>1, ActiveCounts
  <2>4. joining # NoClient => joining \in Clients /\ name'[joining] = name[joining]
    BY <2>1 DEF SessionInv, SessionTypes, Joins
  <2> QED BY <1>0, <1>00, <2>1, <2>2, <2>3, <2>4 DEF LimitInv, Room, ActiveClients
<1> QED BY <1>1, <1>2, <1>3, <1>4 DEF SessionsNext

(* "two could race the join process so we have to do a final check for the *)
(* user limit here": after it the limit holds for any number of clients.   *)
THEOREM UserLimitCorrect == SessionsSpec => []UserLimitHeld
<1>1. SessionsInit => LimitInv
  <2>1. ASSUME SessionsInit PROVE Counted = {} /\ joining = NoClient
    BY <2>1 DEF SessionsInit, Counted, ActiveClients, Playing
  <2> QED BY <2>1, FS_EmptySet, SessionsAssumption DEF LimitInv, Room
<1>2. LimitInv => UserLimitHeld
  <2>1. Counted = {p \in Clients : /\ state[p] \in {"Active", "SudoMode"}
                                   /\ name[p] \notin Bypass}
    BY DEF Counted, ActiveClients, Playing
  <2> QED BY <2>1 DEF LimitInv, UserLimitHeld
<1>3. SessionInv /\ LimitInv /\ [SessionsNext]_sessionVars => SessionInv' /\ LimitInv'
  BY SessionInvStep, LimitStep
<1> QED BY <1>1, <1>2, <1>3, SessionInvInit, PTL DEF SessionsSpec

-----------------------------------------------------------------------------
(* Two clients of one name.                                                *)

(* Who is refused by IsConnected() is connected, or somebody who has left  *)
(* stands before him.                                                      *)
LEMMA FirstHasLeft ==
  ASSUME SessionInv, Idle, NEW q \in connected, ~ IsConnected(name[q])
  PROVE  \E r \in Clients : name[r] = name[q] /\ state[r] = "deleted"
<1> DEFINE I == {i \in DOMAIN m_players : name[m_players[i]] = name[q]}
<1>1. m_players \in Seq(Clients) /\ q \in Clients /\ q \in Range(m_players)
  BY DEF SessionInv, SessionTypes, Players, PlayerOK
<1>2. I \subseteq Nat /\ I # {}
  BY <1>1 DEF Range
<1>3. PICK i \in I : \A j \in I : i <= j
  <2> HIDE DEF I
  <2> QED BY <1>2, LeastNatural
<1>4. IsFirstOf(name[q], i)
  BY <1>1, <1>3 DEF IsFirstOf
<1>5. m_players[i] \notin connected
  BY <1>3, <1>4 DEF IsConnected
<1>6. m_players[i] \in Clients /\ m_players[i] \in Range(m_players)
  BY <1>1, <1>3 DEF Range
<1>7. m_players[i] # NoClient
  BY <1>6, SessionsAssumption
<1> QED BY <1>3, <1>5, <1>6, <1>7 DEF SessionInv, Players, PlayerOK, Idle

LEMMA LoginRaceStep ==
  ASSUME SessionInv, LoginRaceSafe, [SessionsNext]_sessionVars
  PROVE  LoginRaceSafe'
<1>1. CASE UNCHANGED sessionVars
  BY <1>1 DEF sessionVars, LoginRaceSafe, Namesakes
<1>2. ASSUME NEW p \in Clients, ClientReady(p) PROVE LoginRaceSafe'
  <2>1. CASE DenyAccess(p) /\ UNCHANGED playerVars
    <3>1. UNCHANGED <<connected, name>>
      BY <1>2, <2>1 DEF ClientReady, authVars, playerVars
    <3>2. \A r \in Clients : state[r] = "deleted" => state'[r] = "deleted"
      BY <1>2, SessionStep DEF SessionActions
    <3> QED BY <3>1, <3>2 DEF LoginRaceSafe, Namesakes
  <2>2. CASE ~ (DenyAccess(p) /\ UNCHANGED playerVars)
    <3>1. connected' = connected \union {p} /\ UNCHANGED <<name, state>>
      BY <1>2, <2>2 DEF ClientReady, authVars
    <3>2. Idle /\ ~ IsConnected(name[p])
      BY <1>2, <2>2 DEF ClientReady, Receiving, CanEmerge
    <3>3. ASSUME NEW q \in connected, name[q] = name[p]
          PROVE  \E r \in Clients : name[r] = name[p] /\ state[r] = "deleted"
      BY <3>2, <3>3, FirstHasLeft
    <3> QED BY <3>1, <3>3 DEF LoginRaceSafe, Namesakes
  <2> QED BY <2>1, <2>2
<1>3. ASSUME SessionsNext, \A p \in Clients : ~ ClientReady(p) PROVE LoginRaceSafe'
  <2>1. /\ connected' \subseteq connected
        /\ \A q \in Clients : state[q] # "Created" => name'[q] = name[q]
        /\ \A r \in Clients : state[r] = "deleted" => state'[r] = "deleted"
    BY <1>3, SessionStep DEF SessionsNext, SessionActions
  <2>2. \A q \in connected : q \in Clients /\ state[q] # "Created"
    BY SessionsAssumption
       DEF SessionInv, SessionTypes, Players, PlayerOK, Playing, Joins, Leaves
  <2> QED BY <2>1, <2>2 DEF LoginRaceSafe, Namesakes
<1> QED BY <1>1, <1>2, <1>3 DEF SessionsNext

(* Clients that race through login with one name do not both get a player, *)
(* as long as nobody of that name has left before.                         *)
THEOREM LoginRaceCorrect == SessionsSpec => []LoginRaceSafe
<1>1. SessionsInit => LoginRaceSafe
  BY DEF SessionsInit, LoginRaceSafe
<1>2. SessionInv /\ LoginRaceSafe /\ [SessionsNext]_sessionVars => SessionInv' /\ LoginRaceSafe'
  BY SessionInvStep, LoginRaceStep
<1> QED BY <1>1, <1>2, SessionInvInit, PTL DEF SessionsSpec

-----------------------------------------------------------------------------
(* Asynchronous jobs: where a job is, and what has become of it.           *)

Places == {"none", "loop", "wait", "woken", "got", "run", "ended"}

AsyncTypes ==
  /\ jobIdCounter \in Nat /\ jobQueue \in Seq(Jobs) /\ jobQueueCounter \in Nat
  /\ resultQueue \in Seq(Jobs) /\ workerPc \in [Workers -> Places]
  /\ workerJob \in [Workers -> Jobs \union {NoJob}]
  /\ engine \in {"up", "stopping", "posted", "joined"}
  /\ queueing \in Jobs \union {NoJob}
  /\ ran \in [Jobs -> Nat] /\ called \in [Jobs -> Nat]

Waits(j)    == j \in Range(jobQueue)
Taken(j)    == \E w \in Workers : workerJob[w] = j
Finished(j) == j \in Range(resultQueue)

(* A job is in one place at a time: in the queue, with one worker, among   *)
(* the results, or gone; and ran and called say which of these it was in.  *)
JobOK(j) ==
  /\ Waits(j) => /\ ran[j] = 0 /\ called[j] = 0
                 /\ j \notin cancelled /\ ~ Finished(j) /\ ~ Taken(j)
  /\ \A w \in Workers : workerJob[w] = j =>
       /\ called[j] = 0 /\ j \notin cancelled /\ ~ Finished(j)
       /\ ran[j] = IF workerPc[w] = "run" THEN 1 ELSE 0
       /\ \A v \in Workers : workerJob[v] = j => v = w
  /\ Finished(j) => ran[j] = 1 /\ called[j] = 0 /\ j \notin cancelled
  /\ j \in cancelled => ran[j] = 0
  /\ called[j] <= ran[j] /\ ran[j] <= 1
  /\ j > jobIdCounter => /\ ran[j] = 0 /\ j \notin cancelled
                         /\ ~ Waits(j) /\ ~ Finished(j) /\ ~ Taken(j)

JobPlaces == /\ IsInjective(jobQueue) /\ IsInjective(resultQueue)
             /\ \A j \in Jobs : JobOK(j)

(* A worker keeps the job it did not run only when it is told to stop.     *)
WorkerOK(w) ==
  /\ workerPc[w] \in {"got", "run"} => workerJob[w] # NoJob
  /\ workerPc[w] \notin {"got", "run"} /\ workerJob[w] # NoJob =>
       engine # "up" /\ workerPc[w] \in {"loop", "ended"}

(* The callback of a job is stored before it can be needed.                *)
Stored == \A j \in Jobs :
  Waits(j) \/ Taken(j) \/ Finished(j) => j \in async_jobs \/ j = queueing

AsyncInv == /\ AsyncTypes /\ JobPlaces /\ Stored /\ \A w \in Workers : WorkerOK(w)

LEMMA AsyncInvInit == AsyncInit => AsyncInv
<1> SUFFICES ASSUME AsyncInit PROVE AsyncInv
  OBVIOUS
<1>1. Range(<<>>) = {} /\ IsInjective(<<>>)
  BY DEF Range, IsInjective
<1> QED BY <1>1, AsyncAssumption DEF AsyncInit, AsyncInv, AsyncTypes, JobPlaces, JobOK,
           Stored, WorkerOK, Waits, Taken, Finished, Jobs, Places

(* What Lua does.                                                          *)
LEMMA QueueAsyncJobInv == AsyncInv /\ QueueAsyncJob => AsyncInv'
<1> SUFFICES ASSUME AsyncInv, QueueAsyncJob PROVE AsyncInv'
  OBVIOUS
<1> DEFINE id == jobIdCounter + 1
<1>1. /\ id \in Jobs /\ id \in Nat /\ jobIdCounter' = id /\ queueing' = id /\ queueing = NoJob
      /\ jobQueue' = Append(jobQueue, id) /\ jobQueueCounter' = jobQueueCounter + 1
      /\ UNCHANGED <<resultQueue, workVars, engine, async_jobs, called, cancelled>>
  BY AsyncAssumption DEF AsyncInv, AsyncTypes, QueueAsyncJob, LuaIsFree, Posted, Jobs
<1>2. id \notin Range(jobQueue)
  BY <1>1 DEF AsyncInv, AsyncTypes, JobPlaces, JobOK, Waits
<1> HIDE DEF id
<1>3. /\ jobQueue' \in Seq(Jobs) /\ Range(jobQueue') = Range(jobQueue) \union {id}
      /\ IsInjective(jobQueue')
  BY <1>1, <1>2, AppendRange, AppendOnce DEF AsyncInv, AsyncTypes, JobPlaces
<1>4. AsyncTypes'
  BY <1>1, <1>3 DEF AsyncInv, AsyncTypes, workVars
<1>5. JobPlaces'
  <2>1. ASSUME NEW j \in Jobs PROVE JobOK(j)'
    <3>1. jobIdCounter \in Nat /\ j \in Nat /\ id = jobIdCounter + 1
      BY DEF AsyncInv, AsyncTypes, Jobs, id
    <3> QED BY <1>1, <1>3, <3>1, AsyncAssumption
            DEF AsyncInv, AsyncTypes, JobPlaces, JobOK, Waits, Taken, Finished, workVars
  <2> QED BY <1>1, <1>3, <2>1 DEF AsyncInv, JobPlaces
<1>6. Stored'
  BY <1>1, <1>3, AsyncAssumption DEF AsyncInv, Stored, Waits, Taken, Finished, workVars, Jobs
<1>7. \A w \in Workers : WorkerOK(w)'
  BY <1>1 DEF AsyncInv, WorkerOK, workVars
<1> QED BY <1>4, <1>5, <1>6, <1>7 DEF AsyncInv

LEMMA StoreCallbackInv == AsyncInv /\ StoreCallback => AsyncInv'
BY DEF AsyncInv, AsyncTypes, JobPlaces, JobOK, Stored, WorkerOK, Waits, Taken, Finished,
       StoreCallback, queueVars, workVars

LEMMA CancelAsyncJobInv ==
  ASSUME AsyncInv, NEW j \in Jobs, CancelAsyncJob(j) PROVE AsyncInv'
<1> DEFINE i == CHOOSE i \in DOMAIN jobQueue : jobQueue[i] = j
<1>1. /\ j \in Range(jobQueue) /\ jobQueue' = RemoveAt(jobQueue, i)
      /\ async_jobs' = async_jobs \ {j} /\ cancelled' = cancelled \union {j}
      /\ UNCHANGED <<jobIdCounter, jobQueueCounter, resultQueue, workVars,
                     engine, queueing, called>>
  BY DEF CancelAsyncJob, Without
<1>2. i \in DOMAIN jobQueue /\ jobQueue[i] = j
  BY <1>1 DEF Range
<1> HIDE DEF i
<1>3. /\ jobQueue' \in Seq(Jobs) /\ IsInjective(jobQueue')
      /\ Range(jobQueue') = Range(jobQueue) \ {j}
  BY <1>1, <1>2, RemoveAtElements, RemoveAtOnce DEF AsyncInv, AsyncTypes, JobPlaces
<1>4. AsyncTypes'
  BY <1>1, <1>3 DEF AsyncInv, AsyncTypes, workVars
<1>5. JobPlaces'
  <2>1. ASSUME NEW k \in Jobs PROVE JobOK(k)'
    BY <1>1, <1>3 DEF AsyncInv, AsyncTypes, JobPlaces, JobOK, Waits, Taken, Finished,
                      workVars, Jobs
  <2> QED BY <1>1, <1>3, <2>1 DEF AsyncInv, JobPlaces
<1>6. Stored'
  BY <1>1, <1>3 DEF AsyncInv, JobPlaces, JobOK, Stored, Waits, Taken, Finished, workVars
<1>7. \A w \in Workers : WorkerOK(w)'
  BY <1>1 DEF AsyncInv, WorkerOK, workVars
<1> QED BY <1>4, <1>5, <1>6, <1>7 DEF AsyncInv

LEMMA StepJobResultInv == AsyncInv /\ StepJobResult => AsyncInv'
<1> SUFFICES ASSUME AsyncInv, StepJobResult PROVE AsyncInv'
  OBVIOUS
<1> DEFINE h == Head(resultQueue)
<1>1. /\ resultQueue # <<>> /\ resultQueue' = Tail(resultQueue)
      /\ called' = [called EXCEPT ![h] = @ + 1] /\ async_jobs' = async_jobs \ {h}
      /\ UNCHANGED <<queueVars, workVars, engine, queueing, cancelled>>
  BY DEF StepJobResult
<1>2. /\ resultQueue' \in Seq(Jobs) /\ IsInjective(resultQueue') /\ h \in Range(resultQueue)
      /\ Range(resultQueue') = Range(resultQueue) \ {h}
  BY <1>1, TailOnce DEF AsyncInv, AsyncTypes, JobPlaces
<1>3. h \in Jobs
  BY <1>2, RangeIn DEF AsyncInv, AsyncTypes
<1> HIDE DEF h
<1>4. AsyncTypes'
  <2>1. called' \in [Jobs -> Nat]
    BY <1>1, <1>3 DEF AsyncInv, AsyncTypes
  <2> QED BY <1>1, <1>2, <2>1 DEF AsyncInv, AsyncTypes, workVars, queueVars
<1>5. JobPlaces'
  <2>1. ASSUME NEW j \in Jobs PROVE JobOK(j)'
    BY <1>1, <1>2, <1>3 DEF AsyncInv, AsyncTypes, JobPlaces, JobOK, Waits, Taken, Finished,
                            workVars, queueVars
  <2> QED BY <1>1, <1>2, <2>1 DEF AsyncInv, JobPlaces, queueVars
<1>6. Stored'
  BY <1>1, <1>2 DEF AsyncInv, JobPlaces, JobOK, Stored, Waits, Taken, Finished,
                    workVars, queueVars
<1>7. \A w \in Workers : WorkerOK(w)'
  BY <1>1 DEF AsyncInv, WorkerOK, workVars
<1> QED BY <1>4, <1>5, <1>6, <1>7 DEF AsyncInv

LEMMA AutoscaleInv == AsyncInv /\ (NoteWaiting \/ AddWorkers) => AsyncInv'
<1> SUFFICES ASSUME AsyncInv, NoteWaiting \/ AddWorkers PROVE AsyncInv'
  OBVIOUS
<1>1. /\ engine = "up"
      /\ UNCHANGED <<queueVars, resultQueue, workerJob, ran, engine, luaVars>>
      /\ workerPc' \in [Workers -> Places]
      /\ \A w \in Workers : workerPc'[w] = workerPc[w]
                            \/ (workerPc[w] = "none" /\ workerPc'[w] = "loop")
  BY DEF NoteWaiting, AddWorkers, LuaIsFree, workVars, AsyncInv, AsyncTypes, Places
<1>2. AsyncTypes'
  BY <1>1 DEF AsyncInv, AsyncTypes, queueVars, luaVars
<1>3. ASSUME NEW j \in Jobs PROVE JobOK(j)'
  BY <1>1 DEF AsyncInv, JobPlaces, JobOK, Waits, Taken, Finished, queueVars, luaVars
<1>4. JobPlaces'
  BY <1>1, <1>3 DEF AsyncInv, JobPlaces, queueVars
<1>5. Stored'
  BY <1>1 DEF AsyncInv, Stored, Waits, Taken, Finished, queueVars, luaVars
<1>6. \A w \in Workers : WorkerOK(w)'
  BY <1>1 DEF AsyncInv, WorkerOK
<1> QED BY <1>2, <1>4, <1>5, <1>6 DEF AsyncInv

(* What a worker does.                                                     *)
LEMMA WorkerInv ==
  ASSUME AsyncInv, NEW w \in Workers,
         \/ WorkerLoop(w) \/ WaitForJob(w) \/ TakeJob(w) \/ RunJob(w) \/ PutJobResult(w)
  PROVE  AsyncInv'
<1> USE DEF Advance, queueVars, luaVars
<1>1. CASE WorkerLoop(w) \/ WaitForJob(w)
  <2>1. /\ UNCHANGED <<jobIdCounter, jobQueue, resultQueue, workerJob, ran, engine, luaVars>>
        /\ jobQueueCounter' \in Nat /\ workerPc[w] \in {"loop", "wait"}
        /\ \E to \in {"ended", "wait", "woken"} :
             workerPc' = [workerPc EXCEPT ![w] = to] /\ (to # "ended" => workerJob[w] = NoJob)
    <3>1. CASE WorkerLoop(w)
      BY <3>1 DEF WorkerLoop, StopRequested, AsyncInv, AsyncTypes, WorkerOK
    <3>2. CASE WaitForJob(w)
      <4>1. jobQueueCounter \in Nat /\ (workerPc[w] = "wait" => workerJob[w] = NoJob)
        BY DEF AsyncInv, AsyncTypes, WorkerOK
      <4>2. jobQueueCounter' \in Nat
        BY <3>2, <4>1 DEF WaitForJob
      <4> QED BY <3>2, <4>1, <4>2 DEF WaitForJob
    <3> QED BY <1>1, <3>1, <3>2
  <2>2. AsyncTypes'
    BY <2>1 DEF AsyncInv, AsyncTypes, Places
  <2>3. ASSUME NEW j \in Jobs PROVE JobOK(j)'
    BY <2>1 DEF AsyncInv, AsyncTypes, JobPlaces, JobOK, Waits, Taken, Finished
  <2>4. JobPlaces' /\ Stored'
    BY <2>1, <2>3 DEF AsyncInv, JobPlaces, Stored, Waits, Taken, Finished
  <2>5. ASSUME NEW v \in Workers PROVE WorkerOK(v)'
    BY <2>1 DEF AsyncInv, AsyncTypes, WorkerOK
  <2> QED BY <2>2, <2>4, <2>5 DEF AsyncInv
<1>2. CASE TakeJob(w) /\ jobQueue = <<>>
  <2>1. /\ UNCHANGED <<queueVars, resultQueue, workerJob, ran, engine, luaVars>>
        /\ workerPc[w] = "woken" /\ workerPc' = [workerPc EXCEPT ![w] = "loop"]
    BY <1>2 DEF TakeJob
  <2>2. AsyncTypes'
    BY <2>1 DEF AsyncInv, AsyncTypes, Places
  <2>3. ASSUME NEW j \in Jobs PROVE JobOK(j)'
    BY <2>1 DEF AsyncInv, AsyncTypes, JobPlaces, JobOK, Waits, Taken, Finished
  <2>4. JobPlaces' /\ Stored'
    BY <2>1, <2>3 DEF AsyncInv, JobPlaces, Stored, Waits, Taken, Finished
  <2>5. ASSUME NEW v \in Workers PROVE WorkerOK(v)'
    BY <2>1 DEF AsyncInv, AsyncTypes, WorkerOK
  <2> QED BY <2>2, <2>4, <2>5 DEF AsyncInv
<1>3. CASE TakeJob(w) /\ jobQueue # <<>>
  <2> DEFINE h == Head(jobQueue)
  <2>1. /\ jobQueue' = Tail(jobQueue) /\ workerJob' = [workerJob EXCEPT ![w] = h]
        /\ workerPc[w] = "woken" /\ workerPc' = [workerPc EXCEPT ![w] = "got"]
        /\ UNCHANGED <<jobIdCounter, jobQueueCounter, resultQueue, ran, engine, luaVars>>
        /\ workerJob[w] = NoJob
    BY <1>3 DEF TakeJob, AsyncInv, WorkerOK
  <2>2. /\ jobQueue' \in Seq(Jobs) /\ IsInjective(jobQueue') /\ h \in Range(jobQueue)
        /\ Range(jobQueue') = Range(jobQueue) \ {h}
    BY <1>3, <2>1, TailOnce DEF AsyncInv, AsyncTypes, JobPlaces
  <2>3. h \in Jobs /\ h # NoJob
    <3>1. h \in Jobs
      BY <2>2, RangeIn DEF AsyncInv, AsyncTypes
    <3> QED BY <3>1, AsyncAssumption DEF Jobs
  <2> HIDE DEF h
  <2>4. AsyncTypes'
    BY <2>1, <2>2, <2>3 DEF AsyncInv, AsyncTypes, Places
  <2>5. ASSUME NEW j \in Jobs PROVE JobOK(j)'
    BY <2>1, <2>2, <2>3 DEF AsyncInv, AsyncTypes, JobPlaces, JobOK, Waits, Taken, Finished
  <2>6. JobPlaces'
    BY <2>1, <2>2, <2>5 DEF AsyncInv, JobPlaces
  <2>7. Stored'
    BY <2>1, <2>2, <2>3 DEF AsyncInv, AsyncTypes, Stored, Waits, Taken, Finished
  <2>8. ASSUME NEW v \in Workers PROVE WorkerOK(v)'
    BY <2>1, <2>3 DEF AsyncInv, AsyncTypes, WorkerOK
  <2> QED BY <2>4, <2>6, <2>7, <2>8 DEF AsyncInv
<1>4. CASE RunJob(w)
  <2>1. /\ UNCHANGED <<queueVars, resultQueue, workerJob, engine, luaVars>>
        /\ workerPc[w] = "got" /\ workerJob[w] \in Jobs
        /\ \/ /\ workerPc' = [workerPc EXCEPT ![w] = "loop"]
              /\ engine # "up" /\ ran' = ran
           \/ /\ workerPc' = [workerPc EXCEPT ![w] = "run"]
              /\ ran' = [ran EXCEPT ![workerJob[w]] = ran[workerJob[w]] + 1]
    BY <1>4 DEF RunJob, StopRequested, AsyncInv, AsyncTypes, WorkerOK
  <2>2. AsyncTypes'
    <3>1. workerPc' \in [Workers -> Places]
      BY <2>1 DEF AsyncInv, AsyncTypes, Places
    <3>2. ran' \in [Jobs -> Nat]
      <4>1. ran \in [Jobs -> Nat] /\ workerJob[w] \in Jobs
        BY <2>1 DEF AsyncInv, AsyncTypes
      <4>2. ran' = ran \/ ran' = [ran EXCEPT ![workerJob[w]] = ran[workerJob[w]] + 1]
        BY <2>1
      <4> QED BY <4>1, <4>2
    <3> QED BY <2>1, <3>1, <3>2 DEF AsyncInv, AsyncTypes
  <2>3. ASSUME NEW j \in Jobs PROVE JobOK(j)'
    BY <2>1 DEF AsyncInv, AsyncTypes, JobPlaces, JobOK, Waits, Taken, Finished
  <2>4. JobPlaces' /\ Stored'
    BY <2>1, <2>3 DEF AsyncInv, JobPlaces, Stored, Waits, Taken, Finished
  <2>5. ASSUME NEW v \in Workers PROVE WorkerOK(v)'
    BY <2>1, AsyncAssumption DEF AsyncInv, AsyncTypes, WorkerOK, Jobs
  <2> QED BY <2>2, <2>4, <2>5 DEF AsyncInv
<1>5. CASE PutJobResult(w)
  <2> DEFINE h == workerJob[w]
  <2>1. /\ UNCHANGED <<queueVars, ran, engine, luaVars>>
        /\ workerPc[w] = "run" /\ workerPc' = [workerPc EXCEPT ![w] = "loop"]
        /\ workerJob' = [workerJob EXCEPT ![w] = NoJob]
        /\ h \in Jobs /\ h # NoJob
        /\ resultQueue' = resultQueue \/ resultQueue' = Append(resultQueue, h)
    BY <1>5, AsyncAssumption DEF PutJobResult, AsyncInv, AsyncTypes, WorkerOK, Jobs
  <2>2. h \notin Range(resultQueue)
    BY <2>1 DEF AsyncInv, JobPlaces, JobOK, Finished
  <2> HIDE DEF h
  <2>3. /\ resultQueue' \in Seq(Jobs) /\ IsInjective(resultQueue')
        /\ \/ Range(resultQueue') = Range(resultQueue)
           \/ Range(resultQueue') = Range(resultQueue) \union {h}
    <3>1. /\ Append(resultQueue, h) \in Seq(Jobs) /\ IsInjective(Append(resultQueue, h))
          /\ Range(Append(resultQueue, h)) = Range(resultQueue) \union {h}
      BY <2>1, <2>2, AppendRange, AppendOnce DEF AsyncInv, AsyncTypes, JobPlaces
    <3> QED BY <2>1, <3>1 DEF AsyncInv, AsyncTypes, JobPlaces
  <2>4. AsyncTypes'
    BY <2>1, <2>3 DEF AsyncInv, AsyncTypes, Places
  <2>5. ASSUME NEW j \in Jobs PROVE JobOK(j)'
    <3>1. /\ h = workerJob[w] /\ ran[h] = 1 /\ called[h] = 0 /\ h \notin cancelled
          /\ ~ Waits(h) /\ ~ h > jobIdCounter /\ \A v \in Workers : workerJob[v] = h => v = w
      BY <2>1 DEF h, AsyncInv, JobPlaces, JobOK, Taken
    <3>2. CASE j = h
      BY <2>1, <2>3, <3>1, <3>2, AsyncAssumption
         DEF Jobs, AsyncInv, AsyncTypes, JobOK, Waits, Taken, Finished
    <3>3. CASE j # h
      <4>1. JobOK(j) /\ (Finished(j)' <=> Finished(j)) /\ (Waits(j)' <=> Waits(j))
        BY <2>1, <2>3, <3>3 DEF AsyncInv, JobPlaces, Finished, Waits
      <4>2. \A v \in Workers : /\ workerJob'[v] = j <=> workerJob[v] = j
                               /\ workerJob[v] = j => workerPc'[v] = workerPc[v]
        BY <2>1, <3>1, <3>3, AsyncAssumption DEF AsyncInv, AsyncTypes, Jobs
      <4>3. Taken(j)' <=> Taken(j)
        BY <4>2 DEF Taken
      <4> QED BY <2>1, <4>1, <4>2, <4>3 DEF JobOK
    <3> QED BY <3>2, <3>3
  <2>6. JobPlaces'
    BY <2>1, <2>3, <2>5 DEF AsyncInv, JobPlaces
  <2>7. Stored'
    <3>1. ASSUME NEW j \in Jobs, Waits(j)' \/ Taken(j)' \/ Finished(j)'
          PROVE  Waits(j) \/ Taken(j) \/ Finished(j)
      <4>1. Waits(j)' => Waits(j)
        BY <2>1 DEF Waits
      <4>2. Taken(j)' => Taken(j)
        BY <2>1, AsyncAssumption DEF AsyncInv, AsyncTypes, Taken, Jobs
      <4>3. Finished(j)' => Finished(j) \/ Taken(j)
        BY <2>3 DEF Finished, Taken, h
      <4> QED BY <3>1, <4>1, <4>2, <4>3
    <3> QED BY <2>1, <3>1 DEF AsyncInv, Stored
  <2>8. ASSUME NEW v \in Workers PROVE WorkerOK(v)'
    BY <2>1 DEF AsyncInv, AsyncTypes, WorkerOK
  <2> QED BY <2>4, <2>6, <2>7, <2>8 DEF AsyncInv
<1> QED BY <1>1, <1>2, <1>3, <1>4, <1>5

(* The destructor.                                                         *)
LEMMA StoppingInv == AsyncInv /\ (StopWorkers \/ PostForEach \/ JoinWorkers) => AsyncInv'
<1> SUFFICES ASSUME AsyncInv, StopWorkers \/ PostForEach \/ JoinWorkers PROVE AsyncInv'
  OBVIOUS
<1>1. /\ UNCHANGED <<jobIdCounter, resultQueue, workVars, luaVars>>
      /\ engine' \in {"stopping", "posted", "joined"}
      /\ jobQueue' = jobQueue \/ jobQueue' = <<>>
  BY DEF StopWorkers, PostForEach, JoinWorkers, queueVars
<1>2. jobQueueCounter' \in Nat
  <2>1. Started \subseteq Workers
    BY DEF Started
  <2>2. Cardinality(Started) \in Nat
    BY <2>1, AsyncAssumption, FS_Subset, FS_CardinalityType
  <2> QED BY <2>2 DEF AsyncInv, AsyncTypes, StopWorkers, PostForEach, JoinWorkers, Posts, queueVars
<1>3. /\ jobQueue' \in Seq(Jobs) /\ IsInjective(jobQueue')
      /\ Range(jobQueue') \subseteq Range(jobQueue)
  <2>1. <<>> \in Seq(Jobs) /\ IsInjective(<<>>) /\ Range(<<>>) = {}
    BY DEF IsInjective, Range
  <2> QED BY <1>1, <2>1 DEF AsyncInv, AsyncTypes, JobPlaces
<1>4. AsyncTypes'
  BY <1>1, <1>2, <1>3 DEF AsyncInv, AsyncTypes, workVars, luaVars
<1>5. ASSUME NEW j \in Jobs PROVE JobOK(j)'
  BY <1>1, <1>3 DEF AsyncInv, JobPlaces, JobOK, Waits, Taken, Finished, workVars, luaVars
<1>6. JobPlaces' /\ Stored'
  BY <1>1, <1>3, <1>5 DEF AsyncInv, JobPlaces, Stored, Waits, Taken, Finished, workVars, luaVars
<1>7. ASSUME NEW v \in Workers PROVE WorkerOK(v)'
  BY <1>1 DEF AsyncInv, WorkerOK, workVars
<1> QED BY <1>4, <1>6, <1>7 DEF AsyncInv

LEMMA AsyncInvStep == AsyncInv /\ [AsyncNext]_asyncVars => AsyncInv'
<1> SUFFICES ASSUME AsyncInv, [AsyncNext]_asyncVars PROVE AsyncInv'
  OBVIOUS
<1>1. CASE UNCHANGED asyncVars
  BY <1>1 DEF asyncVars, AsyncInv, AsyncTypes, JobPlaces, JobOK, Stored, WorkerOK,
              Waits, Taken, Finished
<1>2. CASE AsyncNext
  BY <1>2, QueueAsyncJobInv, StoreCallbackInv, CancelAsyncJobInv, StepJobResultInv,
     AutoscaleInv, WorkerInv, StoppingInv DEF AsyncNext
<1> QED BY <1>1, <1>2

(* "A job can only be cancelled if it has not started": cancel() is only   *)
(* ever told so of a job that no worker runs, and no job runs or calls     *)
(* back twice, whatever is queued, cancelled, stopped and scaled.          *)
THEOREM CancelledNeverRunsCorrect == AsyncSpec => []CancelledNeverRuns
<1>1. AsyncInv => CancelledNeverRuns
  BY DEF AsyncInv, JobPlaces, JobOK, CancelledNeverRuns
<1> QED BY <1>1, AsyncInvInit, AsyncInvStep, PTL DEF AsyncSpec

(* A result that Lua is handed finds its callback, also that of a job that *)
(* was done before core.handle_async() went on to store it.                *)
THEOREM CallbackStoredCorrect == AsyncSpec => []CallbackStored
<1>1. AsyncInv => CallbackStored
  <2> SUFFICES ASSUME AsyncInv, LuaIsFree, NEW j \in Range(resultQueue)
               PROVE  j \in async_jobs
    BY DEF CallbackStored
  <2>1. j \in Jobs
    BY RangeIn DEF AsyncInv, AsyncTypes
  <2>2. j # NoJob
    BY <2>1, AsyncAssumption DEF Jobs
  <2> QED BY <2>1, <2>2 DEF AsyncInv, Stored, Finished, LuaIsFree
<1> QED BY <1>1, AsyncInvInit, AsyncInvStep, PTL DEF AsyncSpec

(* The semaphore.                                                          *)

Woken   == {w \in Workers : workerPc[w] = "woken"}
Waiting == {w \in Workers : workerPc[w] = "wait"}

LEMMA WorkerCounts ==
  ASSUME NEW A, A \subseteq Workers
  PROVE  /\ Cardinality(A) \in Nat
         /\ \A B : B \subseteq A => Cardinality(B) <= Cardinality(A)
         /\ \A w : w \notin A => Cardinality(A \union {w}) = Cardinality(A) + 1
         /\ \A w \in A : Cardinality(A \ {w}) = Cardinality(A) - 1
<1>1. IsFiniteSet(A)
  BY AsyncAssumption, FS_Subset
<1> QED BY <1>1, FS_Subset, FS_CardinalityType, FS_AddElement, FS_RemoveElement

LEMMA WakeupStep ==
  ASSUME AsyncInv, WakeupForEach, [AsyncNext]_asyncVars
  PROVE  WakeupForEach'
<1> DEFINE Wakes == /\ engine = "up" => Len(jobQueue) <= jobQueueCounter + Cardinality(Woken)
                    /\ engine = "posted" => Cardinality(Waiting) <= jobQueueCounter
<1>1. Wakes /\ (Wakes' => WakeupForEach')
  BY DEF WakeupForEach, Woken, Waiting
<1>2. /\ jobQueue \in Seq(Jobs) /\ jobQueueCounter \in Nat /\ Len(jobQueue) \in Nat
      /\ workerPc \in [Workers -> Places]
  BY DEF AsyncInv, AsyncTypes
<1>3. Woken \subseteq Workers /\ Waiting \subseteq Workers
  BY DEF Woken, Waiting
<1>4. Cardinality(Woken) \in Nat /\ Cardinality(Waiting) \in Nat
  BY <1>3, WorkerCounts
<1>5. ASSUME UNCHANGED <<jobQueue, jobQueueCounter, engine>>,
             Woken' = Woken, engine = "posted" => Waiting' = Waiting
      PROVE  Wakes'
  BY <1>1, <1>5
<1> SUFFICES Wakes'
  BY <1>1
<1>6. CASE UNCHANGED asyncVars \/ StoreCallback \/ StepJobResult \/ NoteWaiting
  <2>1. UNCHANGED <<jobQueue, jobQueueCounter, engine>> /\ Woken' = Woken /\ Waiting' = Waiting
    BY <1>6 DEF asyncVars, StoreCallback, StepJobResult, NoteWaiting, queueVars, workVars,
                Woken, Waiting
  <2> QED BY <1>5, <2>1
<1>7. CASE QueueAsyncJob
  <2>1. /\ Len(jobQueue') = Len(jobQueue) + 1 /\ jobQueueCounter' = jobQueueCounter + 1
        /\ engine = "up" /\ engine' = "up" /\ Woken' = Woken
    BY <1>2, <1>7 DEF QueueAsyncJob, LuaIsFree, Posted, workVars, Woken
  <2> QED BY <1>1, <1>2, <1>4, <2>1
<1>8. CASE \E j \in Jobs : CancelAsyncJob(j)
  <2>1. PICK j \in Jobs : CancelAsyncJob(j)
    BY <1>8
  <2>2. /\ engine = "up" /\ engine' = "up" /\ jobQueueCounter' = jobQueueCounter
        /\ Woken' = Woken /\ j \in Range(jobQueue) /\ jobQueue' = Without(j)
    BY <2>1 DEF CancelAsyncJob, LuaIsFree, workVars, Woken
  <2>3. (CHOOSE i \in DOMAIN jobQueue : jobQueue[i] = j) \in DOMAIN jobQueue
    BY <2>2 DEF Range
  <2>4. Len(jobQueue') = Len(jobQueue) - 1
    BY <1>2, <2>2, <2>3, RemoveAtElements DEF Without
  <2> QED BY <1>1, <1>2, <1>4, <2>2, <2>4
<1>9. CASE AddWorkers
  <2>1. UNCHANGED <<jobQueue, jobQueueCounter, engine>> /\ engine = "up" /\ Woken' = Woken
    BY <1>2, <1>9 DEF AddWorkers, LuaIsFree, queueVars, Woken
  <2> QED BY <1>5, <2>1
<1>10. ASSUME NEW w \in Workers, WorkerLoop(w) \/ RunJob(w) \/ PutJobResult(w)
       PROVE  Wakes'
  <2>1. UNCHANGED <<jobQueue, jobQueueCounter, engine>>
    BY <1>10 DEF WorkerLoop, RunJob, PutJobResult, queueVars
  <2>2. /\ workerPc[w] \in {"loop", "got", "run"}
        /\ \E to \in {"ended", "wait", "loop", "run"} :
             workerPc' = [workerPc EXCEPT ![w] = to] /\ (engine = "posted" => to # "wait")
    BY <1>10 DEF WorkerLoop, RunJob, PutJobResult, Advance, StopRequested
  <2>3. Woken' = Woken /\ (engine = "posted" => Waiting' = Waiting)
    BY <1>2, <2>2 DEF Woken, Waiting
  <2> QED BY <1>5, <2>1, <2>3
<1>11. ASSUME NEW w \in Workers, WaitForJob(w) PROVE Wakes'
  <2>1. /\ jobQueueCounter > 0 /\ jobQueueCounter' = jobQueueCounter - 1
        /\ UNCHANGED <<jobQueue, engine>>
        /\ workerPc[w] = "wait" /\ workerPc' = [workerPc EXCEPT ![w] = "woken"]
    BY <1>11 DEF WaitForJob, Advance
  <2>2. /\ Woken' = Woken \union {w} /\ w \notin Woken
        /\ Waiting' = Waiting \ {w} /\ w \in Waiting
    BY <1>2, <2>1 DEF Woken, Waiting
  <2>3. /\ Cardinality(Woken') = Cardinality(Woken) + 1
        /\ Cardinality(Waiting') = Cardinality(Waiting) - 1
    BY <1>3, <2>2, WorkerCounts
  <2> QED BY <1>1, <1>2, <1>4, <2>1, <2>3
<1>12. ASSUME NEW w \in Workers, TakeJob(w) PROVE Wakes'
  <2>1. /\ UNCHANGED <<jobQueueCounter, engine>> /\ workerPc[w] = "woken"
        /\ \E to \in {"got", "loop"} : workerPc' = [workerPc EXCEPT ![w] = to]
        /\ jobQueue' = IF jobQueue = <<>> THEN jobQueue ELSE Tail(jobQueue)
    BY <1>12 DEF TakeJob, Advance
  <2>2. Woken' = Woken \ {w} /\ w \in Woken /\ Waiting' = Waiting
    BY <1>2, <2>1 DEF Woken, Waiting
  <2>3. Cardinality(Woken') = Cardinality(Woken) - 1
    BY <1>3, <2>2, WorkerCounts
  <2>4. Cardinality(Woken) >= 1
    BY <1>3, <1>4, <2>2, <2>3, WorkerCounts
  <2>5. Len(jobQueue') = IF jobQueue = <<>> THEN 0 ELSE Len(jobQueue) - 1
    BY <1>2, <2>1, TailOnce
  <2> QED BY <1>1, <1>2, <1>4, <2>1, <2>2, <2>3, <2>4, <2>5
<1>13. CASE StopWorkers \/ JoinWorkers
  BY <1>13 DEF StopWorkers, JoinWorkers
<1>14. CASE PostForEach
  <2>1. /\ engine' = "posted" /\ Waiting' = Waiting
        /\ jobQueueCounter' = jobQueueCounter + Cardinality(Started)
    BY <1>14 DEF PostForEach, Posts, workVars, Waiting
  <2>2. Started \subseteq Workers /\ Waiting \subseteq Started
    BY DEF Started, Waiting
  <2>3. Cardinality(Started) \in Nat /\ Cardinality(Waiting) <= Cardinality(Started)
    BY <2>2, WorkerCounts
  <2> QED BY <1>2, <1>4, <2>1, <2>3
<1> HIDE DEF Wakes
<1> QED BY <1>6, <1>7, <1>8, <1>9, <1>10, <1>11, <1>12, <1>13, <1>14 DEF AsyncNext

(* No job waits while every worker sleeps, and the destructor, once it has *)
(* posted, wakes every worker it waits for: for any number of either.      *)
THEOREM WakeupCorrect == AsyncSpec => []WakeupForEach
<1>1. AsyncInit => WakeupForEach
  <2>1. ASSUME AsyncInit PROVE Woken = {} /\ Len(jobQueue) = 0 /\ jobQueueCounter = 0
    BY <2>1 DEF AsyncInit, Woken
  <2> QED BY <2>1, FS_EmptySet DEF AsyncInit, WakeupForEach, Woken
<1>2. AsyncInv /\ WakeupForEach /\ [AsyncNext]_asyncVars => AsyncInv' /\ WakeupForEach'
  BY AsyncInvStep, WakeupStep
<1> QED BY <1>1, <1>2, AsyncInvInit, PTL DEF AsyncSpec

-----------------------------------------------------------------------------
(* The sending of blocks: where the block of a client is.                  *)

Edits == [single : BOOLEAN, to : Nat]

SendingTypes ==
  /\ node \in Nat /\ unsent \in Seq(Edits)
  /\ blocksSent \in [Viewers -> Nat] /\ uptime \in Nat
  /\ copies \in [used : BOOLEAN, copy : Nat \union {NoCopy}]
  /\ posted \in Viewers \union {Nil} /\ selected \subseteq Viewers
  /\ channel0 \in [Viewers -> Seq(Nat)] /\ channel2 \in [Viewers -> Seq(Nat)]
  /\ asked \in [Viewers -> Seq({"dig", "deleted"})]
  /\ picture \in [Viewers -> Nat \union {Unknown, Predicted}]

(* The client has the block, or it is on its way to it.                    *)
Served(v) == picture[v] # Unknown \/ channel2[v] # <<>>

(* While SendBlocks() has yet to note what it sent, the client cannot have *)
(* forgotten it; afterwards it can, and says so.                           *)
Noted(v) ==
  /\ posted = v => Served(v)
  /\ IsBlockSent(v) => Served(v) \/ "deleted" \in Range(asked[v])

SendingInv == SendingTypes /\ \A v \in Viewers : Noted(v)

(* A block in a channel, and a node, is a picture of something.            *)
LEMMA HeadKnown ==
  ASSUME NEW s \in Seq(Nat), s # <<>>
  PROVE  Head(s) \in Nat /\ Head(s) # Unknown /\ Tail(s) \in Seq(Nat)
BY TailOnce, SendingAssumption

LEMMA SendingTypesStep == SendingTypes /\ [SendingNext]_sendingVars => SendingTypes'
<1> SUFFICES ASSUME SendingTypes, [SendingNext]_sendingVars PROVE SendingTypes'
  OBVIOUS
<1> USE SendingAssumption
    DEF SendingTypes, editVars, timeVars, sendVars, clientVars
<1>1. CASE UNCHANGED sendingVars
  BY <1>1 DEF sendingVars
<1>2. ASSUME SetNode PROVE node' \in Nat /\ unsent' \in Seq(Edits)
  <2>1. \E single \in BOOLEAN : unsent' = Append(unsent, [single |-> single, to |-> node + 1])
    BY <1>2 DEF SetNode
  <2>2. \A single \in BOOLEAN : [single |-> single, to |-> node + 1] \in Edits
    BY DEF Edits
  <2> QED BY <1>2, <2>1, <2>2, AppendProperties DEF SetNode
<1>3. CASE TimePasses \/ MapStep
  BY <1>3 DEF TimePasses, MapStep
<1>4. CASE Edit
  BY <1>2, <1>4 DEF Edit
<1>5. CASE SendMapEdit
  <2>1. /\ unsent # <<>> /\ unsent' = Tail(unsent)
        /\ UNCHANGED <<node, blocksSent, sendVars, channel2, clientVars, timeVars>>
    BY <1>5 DEF SendMapEdit
  <2>2. unsent' \in Seq(Edits) /\ Head(unsent) \in Edits
    BY <2>1, HeadTailProperties
  <2>3. Head(unsent).to \in Nat
    BY <2>2 DEF Edits
  <2>4. channel0' \in [Viewers -> Seq(Nat)]
    BY <1>5, <2>3 DEF SendMapEdit
  <2> QED BY <2>1, <2>2, <2>4
<1>6. CASE Collect
  BY <1>6 DEF Collect
<1>7. CASE SentBlock
  BY <1>7 DEF SentBlock
<1>8. ASSUME NEW v \in Viewers, SendBlockNoLock(v) PROVE SendingTypes'
  <2>1. CopyToSend \in Nat
    BY DEF CopyToSend
  <2>2. channel2' \in [Viewers -> Seq(Nat)]
    BY <1>8, <2>1 DEF SendBlockNoLock
  <2>3. copies' \in [used : BOOLEAN, copy : Nat \union {NoCopy}]
    BY <1>8, <2>1 DEF SendBlockNoLock
  <2> QED BY <1>8, <2>2, <2>3 DEF SendBlockNoLock
<1>9. ASSUME NEW v \in Viewers, BlockLocked(v) PROVE SendingTypes'
  BY <1>9 DEF BlockLocked
<1>10. ASSUME NEW v \in Viewers, ReceiveBlock(v) PROVE SendingTypes'
  BY <1>10, HeadKnown DEF ReceiveBlock
<1>11. ASSUME NEW v \in Viewers, ReceiveNode(v) PROVE SendingTypes'
  BY <1>11, HeadKnown DEF ReceiveNode
<1>12. ASSUME NEW v \in Viewers, Dig(v) \/ ForgetBlock(v) PROVE SendingTypes'
  <2>1. PICK what \in {"dig", "deleted"}, shown \in {Predicted, Unknown} : Ask(v, what, shown)
    BY <1>12 DEF Dig, ForgetBlock
  <2>2. Append(asked[v], what) \in Seq({"dig", "deleted"})
    OBVIOUS
  <2>3. asked' \in [Viewers -> Seq({"dig", "deleted"})]
    BY <2>1, <2>2 DEF Ask
  <2> QED BY <2>1, <2>3 DEF Ask
<1>13. ASSUME NEW v \in Viewers, HandleInteract(v) PROVE SendingTypes'
  <2>1. asked' \in [Viewers -> Seq({"dig", "deleted"})]
    BY <1>13 DEF HandleInteract
  <2>2. node' \in Nat /\ unsent' \in Seq(Edits)
    BY <1>2, <1>13 DEF HandleInteract
  <2>3. UNCHANGED <<timeVars, blocksSent, sendVars, channel0, channel2, requests, picture>>
    BY <1>13 DEF HandleInteract
  <2> QED BY <2>1, <2>2, <2>3
<1>14. ASSUME NEW v \in Viewers, HandleDeletedBlocks(v) PROVE SendingTypes'
  BY <1>14 DEF HandleDeletedBlocks, SetBlockDeleted
<1> QED BY <1>1, <1>3, <1>4, <1>5, <1>6, <1>7, <1>8, <1>9, <1>10, <1>11, <1>12, <1>13,
           <1>14 DEF SendingNext

LEMMA NotedStep ==
  ASSUME SendingInv, [SendingNext]_sendingVars, NEW v \in Viewers
  PROVE  Noted(v)'
<1> USE SendingAssumption
    DEF SendingInv, Noted, Served, IsBlockSent, editVars, timeVars, sendVars, clientVars
<1>1. CASE UNCHANGED sendingVars
  BY <1>1 DEF sendingVars
<1>2. CASE TimePasses \/ MapStep \/ Edit \/ SendMapEdit \/ Collect
  BY <1>2 DEF TimePasses, MapStep, Edit, SendMapEdit, Collect
<1>3. CASE SentBlock
  BY <1>3 DEF SentBlock, SendingTypes
<1>4. ASSUME NEW u \in Viewers, SendBlockNoLock(u) PROVE Noted(v)'
  <2>1. channel2[u] \in Seq(Nat) /\ CopyToSend \in Nat
    BY DEF SendingTypes, CopyToSend
  <2>2. Append(channel2[u], CopyToSend) # <<>>
    BY <2>1, AppendProperties
  <2> QED BY <1>4, <2>2 DEF SendBlockNoLock, SendingTypes
<1>5. ASSUME NEW u \in Viewers, BlockLocked(u) PROVE Noted(v)'
  BY <1>5 DEF BlockLocked
<1>6. ASSUME NEW u \in Viewers, ReceiveBlock(u) PROVE Noted(v)'
  BY <1>6, HeadKnown DEF ReceiveBlock, SendingTypes
<1>7. ASSUME NEW u \in Viewers, ReceiveNode(u) PROVE Noted(v)'
  BY <1>7, HeadKnown DEF ReceiveNode, SendingTypes
<1>8. ASSUME NEW u \in Viewers, Dig(u) \/ ForgetBlock(u) PROVE Noted(v)'
  <2>1. PICK what \in {"dig", "deleted"}, shown \in {Predicted, Unknown} :
          Ask(u, what, shown) /\ (shown = Unknown => what = "deleted" /\ posted # u)
    BY <1>8 DEF Dig, ForgetBlock
  <2>2. Range(Append(asked[u], what)) = Range(asked[u]) \union {what}
    <3>1. asked[u] \in Seq({"dig", "deleted"})
      BY DEF SendingTypes
    <3> QED BY <3>1, AppendRange
  <2> QED BY <2>1, <2>2 DEF Ask, SendingTypes
<1>9. ASSUME NEW u \in Viewers, HandleInteract(u) PROVE Noted(v)'
  <2>1. Range(asked[u]) = Range(Tail(asked[u])) \union {"dig"}
    <3>1. asked[u] \in Seq({"dig", "deleted"})
      BY DEF SendingTypes
    <3>2. asked[u] # <<>> /\ Head(asked[u]) = "dig"
      BY <1>9 DEF HandleInteract
    <3>3. Range(asked[u]) = Range(Tail(asked[u])) \union {Head(asked[u])}
      BY <3>1, <3>2, TailOnce
    <3> QED BY <3>2, <3>3
  <2>2. /\ asked' = [asked EXCEPT ![u] = Tail(@)]
        /\ UNCHANGED <<blocksSent, posted, channel2, picture>>
    BY <1>9 DEF HandleInteract, SetBlockNotSent
  <2> QED BY <2>1, <2>2 DEF SendingTypes
<1>10. ASSUME NEW u \in Viewers, HandleDeletedBlocks(u) PROVE Noted(v)'
  BY <1>10 DEF HandleDeletedBlocks, SetBlockDeleted, SendingTypes
<1> QED BY <1>1, <1>2, <1>3, <1>4, <1>5, <1>6, <1>7, <1>8, <1>9, <1>10 DEF SendingNext

(* No hole stays in the world of a client, however edits, sendings, losses *)
(* of a lock and forgotten blocks interleave: what is noted as sent is     *)
(* with the client, on its way, or told to be forgotten.                   *)
THEOREM NoHoleCorrect == SendingSpec => []NoHole
<1>1. SendingInit => SendingInv
  BY SendingAssumption
     DEF SendingInit, SendingInv, SendingTypes, NoCache, Noted, IsBlockSent
<1>2. SendingInv /\ [SendingNext]_sendingVars => SendingInv'
  BY SendingTypesStep, NotedStep DEF SendingInv
<1>3. SendingInv => NoHole
  <2>1. Range(<<>>) = {}
    BY DEF Range
  <2> QED BY <2>1 DEF SendingInv, Noted, Served, NoHole, AtRest
<1> QED BY <1>1, <1>2, <1>3, PTL DEF SendingSpec

-----------------------------------------------------------------------------
(* The callbacks of core.emerge_area(), with any number of threads and     *)
(* with one.                                                               *)
Loading  == {t \in AreaThreads : areaPc[t] = "loaded"}
Uncalled == {t \in AreaThreads : areaPc[t] \in {"loaded", "counted"}}

AreaTypes ==
  /\ areaPc \in [AreaThreads -> {"idle", "loaded", "counted", "calling", "returned"}]
  /\ refcount \in Int /\ counted \in [AreaThreads -> Int] /\ queued \in Nat
  /\ told \in Seq(Int) /\ unrefs \in Nat /\ deletes \in Nat

(* Each block is one call of the function, ...                             *)
OneCallEach == Len(told) + queued + Cardinality(Uncalled) = AreaBlocks

(* ... an update that is lost leaves refcount too high, never too low, ... *)
CountsEnough ==
  /\ refcount >= queued + Cardinality(Loading)
  /\ \A t \in Loading : counted[t] >= queued + Cardinality(Loading)

(* ... so the last block has been counted when the state goes.             *)
FreedAfterAll == unrefs + deletes > 0 => queued = 0 /\ Loading = {}

AreaInv == AreaTypes /\ OneCallEach /\ CountsEnough /\ FreedAfterAll

LEMMA NoneLoading ==
  ASSUME IsFiniteSet(AreaThreads), AreaInv, refcount = 0
  PROVE  queued = 0 /\ Loading = {}
<1>1. IsFiniteSet(Loading)
  BY FS_Subset DEF Loading
<1>2. Cardinality(Loading) \in Nat /\ (Cardinality(Loading) = 0 <=> Loading = {})
  BY <1>1, FS_CardinalityType, FS_EmptySet
<1> QED BY <1>2 DEF AreaInv, AreaTypes, CountsEnough

LEMMA AreaStep ==
  ASSUME IsFiniteSet(AreaThreads), AreaInv, NEW t \in AreaThreads,
         \/ LoadRefcount(t) \/ StoreRefcount(t)
         \/ CallLua(t) \/ ReturnFromLua(t) \/ DeleteState(t)
  PROVE  AreaInv'
<1>1. /\ IsFiniteSet(Loading) /\ IsFiniteSet(Uncalled)
      /\ Cardinality(Loading) \in Nat /\ Cardinality(Uncalled) \in Nat
  BY FS_Subset, FS_CardinalityType DEF Loading, Uncalled
<1>2. /\ areaPc \in [AreaThreads -> {"idle", "loaded", "counted", "calling", "returned"}]
      /\ refcount \in Int /\ counted \in [AreaThreads -> Int] /\ queued \in Nat
      /\ told \in Seq(Int) /\ unrefs \in Nat /\ deletes \in Nat
  BY DEF AreaInv, AreaTypes
<1>3. CASE LoadRefcount(t)
  <2>1. /\ areaPc[t] = "idle" /\ areaPc' = [areaPc EXCEPT ![t] = "loaded"]
        /\ queued > 0 /\ queued' = queued - 1 /\ counted' = [counted EXCEPT ![t] = refcount]
        /\ UNCHANGED <<refcount, told, unrefs, deletes>>
    BY <1>3 DEF LoadRefcount, Move
  <2>2. /\ Loading' = Loading \union {t} /\ t \notin Loading
        /\ Uncalled' = Uncalled \union {t} /\ t \notin Uncalled
    BY <1>2, <2>1 DEF Loading, Uncalled
  <2>3. /\ Cardinality(Loading') = Cardinality(Loading) + 1
        /\ Cardinality(Uncalled') = Cardinality(Uncalled) + 1
    BY <1>1, <2>2, FS_AddElement
  <2>4. AreaTypes'
    BY <1>2, <2>1 DEF AreaTypes
  <2>5. OneCallEach'
    BY <1>1, <1>2, <2>1, <2>3 DEF AreaInv, OneCallEach
  <2>6. \A u \in Loading' :
          counted'[u] = IF u = t THEN refcount ELSE counted[u]
    BY <1>2, <2>1, <2>2 DEF Loading
  <2>7. CountsEnough'
    <3>1. queued' + Cardinality(Loading') = queued + Cardinality(Loading)
      BY <1>1, <1>2, <2>1, <2>3
    <3> QED BY <2>1, <2>2, <2>6, <3>1 DEF AreaInv, CountsEnough
  <2>8. FreedAfterAll'
    BY <2>1 DEF AreaInv, FreedAfterAll
  <2> QED BY <2>4, <2>5, <2>7, <2>8 DEF AreaInv
<1>4. CASE StoreRefcount(t)
  <2>1. /\ areaPc[t] = "loaded" /\ areaPc' = [areaPc EXCEPT ![t] = "counted"]
        /\ refcount' = counted[t] - 1
        /\ UNCHANGED <<queued, counted, told, unrefs, deletes>>
    BY <1>4 DEF StoreRefcount, Move
  <2>2. Loading' = Loading \ {t} /\ t \in Loading /\ Uncalled' = Uncalled
    BY <1>2, <2>1 DEF Loading, Uncalled
  <2>3. Cardinality(Loading') = Cardinality(Loading) - 1
    BY <1>1, <2>2, FS_RemoveElement
  <2>4. AreaTypes'
    BY <1>2, <2>1 DEF AreaTypes
  <2>5. OneCallEach'
    BY <2>1, <2>2 DEF AreaInv, OneCallEach
  <2>6. CountsEnough'
    <3>1. /\ \A u \in Loading : counted[u] >= queued + Cardinality(Loading)
          /\ \A u \in Loading : counted[u] \in Int
      BY <1>2 DEF AreaInv, CountsEnough, Loading
    <3>2. PICK k, n \in Nat : /\ k = Cardinality(Loading) /\ Cardinality(Loading') = k - 1
                              /\ n = queued /\ queued' = n
      BY <1>1, <1>2, <2>1, <2>3
    <3>3. refcount' >= queued' + Cardinality(Loading')
      BY <2>1, <2>2, <3>1, <3>2
    <3>4. \A u \in Loading' : counted'[u] >= queued' + Cardinality(Loading')
      BY <2>1, <2>2, <3>1, <3>2
    <3> QED BY <3>3, <3>4 DEF CountsEnough
  <2>7. FreedAfterAll'
    BY <2>1, <2>2 DEF AreaInv, FreedAfterAll
  <2> QED BY <2>4, <2>5, <2>6, <2>7 DEF AreaInv
<1>5. CASE CallLua(t)
  <2>1. /\ areaPc[t] = "counted" /\ areaPc' = [areaPc EXCEPT ![t] = "calling"]
        /\ told' = Append(told, refcount)
        /\ UNCHANGED <<refcount, queued, counted, unrefs, deletes>>
    BY <1>5 DEF CallLua, Move, Remaining
  <2>2. Loading' = Loading /\ Uncalled' = Uncalled \ {t} /\ t \in Uncalled
    BY <1>2, <2>1 DEF Loading, Uncalled
  <2>3. Cardinality(Uncalled') = Cardinality(Uncalled) - 1
    BY <1>1, <2>2, FS_RemoveElement
  <2>4. Len(told') = Len(told) + 1 /\ Len(told) \in Nat /\ told' \in Seq(Int)
    BY <1>2, <2>1
  <2>5. AreaTypes'
    BY <1>2, <2>1, <2>4 DEF AreaTypes
  <2>6. OneCallEach'
    BY <1>1, <1>2, <2>1, <2>3, <2>4 DEF AreaInv, OneCallEach
  <2>7. CountsEnough' /\ FreedAfterAll'
    BY <2>1, <2>2 DEF AreaInv, CountsEnough, FreedAfterAll
  <2> QED BY <2>5, <2>6, <2>7 DEF AreaInv
<1>6. CASE ReturnFromLua(t) \/ DeleteState(t)
  <2>1. /\ \/ areaPc[t] = "calling" /\ areaPc' = [areaPc EXCEPT ![t] = "returned"]
           \/ areaPc[t] = "returned" /\ areaPc' = [areaPc EXCEPT ![t] = "idle"]
        /\ UNCHANGED <<refcount, queued, counted, told>>
        /\ unrefs' \in {unrefs, unrefs + 1} /\ deletes' \in {deletes, deletes + 1}
        /\ unrefs' + deletes' = unrefs + deletes \/ refcount = 0
    BY <1>2, <1>6 DEF ReturnFromLua, DeleteState, Move, IsLast
  <2>2. Loading' = Loading /\ Uncalled' = Uncalled
    BY <1>2, <2>1 DEF Loading, Uncalled
  <2>3. AreaTypes'
    BY <1>2, <2>1 DEF AreaTypes
  <2>4. OneCallEach' /\ CountsEnough'
    BY <2>1, <2>2 DEF AreaInv, OneCallEach, CountsEnough
  <2>5. FreedAfterAll'
    BY <2>1, <2>2, NoneLoading DEF AreaInv, FreedAfterAll
  <2> QED BY <2>3, <2>4, <2>5 DEF AreaInv
<1> QED BY <1>3, <1>4, <1>5, <1>6

(* LuaEmergeAreaCallback(), on any number of threads, whatever they read   *)
(* of each other's count: each block is one call of the function, and      *)
(* nothing is freed before the last block has been counted.                *)
THEOREM AreaCallsCorrect ==
  ASSUME IsFiniteSet(AreaThreads), AreaBlocks \in Nat
  PROVE  AreaSpec => [](OneCallEach /\ FreedAfterAll)
<1>1. AreaInit => AreaInv
  <2> SUFFICES ASSUME AreaInit PROVE AreaInv
    OBVIOUS
  <2>1. Loading = {} /\ Uncalled = {} /\ Cardinality({}) = 0
    BY FS_EmptySet DEF AreaInit, Loading, Uncalled
  <2> QED BY <2>1 DEF AreaInit, AreaInv, AreaTypes, OneCallEach, CountsEnough, FreedAfterAll
<1>2. AreaInv /\ [AreaNext]_areaVars => AreaInv'
  <2>1. CASE UNCHANGED areaVars
    BY <2>1 DEF areaVars, AreaInv, AreaTypes, OneCallEach, CountsEnough, FreedAfterAll,
                Loading, Uncalled
  <2> QED BY <2>1, AreaStep DEF AreaNext
<1>3. AreaInv => OneCallEach /\ FreedAfterAll
  BY DEF AreaInv
<1> QED BY <1>1, <1>2, <1>3, PTL DEF AreaSpec

(* With one thread the count is right as well: what it is at each step.    *)
AloneInv(t) ==
  /\ areaPc \in [{t} -> {"idle", "loaded", "counted", "calling", "returned"}]
  /\ counted \in [{t} -> Int] /\ queued \in Nat /\ told \in Seq(Int)
  /\ refcount = IF areaPc[t] = "loaded" THEN queued + 1 ELSE queued
  /\ areaPc[t] = "loaded" => counted[t] = refcount
  /\ Len(told) = AreaBlocks - (IF areaPc[t] \in {"loaded", "counted"} THEN queued + 1 ELSE queued)
  /\ CallsRemaining
  /\ unrefs = IF queued = 0 /\ areaPc[t] \in {"returned", "idle"} THEN 1 ELSE 0
  /\ deletes = IF queued = 0 /\ areaPc[t] = "idle" THEN 1 ELSE 0

LEMMA AloneStep ==
  ASSUME NEW t, AreaThreads = {t}, AreaBlocks \in Nat, AloneInv(t), AreaNext
  PROVE  AloneInv(t)'
<1>1. CASE LoadRefcount(t)
  BY <1>1 DEF LoadRefcount, Move, AloneInv, CallsRemaining
<1>2. CASE StoreRefcount(t)
  BY <1>2 DEF StoreRefcount, Move, AloneInv, CallsRemaining
<1>3. CASE CallLua(t)
  <2>1. /\ areaPc[t] = "counted" /\ areaPc' = [areaPc EXCEPT ![t] = "calling"]
        /\ told' = Append(told, refcount)
        /\ UNCHANGED <<refcount, queued, counted, unrefs, deletes>>
    BY <1>3 DEF CallLua, Move, Remaining
  <2>2. refcount = queued /\ Len(told) = AreaBlocks - (queued + 1)
    BY <2>1 DEF AloneInv
  <2>3. /\ queued \in Int /\ told \in Seq(Int) /\ told' = Append(told, queued)
        /\ \A i \in DOMAIN told : told[i] = AreaBlocks - i
    BY <2>1, <2>2 DEF AloneInv, CallsRemaining
  <2>4. /\ told' \in Seq(Int) /\ DOMAIN told' = 1 .. Len(told) + 1
        /\ DOMAIN told = 1 .. Len(told) /\ Len(told') = Len(told) + 1 /\ Len(told) \in Nat
        /\ \A i \in 1 .. Len(told) : told'[i] = told[i]
        /\ told'[Len(told) + 1] = queued
    <3>1. PICK s \in Seq(Int), x \in Int : s = told /\ x = queued
      BY <2>3
    <3>2. told' = Append(s, x)
      BY <2>3, <3>1
    <3> QED BY <3>1, <3>2, AppendProperties
  <2>5. CallsRemaining'
    <3>1. queued = AreaBlocks - (Len(told) + 1)
      BY <2>2, <2>3, <2>4
    <3>2. ASSUME NEW i \in DOMAIN told' PROVE told'[i] = AreaBlocks - i
      <4>1. CASE i = Len(told) + 1
        BY <2>4, <3>1, <4>1
      <4>2. CASE i # Len(told) + 1
        <5>1. i \in 1 .. Len(told)
          BY <2>4, <4>2
        <5> QED BY <2>3, <2>4, <5>1
      <4> QED BY <4>1, <4>2
    <3> QED BY <3>2 DEF CallsRemaining
  <2>6. areaPc'[t] = "calling"
    BY <2>1 DEF AloneInv
  <2> QED BY <2>1, <2>2, <2>4, <2>5, <2>6 DEF AloneInv
<1>4. CASE ReturnFromLua(t)
  BY <1>4 DEF ReturnFromLua, Move, IsLast, AloneInv, CallsRemaining
<1>5. CASE DeleteState(t)
  BY <1>5 DEF DeleteState, Move, IsLast, AloneInv, CallsRemaining
<1> QED BY <1>1, <1>2, <1>3, <1>4, <1>5 DEF AreaNext

(* "calls_remaining is the amount of callbacks to be expected after this   *)
(* one": with one emerge thread it is, and the state and its references    *)
(* are dropped once, when every block has been told.                       *)
THEOREM AloneCallsCorrect ==
  ASSUME NEW t, AreaThreads = {t}, AreaBlocks \in Nat \ {0}
  PROVE  AreaSpec => []( /\ CallsRemaining
                         /\ ((queued = 0 /\ areaPc[t] = "idle") =>
                               Len(told) = AreaBlocks /\ unrefs = 1 /\ deletes = 1))
<1>1. AreaInit => AloneInv(t)
  BY DEF AreaInit, AloneInv, CallsRemaining
<1>2. AloneInv(t) /\ [AreaNext]_areaVars => AloneInv(t)'
  <2>1. CASE UNCHANGED areaVars
    BY <2>1 DEF areaVars, AloneInv, CallsRemaining
  <2> QED BY <2>1, AloneStep DEF AreaNext
<1>3. AloneInv(t) => /\ CallsRemaining
                     /\ ((queued = 0 /\ areaPc[t] = "idle") =>
                           Len(told) = AreaBlocks /\ unrefs = 1 /\ deletes = 1)
  BY DEF AloneInv
<1> QED BY <1>1, <1>2, <1>3, PTL DEF AreaSpec
=============================================================================
