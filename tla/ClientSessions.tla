--------------------------- MODULE ClientSessions ---------------------------
(***************************************************************************)
(* Clients of the server from PEER_ADDED to PEER_REMOVED: the state of     *)
(* each RemoteClient, login, and the RemotePlayer it is given.  Packets    *)
(* are handled one after the other on the ServerThread; player objects     *)
(* that have left are removed on the EnvThread, and a script may kick a    *)
(* player from either.                                                     *)
(*                                                                         *)
(* A client makes at most one RemotePlayer, which goes by its peer id      *)
(* here.  Passwords are right or wrong; default_password is empty, so that *)
(* an unknown name registers with TOSERVER_FIRST_SRP.                      *)
(***************************************************************************)
EXTENDS Naturals, FiniteSets, SequencesExt

CONSTANTS
  Clients,        \* the peer ids of this run of the server
  Names,          \* player names
  MaxUsers,       \* setting max_users
  Bypass,         \* names that may join a full server
  NoName, NoClient

ASSUME SessionsAssumption ==
  /\ IsFiniteSet(Clients) /\ MaxUsers \in Nat /\ Bypass \subseteq Names
  /\ NoName \notin Names /\ NoClient \notin Clients

VARIABLES
  state,          \* RemoteClient::m_state; "unborn" and "deleted" around it
  name,           \* RemoteClient::m_name
  allowed,        \* allowed_auth_mechs: "first" or "srp"
  chosen,         \* chosen_mech # AUTH_MECHANISM_NONE
  link,           \* the peer in the connection: up, dropped, gone
  accounts,       \* how often the auth database was told to create a name
  m_players,      \* ServerEnvironment::m_players, in order
  connected,      \* the players with a peer id; the others are leaving
  joining,        \* the client whose TOSERVER_CLIENT_READY is being handled
  leaving,        \* the client whose PEER_REMOVED is being handled
  stateError      \* a ClientStateError was thrown

sessionVars == <<state, name, allowed, chosen, link, accounts, m_players,
                 connected, joining, leaving, stateError>>

authVars   == <<name, allowed, accounts>>
playerVars == <<m_players, connected, joining, leaving>>

SessionsInit ==
  /\ state = [p \in Clients |-> "unborn"] /\ link = [p \in Clients |-> "unborn"]
  /\ name = [p \in Clients |-> NoName]
  /\ allowed = [p \in Clients |-> "none"] /\ chosen = [p \in Clients |-> FALSE]
  /\ accounts \in [Names -> 0..1]
  /\ m_players = <<>> /\ connected = {}
  /\ joining = NoClient /\ leaving = NoClient
  /\ stateError = FALSE

(***************************************************************************)
(* The client state machine.                                               *)
(***************************************************************************)

Transitions == {
  <<"Created", "Hello", "HelloSent">>,
  <<"HelloSent", "AuthAccept", "AwaitingInit2">>,
  <<"AwaitingInit2", "GotInit2", "InitDone">>,
  <<"InitDone", "SetDefinitionsSent", "DefinitionsSent">>,
  <<"DefinitionsSent", "SetClientReady", "Active">>,
  <<"Active", "SudoSuccess", "SudoMode">>,
  <<"SudoMode", "SudoLeave", "Active">>}

(* Mutant: a client that was denied is treated like any other.             *)
SettledButDenied == {"Disconnecting", "unborn", "deleted"}

(* Where notifyEvent() ignores every event.                                *)
Settled == {"Denied", "Disconnecting", "unborn", "deleted"}

(* notifyEvent(): the state after an event, "error" where it throws.       *)
After(s, event) ==
  IF s \in Settled THEN s
  ELSE IF event = "SetDenied" THEN "Denied"
  ELSE IF event = "Disconnect" THEN "Disconnecting"
  ELSE IF \E t \in Transitions : t[1] = s /\ t[2] = event
       THEN (CHOOSE t \in Transitions : t[1] = s /\ t[2] = event)[3]
       ELSE "error"

Drop(p) == link' = IF link[p] = "up" THEN [link EXCEPT ![p] = "dropped"] ELSE link

(* A new state; resetChosenMech() comes with the end of an authentication. *)
Become(p, s) ==
  /\ state' = [state EXCEPT ![p] = s]
  /\ chosen' = IF state[p] = "HelloSent" \/ s = "SudoMode"
               THEN [chosen EXCEPT ![p] = FALSE] ELSE chosen

(* DenyAccess(): the client is told, denied and disconnected; what the     *)
(* connection does of it comes later, as PEER_REMOVED.                     *)
DenyAccess(p) == Become(p, After(state[p], "SetDenied")) /\ Drop(p)

(* m_clients.event() in a handler; Receive() denies access to the sender   *)
(* of a packet whose handler throws ClientStateError.                      *)
Event(p, s) ==
  IF s = "error"
  THEN stateError' = TRUE /\ DenyAccess(p)
  ELSE Become(p, s) /\ UNCHANGED <<link, stateError>>

(* The ServerThread is done with what it handled last.                     *)
Idle == joining = NoClient /\ leaving = NoClient

(* It reads a packet of a peer.                                            *)
Receiving(p) == Idle /\ link[p] \in {"up", "dropped"}

(* isUserLimitReached() and checkUserLimit(), for a name.                  *)
UserLimitReached(n) ==
  /\ Cardinality({p \in Clients : state[p] \in {"Active", "SudoMode"}}) >= MaxUsers
  /\ n \notin Bypass

(* getPlayer(name): the first of that name, and only if it is connected;   *)
(* with match_invalid_peer, the first of that name.                        *)
IsFirstOf(n, i) ==
  /\ name[m_players[i]] = n
  /\ \A j \in 1 .. i - 1 : name[m_players[j]] # n

IsConnected(n) == \E i \in DOMAIN m_players :
  IsFirstOf(n, i) /\ m_players[i] \in connected

(***************************************************************************)
(* The handlers.                                                           *)
(***************************************************************************)

PeerAdded(p) ==
  /\ Idle
  /\ state[p] = "unborn"
  /\ state' = [state EXCEPT ![p] = "Created"]
  /\ link' = [link EXCEPT ![p] = "up"]
  /\ UNCHANGED <<chosen, authVars, playerVars, stateError>>

(* TOSERVER_INIT is refused: banned, wrong version or name, by a script    *)
(* after the name was taken, because a player of that name is connected,   *)
(* or because the server is full.                                          *)
InitDenied(p, n) ==
  /\ Receiving(p) /\ state[p] = "Created"
  /\ name' \in {name, [name EXCEPT ![p] = n]}
  /\ DenyAccess(p)
  /\ UNCHANGED <<allowed, accounts, playerVars, stateError>>

HandleInit(p, n) ==
  /\ Receiving(p) /\ state[p] = "Created"
  /\ ~ IsConnected(n) /\ ~ UserLimitReached(n)
  /\ name' = [name EXCEPT ![p] = n]
  /\ allowed' = [allowed EXCEPT ![p] = IF accounts[n] > 0 THEN "srp" ELSE "first"]
  /\ Event(p, After(state[p], "Hello"))
  /\ UNCHANGED <<accounts, playerVars>>

(* Mutant: what was found at TOSERVER_INIT is not looked at again.          *)
NewAtInit(p) == allowed[p] = "first"

(* createAuth() is reached: the name is new, and still has no account.     *)
IsNewPlayer(p) == allowed[p] = "first" /\ accounts[name[p]] = 0

(* TOSERVER_FIRST_SRP of a new player: deny if the name was known at Init, *)
(* if the password is empty and must not be, or if "another client beat us *)
(* to it"; else create the account.                                        *)
Register(p) ==
  /\ Receiving(p) /\ state[p] = "HelloSent"
  /\ \/ DenyAccess(p) /\ UNCHANGED <<authVars, stateError>>
     \/ /\ IsNewPlayer(p)
        /\ accounts' = [accounts EXCEPT ![name[p]] = @ + 1]
        /\ allowed' = [allowed EXCEPT ![p] = "srp"]
        /\ Event(p, After(state[p], "AuthAccept"))
        /\ UNCHANGED name
  /\ UNCHANGED playerVars

(* The same packet in sudo mode changes the password.                      *)
ChangePassword(p) ==
  /\ Receiving(p) /\ state[p] = "SudoMode"
  /\ Event(p, After(state[p], "SudoLeave"))
  /\ allowed' \in {allowed, [allowed EXCEPT ![p] = "srp"]}
  /\ UNCHANGED <<name, accounts, playerVars>>

WantSudo(p) == state[p] = "Active"

(* DenyAccess() at login, only DenySudoAccess() when it is about sudo.     *)
Refuse(p, stop) ==
  IF WantSudo(p)
  THEN /\ chosen' = [chosen EXCEPT ![p] = @ /\ ~ stop]
       /\ UNCHANGED <<state, link>>
  ELSE DenyAccess(p)

(* TOSERVER_SRP_BYTES_A: one exchange at a time, by an allowed mechanism;  *)
(* bytes_A may fail the safety check of SRP.                               *)
SrpBytesA(p) ==
  /\ Receiving(p) /\ state[p] \in {"HelloSent", "Active"}
  /\ IF chosen[p] \/ allowed[p] # "srp"
     THEN Refuse(p, FALSE)
     ELSE \/ chosen' = [chosen EXCEPT ![p] = TRUE] /\ UNCHANGED <<state, link>>
          \/ Refuse(p, TRUE)
  /\ UNCHANGED <<authVars, playerVars, stateError>>

(* TOSERVER_SRP_BYTES_M: no exchange is going on; or the length is wrong,  *)
(* or the password is, or it is right.                                     *)
SrpBytesM(p) ==
  /\ Receiving(p) /\ state[p] \in {"HelloSent", "Active"}
  /\ \/ ~ chosen[p] /\ Refuse(p, FALSE) /\ UNCHANGED stateError
     \/ chosen[p] /\ DenyAccess(p) /\ UNCHANGED stateError
     \/ chosen[p] /\ Refuse(p, TRUE) /\ UNCHANGED stateError
     \/ /\ chosen[p]
        /\ Event(p, After(state[p], IF WantSudo(p) THEN "SudoSuccess"
                                                   ELSE "AuthAccept"))
  /\ UNCHANGED <<authVars, playerVars>>

(* TOSERVER_INIT2: both events in one handler.                             *)
Init2(p) ==
  /\ Receiving(p) /\ state[p] = "AwaitingInit2"
  /\ Event(p, After(After(state[p], "GotInit2"), "SetDefinitionsSent"))
  /\ UNCHANGED <<authVars, playerVars>>

(* Mutant: a player of the same name is not looked for.                    *)
CanEmergeAgain(p) == p \notin connected

(* Mutant: no second look at the user limit.                               *)
NeverFull(p) == FALSE

(* The final check of the user limit.                                      *)
FinallyFull(p) == UserLimitReached(name[p])

(* TOSERVER_CLIENT_READY, up to the end of StageTwoClientInit():           *)
(* emergePlayer() makes no second player of the name or for the peer.      *)
CanEmerge(p) ==
  /\ ~ IsConnected(name[p])
  /\ p \notin connected

(* It is denied if the server is full, if no player can be made, and while *)
(* maintenance is in progress; from who has not done Init2 it is dropped   *)
(* (ProcessData() asks for CS_InitDone).                                    *)
ClientReady(p) ==
  /\ Receiving(p) /\ state[p] \in {"DefinitionsSent", "Active", "SudoMode"}
  /\ \/ DenyAccess(p) /\ UNCHANGED playerVars
     \/ /\ ~ FinallyFull(p) /\ CanEmerge(p)
        /\ m_players' = Append(m_players, p)
        /\ connected' = connected \union {p}
        /\ joining' = p
        /\ UNCHANGED <<state, chosen, link, leaving>>
  /\ UNCHANGED <<authVars, stateError>>

(* The rest of it: the client is active, unless it was denied meanwhile.   *)
SetClientReady(p) ==
  /\ joining = p
  /\ joining' = NoClient
  /\ Event(p, After(state[p], "SetClientReady"))
  /\ UNCHANGED <<authVars, m_players, connected, leaving>>

(***************************************************************************)
(* Everything else that ends a session.                                    *)
(***************************************************************************)

(* A script disconnects a player, on any thread, or the server all.        *)
Kick(p) ==
  /\ p \in connected
  /\ DenyAccess(p)
  /\ UNCHANGED <<authVars, playerVars, stateError>>

(* The peer times out or says that it leaves.                              *)
PeerLost(p) ==
  /\ link[p] = "up" /\ Drop(p)
  /\ UNCHANGED <<state, chosen, authVars, playerVars, stateError>>

(* step(): a client that lingers before InitDone is disconnected.          *)
Linger(p) ==
  /\ Idle
  /\ state[p] \in {"Created", "HelloSent", "AwaitingInit2", "Denied"}
  /\ link[p] = "up" /\ Drop(p)
  /\ UNCHANGED <<state, chosen, authVars, playerVars, stateError>>

(* PEER_REMOVED is handled in three steps of the ServerThread, and what    *)
(* the other threads do comes in between: no lock is held over them.       *)

(* Mutant: the client keeps its state until it is deleted.                 *)
LeavingStateLate(s) == s

(* CSE_Disconnect                                                          *)
LeavingState(s) == After(s, "Disconnect")

(* deletingPeer(): first of all the client is no longer active.            *)
DeletingPeer(p) ==
  /\ Idle
  /\ link[p] = "dropped"
  /\ link' = [link EXCEPT ![p] = "gone"]
  /\ state' = [state EXCEPT ![p] = LeavingState(@)]
  /\ leaving' = p
  /\ UNCHANGED <<chosen, authVars, m_players, connected, joining, stateError>>

(* Server::DeleteClient(): the player of the peer, if any, loses its peer  *)
(* id and is marked for removal.                                           *)
Disconnected(p) ==
  /\ leaving = p /\ p \in connected
  /\ connected' = connected \ {p}
  /\ UNCHANGED <<state, chosen, link, authVars, m_players, joining, leaving, stateError>>

(* At last, ClientInterface::DeleteClient().                               *)
DeleteClient(p) ==
  /\ leaving = p /\ p \notin connected
  /\ state' = [state EXCEPT ![p] = "deleted"]
  /\ leaving' = NoClient
  /\ UNCHANGED <<chosen, link, authVars, m_players, connected, joining, stateError>>

IsLeaving(p) == p \notin connected

(* removeRemovedObjects(), every five seconds and only when no client      *)
(* knows the object any more: the player is saved and freed.               *)
RemoveLeaving(p) ==
  /\ IsLeaving(p)
  /\ \E i \in DOMAIN m_players :
       m_players[i] = p /\ m_players' = RemoveAt(m_players, i)
  /\ UNCHANGED <<state, chosen, link, authVars, connected, joining, leaving, stateError>>

SessionsNext == \E p \in Clients :
  \/ PeerAdded(p) \/ \E n \in Names : InitDenied(p, n) \/ HandleInit(p, n)
  \/ Register(p) \/ ChangePassword(p) \/ SrpBytesA(p) \/ SrpBytesM(p)
  \/ Init2(p) \/ ClientReady(p) \/ SetClientReady(p)
  \/ Kick(p) \/ PeerLost(p) \/ Linger(p)
  \/ DeletingPeer(p) \/ Disconnected(p) \/ DeleteClient(p) \/ RemoveLeaving(p)

SessionsSpec == SessionsInit /\ [][SessionsNext]_sessionVars

(***************************************************************************)
(* Properties.                                                             *)
(***************************************************************************)

Namesakes(p, q) == p # q /\ name[p] = name[q]

(* "In the end only one player with a given name will be emerged"          *)
(* (handleCommand_FirstSrp), however clients of one name race through      *)
(* login.  The code grants one exception: getPlayer(name) stops at the     *)
(* first player, also when that one has left and waits for its removal, so *)
(* that more than one may join under its name meanwhile.                   *)
LoginRaceSafe == \A p, q \in connected :
  Namesakes(p, q) => \E r \in Clients : name[r] = name[p] /\ state[r] = "deleted"

(* An active client has a connected player in the environment, whoever     *)
(* kicks, disconnects, deletes or removes, on any thread and in between:   *)
(* who has a player's client while it is active finds the player as long   *)
(* as the client stays active.  A connected player has such a client, or   *)
(* one that joins, was denied, or is about to be deleted.                  *)
ActiveHasPlayer == \A p \in Clients :
  /\ state[p] \in {"Active", "SudoMode"} => p \in connected /\ p \in Range(m_players)
  /\ p \in connected => \/ state[p] \in {"Active", "SudoMode", "Denied"}
                        \/ state[p] = "Disconnecting" /\ leaving = p
                        \/ joining = p

(* "two could race the join process so we have to do a final check for the *)
(* user limit here" (handleCommand_ClientReady): the limit holds.          *)
UserLimitHeld ==
  Cardinality({p \in Clients : /\ state[p] \in {"Active", "SudoMode"}
                               /\ name[p] \notin Bypass}) <= MaxUsers

(* However logins interleave, the account of a name is created once, and   *)
(* who is past authentication has one.                                     *)
AccountCreatedOnce ==
  /\ \A n \in Names : accounts[n] <= 1
  /\ \A p \in Clients :
       state[p] \in {"AwaitingInit2", "DefinitionsSent", "Active", "SudoMode"}
         => accounts[name[p]] = 1

(* No order of packets makes a handler signal an event its client's state  *)
(* has no transition for: every handler checks first.                      *)
NoStateError == ~ stateError
=============================================================================
