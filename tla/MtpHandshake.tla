---------------------------- MODULE MtpHandshake ----------------------------
(***************************************************************************)
(* How a client gets its peer id (src/network/mtp/threads.cpp, impl.cpp).   *)
(* Its first packets carry PEER_ID_INEXISTENT; the server makes a half-open *)
(* peer and answers with a reliable SET_PEER_ID, which it does not resend   *)
(* unless the client is heard again; it opens the peer when a packet        *)
(* carries the id.  The client's receive thread sets m_peer_id while its    *)
(* send thread makes packets; the command peer_id_set patches those made    *)
(* before.                                                                  *)
(*                                                                          *)
(* One client, one server.  A datagram stays in flight: it may arrive late, *)
(* again, or never.  A packet's number stands for its channel and its place  *)
(* in it; all fit in the send window (START_RELIABLE_WINDOW_SIZE).          *)
(***************************************************************************)
EXTENDS Naturals, Sequences, FiniteSets

CONSTANTS
  MaxSessions,   \* bound on the peers the server makes for the client
  MaxReliables,  \* bound on the reliable packets of the client
  MaxReminders   \* INIT_PHASE_MIN_TIMEOUT + 1 and the first sending

ASSUME HandshakeAssumption ==
  MaxSessions \in Nat /\ MaxReliables \in Nat \ {0} /\ MaxReminders \in Nat

PEER_ID_INEXISTENT == 0
GivenIds == 1 .. MaxSessions

VARIABLES
  m_peer_id,         \* of the client
  made,              \* reliable packets it made
  client_commands,   \* "send", or an id: peer_id_set
  client_phase,      \* of its send thread's loop
  queued_reliables, outgoing_reliables_sent,     \* sequence, set
  client_acks,       \* ids to acknowledge the SET_PEER_ID of
  client_receiving,  \* what its receive thread does with a SET_PEER_ID
  server_id, half_open,              \* the server's peer, 0 if none
  sessions,          \* peers it made
  server_commands,   \* "create", "resend"
  set_peer_id,       \* times the reply was sent; Acked when acknowledged
  wire

clientVars == <<m_peer_id, made, client_commands, client_phase,
                queued_reliables, outgoing_reliables_sent, client_acks,
                client_receiving>>
serverVars == <<server_id, half_open, sessions, server_commands, set_peer_id>>
handshakeVars == <<clientVars, serverVars, wire>>

Acked == MaxReminders + 2
None  == [at |-> "none", id |-> PEER_ID_INEXISTENT]

ToServer(sender, body, num) ==
  [to |-> "server", sender |-> sender, body |-> body, num |-> num]
ToClient(body, num) ==
  [to |-> "client", sender |-> 1, body |-> body, num |-> num]

(* connect(): the dummy packet is on its way to be sent. *)
HandshakeInit ==
  /\ m_peer_id = PEER_ID_INEXISTENT /\ made = 0
  /\ client_commands = <<"send">> /\ client_phase = "commands"
  /\ queued_reliables = <<>> /\ outgoing_reliables_sent = {}
  /\ client_acks = {} /\ client_receiving = None
  /\ server_id = PEER_ID_INEXISTENT /\ half_open = FALSE
  /\ sessions = 0 /\ server_commands = <<>> /\ set_peer_id = 0
  /\ wire = {}

-----------------------------------------------------------------------------
(* The client's send thread: runTimeouts(), the commands until there are no
   more, sendPackets().                                                    *)

Made == [num |-> made + 1, sender |-> m_peer_id]

Transmit(packets) ==
  wire' = wire \union {ToServer(p.sender, "reliable", p.num) : p \in packets}

(* runTimeouts() resends, with the sender id the packet has. *)
ClientResend ==
  /\ client_phase = "timeouts"
  /\ \E p \in outgoing_reliables_sent : Transmit({p})
  /\ UNCHANGED <<clientVars, serverVars>>

(* A ping does not go through queued_reliables. *)
ClientPing ==
  /\ client_phase = "timeouts" /\ made < MaxReliables
  /\ made' = made + 1
  /\ outgoing_reliables_sent' = outgoing_reliables_sent \union {Made}
  /\ Transmit({Made})
  /\ UNCHANGED <<m_peer_id, client_commands, client_phase, queued_reliables,
                 client_acks, client_receiving, serverVars>>

(* The user's Send(), at any time: a client that is not connected yet sends
   TOSERVER_INIT_FM, a reliable packet, again and again (Client::step()).   *)
UserSend ==
  /\ made + Len(client_commands) < MaxReliables
  /\ client_commands' = Append(client_commands, "send")
  /\ UNCHANGED <<m_peer_id, made, client_phase, queued_reliables,
                 outgoing_reliables_sent, client_acks, client_receiving,
                 serverVars, wire>>

SendCommand ==
  /\ client_phase = "commands" /\ client_commands # <<>> /\ Head(client_commands) = "send"
  /\ client_commands' = Tail(client_commands)
  /\ made' = made + 1 /\ queued_reliables' = Append(queued_reliables, Made)
  /\ UNCHANGED <<m_peer_id, client_phase, outgoing_reliables_sent,
                 client_acks, client_receiving, serverVars, wire>>

(* Mutant: nothing is patched. *)
fixPeerIdNone(packets, id) == packets

fixPeerId(packets, id) == {[p EXCEPT !.sender = id] : p \in packets}

(* fix_peer_id() *)
PeerIdSetCommand ==
  /\ client_phase = "commands" /\ client_commands # <<>> /\ Head(client_commands) # "send"
  /\ client_commands' = Tail(client_commands)
  /\ outgoing_reliables_sent' = fixPeerId(outgoing_reliables_sent, m_peer_id)
  /\ UNCHANGED <<m_peer_id, made, client_phase, queued_reliables,
                 client_acks, client_receiving, serverVars, wire>>

NextPhase ==
  /\ \/ client_phase = "timeouts" /\ client_phase' = "commands"
     \/ /\ client_phase = "commands" /\ client_commands = <<>>
        /\ client_phase' = "packets"
  /\ UNCHANGED <<m_peer_id, made, client_commands, queued_reliables,
                 outgoing_reliables_sent, client_acks, client_receiving,
                 serverVars, wire>>

(* sendPackets(): what is queued, and the acks, which get their sender id
   now.                                                                    *)
SendPackets ==
  LET packets == {queued_reliables[i] : i \in DOMAIN queued_reliables} IN
  /\ client_phase = "packets" /\ client_phase' = "timeouts"
  /\ queued_reliables' = <<>>
  /\ outgoing_reliables_sent' = outgoing_reliables_sent \union packets
  /\ wire' = wire \union {ToServer(p.sender, "reliable", p.num) : p \in packets}
                  \union {ToServer(m_peer_id, "ack", id) : id \in client_acks}
  /\ client_acks' = {}
  /\ UNCHANGED <<m_peer_id, made, client_commands, client_receiving, serverVars>>

-----------------------------------------------------------------------------
(* The client's receive thread.                                            *)

ClientGetsAck(d) ==
  /\ client_receiving = None /\ d.to = "client" /\ d.body = "ack"
  /\ outgoing_reliables_sent' = {p \in outgoing_reliables_sent : p.num # d.num}
  /\ UNCHANGED <<m_peer_id, made, client_commands, client_phase,
                 queued_reliables, client_acks, client_receiving, serverVars,
                 wire>>

(* The ack is ordered before the packet is processed.  Whose sequence number
   was seen before is not processed: that of every session's reply is the
   first one.                                                              *)
ClientGetsSetPeerId(d) ==
  /\ client_receiving = None /\ d.to = "client" /\ d.body = "set_peer_id"
  /\ client_acks' = client_acks \union {d.num}
  /\ client_receiving' =
       IF m_peer_id = PEER_ID_INEXISTENT THEN [at |-> "set", id |-> d.num] ELSE None
  /\ UNCHANGED <<m_peer_id, made, client_commands, client_phase,
                 queued_reliables, outgoing_reliables_sent, serverVars, wire>>

(* SetPeerID() *)
ClientSetsPeerId ==
  /\ client_receiving.at = "set" /\ m_peer_id' = client_receiving.id
  /\ client_receiving' = [client_receiving EXCEPT !.at = "command"]
  /\ UNCHANGED <<made, client_commands, client_phase, queued_reliables,
                 outgoing_reliables_sent, client_acks, serverVars, wire>>

ClientPutsCommand ==
  /\ client_receiving.at = "command"
  /\ client_commands' = Append(client_commands, "peer_id_set")
  /\ client_receiving' = None
  /\ UNCHANGED <<m_peer_id, made, client_phase, queued_reliables,
                 outgoing_reliables_sent, client_acks, serverVars, wire>>

-----------------------------------------------------------------------------
(* The server.                                                             *)

(* Mutant: any packet of its address opens the peer.                       *)
OpensAny(d) == TRUE

Opens(d) == d.sender # PEER_ID_INEXISTENT

(* The packet is acknowledged, or acknowledges the reply. *)
Process(d, id) ==
  IF d.body = "reliable"
  THEN wire' = wire \union {ToClient("ack", d.num)} /\ UNCHANGED set_peer_id
  ELSE /\ set_peer_id' = IF d.num = id /\ set_peer_id # 0 THEN Acked ELSE set_peer_id
       /\ UNCHANGED wire

(* Somebody new: createPeer().                                             *)
ServerGetsFirst(d) ==
  /\ d.to = "server" /\ d.sender = PEER_ID_INEXISTENT
  /\ server_id = PEER_ID_INEXISTENT /\ sessions < MaxSessions
  /\ sessions' = sessions + 1 /\ server_id' = sessions'
  /\ half_open' = ~Opens(d)
  /\ server_commands' = <<"create">>
  /\ set_peer_id' = 0
  /\ wire' = IF d.body = "reliable" THEN wire \union {ToClient("ack", d.num)} ELSE wire
  /\ UNCHANGED clientVars

(* Somebody who does not know his id yet is found by his address, and the
   reply is sent again; if he has known it he is ignored.                  *)
ServerGetsAnonymous(d) ==
  /\ d.to = "server" /\ d.sender = PEER_ID_INEXISTENT
  /\ server_id # PEER_ID_INEXISTENT
  /\ Len(server_commands) < 2 /\ server_commands' = Append(server_commands, "resend")
  /\ IF half_open THEN Process(d, server_id) /\ half_open' = ~Opens(d)
                  ELSE UNCHANGED <<wire, set_peer_id, half_open>>
  /\ UNCHANGED <<clientVars, server_id, sessions>>

ServerGetsKnown(d) ==
  /\ d.to = "server" /\ d.sender # PEER_ID_INEXISTENT
  /\ d.sender = server_id
  /\ Process(d, server_id) /\ half_open' = (half_open /\ ~Opens(d))
  /\ UNCHANGED <<clientVars, server_id, sessions, server_commands>>

(* CONCMD_CREATE_PEER, CONNCMD_RESEND_ONE.                                  *)
ServerCommand ==
  /\ server_commands # <<>> /\ server_commands' = Tail(server_commands)
  /\ IF Head(server_commands) = "create" \/ set_peer_id \in 1 .. MaxReminders
     THEN /\ wire' = wire \union {ToClient("set_peer_id", server_id)}
          /\ set_peer_id' = set_peer_id + 1
     ELSE UNCHANGED <<wire, set_peer_id>>
  /\ UNCHANGED <<clientVars, server_id, half_open, sessions>>

(* runTimeouts(): resends start when the peer is open; or it has timed out. *)
ServerResend ==
  /\ server_id # PEER_ID_INEXISTENT /\ ~half_open /\ set_peer_id \in 1 .. MaxReminders + 1
  /\ wire' = wire \union {ToClient("set_peer_id", server_id)}
  /\ UNCHANGED <<clientVars, serverVars>>

ServerTimeout ==
  /\ server_id # PEER_ID_INEXISTENT /\ server_id' = PEER_ID_INEXISTENT
  /\ half_open' = FALSE /\ server_commands' = <<>> /\ set_peer_id' = 0
  /\ UNCHANGED <<clientVars, sessions, wire>>

HandshakeNext ==
  \/ ClientResend \/ ClientPing \/ UserSend
  \/ SendCommand \/ PeerIdSetCommand \/ NextPhase \/ SendPackets
  \/ ClientSetsPeerId \/ ClientPutsCommand
  \/ \E d \in wire :
       \/ ClientGetsAck(d) \/ ClientGetsSetPeerId(d)
       \/ ServerGetsFirst(d) \/ ServerGetsAnonymous(d) \/ ServerGetsKnown(d)
  \/ ServerCommand \/ ServerResend \/ ServerTimeout

HandshakeSpec == HandshakeInit /\ [][HandshakeNext]_handshakeVars

-----------------------------------------------------------------------------
(* Properties.                                                             *)

(* The client has its id, and the command that SetPeerID() orders is done. *)
IdSet ==
  /\ m_peer_id # PEER_ID_INEXISTENT /\ client_receiving = None
  /\ "peer_id_set" \notin {client_commands[i] : i \in DOMAIN client_commands}

StillQueued == {queued_reliables[i] : i \in DOMAIN queued_reliables}

(* What it will send, again or for the first time, without its id.         *)
Unpatched == {p \in outgoing_reliables_sent \union StillQueued : p.sender # m_peer_id}

(* "fix peer id in existing queued reliable packets" (SetPeerID()): once it
   is done there are none.  The server ignores them for ever ("sending
   without peer id?!"), so that their channel would stop.  fix_peer_id()
   misses those that are still in queued_reliables.                         *)
FixedId == IdSet => Unpatched = {}

(* Those are all it misses: a packet without its id that the client keeps
   was in queued_reliables when fix_peer_id() ran; none that had been sent
   before is left, and none is made later, by whatever thread.              *)
OnlyQueuedUnpatched ==
  [][IdSet' => Unpatched' \subseteq IF IdSet THEN Unpatched ELSE StillQueued]_handshakeVars

(* A peer that the server takes for open is one the client takes itself for,
   whatever sessions were begun and given up before (SetFullyOpen()).       *)
OpenIsMutual ==
  server_id # PEER_ID_INEXISTENT /\ ~half_open => m_peer_id = server_id
=============================================================================
