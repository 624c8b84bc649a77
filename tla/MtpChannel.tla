----------------------------- MODULE MtpChannel -----------------------------
(***************************************************************************)
(* One direction of one reliable MTP channel between two connected peers   *)
(* (src/network/mtp/{impl,threads}.cpp): the sending host's                *)
(* ConnectionSendThread with its Channel, the UDP datagrams and acks in    *)
(* flight, and the receiving host's ConnectionReceiveThread with its       *)
(* Channel.                                                                *)
(*                                                                         *)
(* A packet is [seq, id]: seq is the u16 on the wire, id a ghost that      *)
(* counts the sequence numbers taken, so that a property can tell apart    *)
(* two packets that carry the same u16.                                    *)
(***************************************************************************)
EXTENDS MtpSeqnum, Sequences, FiniteSets

CONSTANTS
  SEQNUM_INITIAL,
  MIN_RELIABLE_WINDOW_SIZE, START_RELIABLE_WINDOW_SIZE,
  MAX_RELIABLE_WINDOW_SIZE_SEND,
  WindowSteps,          \* what UpdateTimers may add to the window in a second
  MaxPacketsRequeued,   \* m_max_packets_requeued
  CommandSizes,         \* numbers of chunks a command may be split into
  HasPings,             \* TRUE for channel 0, which alone carries pings
  MaxAge,               \* a datagram outlives fewer than MaxAge new packets
  NetCapacity,          \* bound: datagrams, and acks, in flight
  MaxWaiting,           \* bound: commands in queued_commands
  MaxPackets            \* bound: packets the sender's users ask for

ASSUME ChannelAssumption ==
  /\ SEQNUM_INITIAL \in Seqnums
  /\ MIN_RELIABLE_WINDOW_SIZE \in Nat
  /\ MAX_RELIABLE_WINDOW_SIZE_SEND \in Nat
  /\ START_RELIABLE_WINDOW_SIZE \in
       MIN_RELIABLE_WINDOW_SIZE .. MAX_RELIABLE_WINDOW_SIZE_SEND
  /\ WindowSteps \subseteq Int
  /\ MaxPacketsRequeued \in Nat
  /\ CommandSizes \subseteq 1 .. MAX_RELIABLE_WINDOW_SIZE - 1
  /\ HasPings \in BOOLEAN
  /\ MaxAge \in 0 .. MAX_RELIABLE_WINDOW_SIZE
  /\ NetCapacity \in Nat
  /\ MaxWaiting \in Nat
  /\ MaxPackets \in Nat

VARIABLES
  at,                 \* where ConnectionSendThread::run() is in its loop
  peer,               \* "open", "closing" (m_pending_disconnect), "deleted"
  window,             \* m_window_size
  queued_commands,    \* commands waiting for sequence numbers, by size
  queued_reliables,   \* packets with a sequence number, not sent yet
  outgoing,           \* outgoing_reliables_sent: sent, not acknowledged
  next_outgoing,      \* next_outgoing_seqnum
  taken,              \* ghost: sequence numbers taken so far
  issued,             \* ghost: packets asked for so far
  net, acks,          \* datagrams and acks in flight
  incoming,           \* incoming_reliables: received ahead of their turn
  next_incoming,      \* next_incoming_seqnum
  delivered           \* ghost: the ids given to processPacket, in order

senderVars   == <<at, peer, window, queued_commands, queued_reliables,
                  next_outgoing, taken, issued>>
receiverVars == <<incoming, next_incoming, delivered>>
vars == <<senderVars, outgoing, net, acks, receiverVars>>

Packet == [seq : Seqnums, id : Nat]
Windows == MIN_RELIABLE_WINDOW_SIZE .. MAX_RELIABLE_WINDOW_SIZE_SEND
Queued  == {queued_reliables[i] : i \in DOMAIN queued_reliables}

Init ==
  /\ at = "resend" /\ peer = "open"
  /\ window = START_RELIABLE_WINDOW_SIZE
  /\ queued_commands = <<>> /\ queued_reliables = <<>>
  /\ outgoing = {} /\ net = {} /\ acks = {} /\ incoming = {}
  /\ next_outgoing = SEQNUM_INITIAL /\ next_incoming = SEQNUM_INITIAL
  /\ taken = 0 /\ issued = 0 /\ delivered = <<>>

-----------------------------------------------------------------------------
(* The network: a datagram put on the wire may be lost, one taken off it   *)
(* may arrive again.                                                       *)

Fresh(p) == taken - p.id <= MaxAge

Transmit(wire, p) ==
  {wire} \cup {w \in {wire \cup {p}} : Cardinality(w) <= NetCapacity}
TakeOff(wire, p) == {wire, wire \ {p}}

(* A datagram older than the assumed lifetime is gone for good.            *)
Expire ==
  /\ \E p \in net \cup acks : ~Fresh(p)
  /\ net'  = {p \in net : Fresh(p)}
  /\ acks' = {p \in acks : Fresh(p)}
  /\ UNCHANGED <<senderVars, outgoing, receiverVars>>

-----------------------------------------------------------------------------
(* Sequence numbers (Channel::getOutgoingSequenceNumber) and the sender's  *)
(* buffer (ReliablePacketBuffer::insert, called by sendAsPacketReliable).  *)

(* getFirstSeqnum(): the list is kept in order from SendWindowStart on.    *)
IsFirst(p) ==
  /\ p \in outgoing
  /\ \A q \in outgoing : Distance(next_outgoing, q.seq)
                           <= Distance(next_outgoing, p.seq)

(* Mutant: the window is not asked.                                        *)
HasRoomAlways(next) == TRUE

(* May a sequence number be taken when the next one to take is next?       *)
HasRoom(next) ==
  \A p \in outgoing : IsFirst(p) =>
    IF p.seq < next THEN next - p.seq <= window
                    ELSE next + (SEQNUM_MAX - p.seq) <= window

(* A command takes all the numbers it needs or gives them all back         *)
(* (putBackSequenceNumber).                                                *)
HasRoomFor(n) == \A i \in 0 .. n - 1 : HasRoom(Advance(next_outgoing, i))

NewPackets(n) ==
  [i \in 1 .. n |-> [seq |-> Advance(next_outgoing, i - 1),
                     id  |-> taken + i - 1]]

Take(n) == /\ next_outgoing' = Advance(next_outgoing, n)
           /\ taken' = taken + n

Enqueue(n) == /\ queued_reliables' = queued_reliables \o NewPackets(n)
              /\ Take(n)

(* Mutant: the half circle starts at next, as on the receiver.             *)
BuffersAhead(p, next) ==
  SeqnumInWindow(p.seq, next, MAX_RELIABLE_WINDOW_SIZE) /\ p.seq # next

(* insert() refuses a packet outside the half circle that ends at          *)
(* next_outgoing, and the first of that half circle; the packet is sent    *)
(* all the same.                                                           *)
Buffers(p, next) ==
  /\ SeqnumInWindow(p.seq, SendWindowStart(next), MAX_RELIABLE_WINDOW_SIZE)
  /\ p.seq # SendWindowStart(next)

SendAsPacketReliable(p, next) ==
  /\ outgoing' = IF Buffers(p, next) THEN outgoing \cup {p} ELSE outgoing
  /\ net' \in Transmit(net, p)

-----------------------------------------------------------------------------
(* ConnectionSendThread::runTimeouts()                                     *)

(* Connection::deletePeer(): the peer and its buffers are gone.            *)
DeletePeer ==
  /\ peer' = "deleted"
  /\ outgoing' = {} /\ queued_commands' = <<>> /\ queued_reliables' = <<>>

(* No datagram arrived for too long, or a packet stayed unacknowledged for *)
(* too long (UDPPeer::isTimedOut()).                                       *)
TimeoutPeer ==
  /\ at = "resend" /\ peer # "deleted"
  /\ DeletePeer
  /\ UNCHANGED <<at, window, next_outgoing, taken, issued, net, acks,
                 receiverVars>>

(* getResend() + resendReliable() for one timed out packet.                *)
Resend(p) ==
  /\ at = "resend" /\ peer # "deleted"
  /\ p \in outgoing
  /\ net' \in Transmit(net, p)
  /\ UNCHANGED <<senderVars, outgoing, acks, receiverVars>>

(* setWindowSize() limits the new size; UpdateTimers() may call it.        *)
RangeLim(size) ==
  IF size < MIN_RELIABLE_WINDOW_SIZE THEN MIN_RELIABLE_WINDOW_SIZE
  ELSE IF size > MAX_RELIABLE_WINDOW_SIZE_SEND
       THEN MAX_RELIABLE_WINDOW_SIZE_SEND ELSE size

UpdateTimers ==
  /\ at = "resend" /\ peer # "deleted"
  /\ at' = "queues"
  /\ \E d \in WindowSteps \cup {0} : window' = RangeLim(window + d)
  /\ UNCHANGED <<peer, queued_commands, queued_reliables, next_outgoing,
                 taken, issued, outgoing, net, acks, receiverVars>>

(* rawSendAsPacket(reliable) of a ping: sent at once when the window has   *)
(* room, ahead of everything in queued_reliables; dropped when there is no *)
(* sequence number for it.                                                 *)
Ping ==
  /\ at = "queues" /\ HasPings
  /\ issued < MaxPackets
  /\ at' = "pinged"
  /\ IF HasRoom(next_outgoing)
     THEN /\ Take(1)
          /\ issued' = issued + 1
          /\ LET p == NewPackets(1)[1] IN
             IF Cardinality(outgoing) < window
             THEN /\ SendAsPacketReliable(p, Advance(next_outgoing, 1))
                  /\ UNCHANGED queued_reliables
             ELSE /\ queued_reliables' = Append(queued_reliables, p)
                  /\ UNCHANGED <<outgoing, net>>
     ELSE UNCHANGED <<next_outgoing, taken, issued, queued_reliables,
                      outgoing, net>>
  /\ UNCHANGED <<peer, window, queued_commands, acks, receiverVars>>

(* UDPPeer::RunCommandQueues(): at most the first waiting command.         *)
RunCommandQueues ==
  /\ at \in {"queues", "pinged"}
  /\ at' = "commands"
  /\ IF /\ queued_commands # <<>>
        /\ Len(queued_reliables) < MaxPacketsRequeued
        /\ peer = "closing" \/ HasRoomFor(Head(queued_commands))
     THEN /\ queued_commands' = Tail(queued_commands)
          /\ IF peer = "closing"
             THEN UNCHANGED <<queued_reliables, next_outgoing, taken>>
             ELSE Enqueue(Head(queued_commands))
     ELSE UNCHANGED <<queued_commands, queued_reliables, next_outgoing, taken>>
  /\ UNCHANGED <<peer, window, issued, outgoing, net, acks, receiverVars>>

-----------------------------------------------------------------------------
(* The command loop of ConnectionSendThread::run()                         *)

(* UDPPeer::PutReliableSendCommand() of a command of n chunks.             *)
SendCommand(n) ==
  /\ at = "commands" /\ peer = "open"
  /\ issued + n <= MaxPackets
  /\ Len(queued_commands) < MaxWaiting
  /\ issued' = issued + n
  /\ IF /\ queued_commands = <<>>
        /\ Len(queued_reliables) + 1 < window \div 2
        /\ HasRoomFor(n)
     THEN Enqueue(n) /\ UNCHANGED queued_commands
     ELSE /\ queued_commands' = Append(queued_commands, n)
          /\ UNCHANGED <<queued_reliables, next_outgoing, taken>>
  /\ UNCHANGED <<at, peer, window, outgoing, net, acks, receiverVars>>

(* disconnect_peer()                                                       *)
DisconnectPeer ==
  /\ at = "commands" /\ peer = "open"
  /\ peer' = "closing"
  /\ UNCHANGED <<at, window, queued_commands, queued_reliables, next_outgoing,
                 taken, issued, outgoing, net, acks, receiverVars>>

-----------------------------------------------------------------------------
(* ConnectionSendThread::sendPackets()                                     *)

CanSendQueued ==
  /\ queued_reliables # <<>>
  /\ Cardinality(outgoing) < window

SendQueued ==
  /\ at \in {"commands", "packets"}
  /\ CanSendQueued
  /\ at' = "packets"
  /\ SendAsPacketReliable(Head(queued_reliables), next_outgoing)
  /\ queued_reliables' = Tail(queued_reliables)
  /\ UNCHANGED <<peer, window, queued_commands, next_outgoing, taken, issued,
                 acks, receiverVars>>

(* The quota of a peer is at least one packet and channel 0 is served      *)
(* first: it sends something when it can, the other channels may not.      *)
(* A closing peer is deleted unless unreliable packets still wait for it.  *)
FinishPackets ==
  /\ at \in {"commands", "packets"}
  /\ (at = "commands" /\ HasPings) => ~CanSendQueued
  /\ at' = "resend"
  /\ \/ UNCHANGED <<peer, outgoing, queued_commands, queued_reliables>>
     \/ peer = "closing" /\ DeletePeer
  /\ UNCHANGED <<window, next_outgoing, taken, issued, net, acks,
                 receiverVars>>

(* handlePacketType_Control(CONTROLTYPE_ACK) on the sender's receive       *)
(* thread: popSeqnum() takes whichever packet carries that number.         *)
ReceiveAck(a) ==
  /\ a \in acks /\ Fresh(a)
  /\ acks' \in TakeOff(acks, a)
  /\ outgoing' = {p \in outgoing : p.seq # a.seq}
  /\ UNCHANGED <<senderVars, net, receiverVars>>

-----------------------------------------------------------------------------
(* ConnectionReceiveThread::receive() on the receiver                      *)

CanDrain == \E p \in incoming : p.seq = next_incoming

(* Mutant: whatever is buffered is given to the user.                      *)
DrainAny(p) ==
  /\ p \in incoming
  /\ incoming' = incoming \ {p}
  /\ next_incoming' = Advance(next_incoming, 1)
  /\ delivered' = Append(delivered, p.id)
  /\ UNCHANGED <<senderVars, outgoing, net, acks>>

(* checkIncomingBuffers()                                                  *)
Drain(p) ==
  /\ p \in incoming /\ p.seq = next_incoming
  /\ incoming' = incoming \ {p}
  /\ next_incoming' = Advance(next_incoming, 1)
  /\ delivered' = Append(delivered, p.id)
  /\ UNCHANGED <<senderVars, outgoing, net, acks>>

InReceiveWindow(p) ==
  SeqnumInWindow(p.seq, next_incoming, MAX_RELIABLE_WINDOW_SIZE)

SendsAck(p) ==
  InReceiveWindow(p) \/ /\ ~SeqnumHigher(p.seq, next_incoming)
                        /\ SeqnumHigher(next_incoming, p.seq)

Ignore(p) == /\ ~InReceiveWindow(p)
             /\ UNCHANGED receiverVars

DeliverNow(p) == /\ InReceiveWindow(p) /\ p.seq = next_incoming
                 /\ next_incoming' = Advance(next_incoming, 1)
                 /\ delivered' = Append(delivered, p.id)
                 /\ incoming' = {q \in incoming : q.seq # p.seq}

(* Mutant: acknowledged, but not kept.                                     *)
BufferAheadNot(p) == /\ InReceiveWindow(p) /\ p.seq # next_incoming
                     /\ UNCHANGED receiverVars

(* A packet whose number is already buffered is not buffered twice.        *)
BufferAhead(p) == /\ InReceiveWindow(p) /\ p.seq # next_incoming
                  /\ incoming' = IF \E q \in incoming : q.seq = p.seq
                                 THEN incoming ELSE incoming \cup {p}
                  /\ UNCHANGED <<next_incoming, delivered>>

(* handlePacketType_Reliable(): ack, then deliver, buffer or ignore.       *)
ReceiveReliable(p) ==
  /\ p \in net /\ Fresh(p)
  /\ ~CanDrain
  /\ net' \in TakeOff(net, p)
  /\ acks' \in IF SendsAck(p) THEN Transmit(acks, p) ELSE {acks}
  /\ Ignore(p) \/ DeliverNow(p) \/ BufferAhead(p)
  /\ UNCHANGED <<senderVars, outgoing>>

-----------------------------------------------------------------------------
Timeouts == TimeoutPeer \/ UpdateTimers \/ Ping \/ RunCommandQueues
            \/ \E p \in outgoing : Resend(p)
Commands == DisconnectPeer \/ \E n \in CommandSizes : SendCommand(n)
Packets  == SendQueued \/ FinishPackets
Receive  == \/ \E a \in acks : ReceiveAck(a)
            \/ \E p \in incoming : Drain(p)
            \/ \E p \in net : ReceiveReliable(p)

Next == Timeouts \/ Commands \/ Packets \/ Receive \/ Expire

Spec == Init /\ [][Next]_vars

(* The two threads keep running; of infinitely many transmissions of a     *)
(* packet, or of its ack, one is not lost and is received.                 *)
Fairness ==
  /\ WF_vars(UpdateTimers) /\ WF_vars(RunCommandQueues)
  /\ WF_vars(Packets) /\ WF_vars(Expire)
  /\ WF_vars(\E p \in incoming : Drain(p))
  /\ \A i \in 0 .. MaxPackets - 1 :
       /\ SF_vars(\E p \in outgoing : p.id = i /\ Resend(p) /\ p \in net')
       /\ SF_vars(\E p \in net : p.id = i /\ ReceiveReliable(p) /\ p \notin net')
       /\ SF_vars(\E p \in net : /\ p.id = i /\ ReceiveReliable(p)
                                 /\ SendsAck(p) => p \in acks')
       /\ SF_vars(\E a \in acks : a.id = i /\ ReceiveAck(a) /\ a \notin acks')

FairSpec == Spec /\ Fairness

-----------------------------------------------------------------------------
(* Properties.                                                             *)

(* Every variable has its type; the sender's buffer never outgrows the     *)
(* largest window.                                                         *)
TypeOK ==
  /\ at \in {"resend", "queues", "pinged", "commands", "packets"}
  /\ peer \in {"open", "closing", "deleted"}
  /\ window \in Windows
  /\ queued_commands \in Seq(CommandSizes)
  /\ queued_reliables \in Seq(Packet)
  /\ outgoing \subseteq Packet /\ net \subseteq Packet
  /\ acks \subseteq Packet /\ incoming \subseteq Packet
  /\ next_outgoing \in Seqnums /\ next_incoming \in Seqnums
  /\ taken \in Nat /\ issued \in Nat
  /\ delivered \in Seq(Nat)

(* internal.h: "they shall be delivered in the same order as sent", each   *)
(* exactly once, whatever the network loses, repeats or reorders, and      *)
(* although the numbers wrap around.                                       *)
Fifo == INSTANCE FifoDelivery WITH accepted <- taken, delivered <- delivered
FifoSpec == Fifo!FifoSpec
InOrder == \A i \in DOMAIN delivered : delivered[i] = i - 1

(* The circle is wide enough: when the receiver turns to the network, all  *)
(* packets from the first it lacks to the newest fit in half of the        *)
(* circle.  Everything else rests on this, and only the sender's limits    *)
(* (window, MaxPacketsRequeued, command size) keep it.                     *)
WithinLap == taken - Len(delivered) < Modulus
SpanOK ==
  /\ WithinLap
  /\ ~CanDrain => taken - Len(delivered) <= MAX_RELIABLE_WINDOW_SIZE

(* insert() never meets a different packet under a number it already       *)
(* holds, so IncomingDataCorruption ("your maximum transfer window may be  *)
(* to big") is never thrown at a correct sender.                           *)
NoCorruption ==
  \A p \in net : \A q \in incoming : Fresh(p) /\ p.seq = q.seq => p = q

(* internal.h, Channel: "buffering the sent packets so that the sender can *)
(* re-send them if no ACK is received".  Until the receiver has a packet   *)
(* the sender can still produce it.                                        *)
Retransmittable ==
  peer # "deleted" =>
    \A i \in 0 .. taken - 1 :
      \/ i < Len(delivered)
      \/ \E p \in Queued \cup outgoing \cup incoming : p.id = i

(* An ack removes from the sender's buffer only packets the receiver has.  *)
AckedIsReceived ==
  [][\A p \in outgoing : p \notin outgoing' /\ peer' # "deleted" =>
       p.id < Len(delivered) \/ p \in incoming]_vars

(* Every packet asked for reaches the receiver's user, unless the          *)
(* connection ends: no lost wakeup between the queue of commands, the      *)
(* window and the retransmission.                                          *)
Delivered ==
  \A i \in 1 .. MaxPackets :
    issued >= i ~> Len(delivered) >= i \/ peer # "open"
=============================================================================
