-------------------------- MODULE MtpChannelProofs --------------------------
(***************************************************************************)
(* Proofs about MtpChannel, for every size of the circle, of the windows   *)
(* and of the commands.                                                    *)
(***************************************************************************)
EXTENDS MtpChannelInvariants, SequenceTheorems, TLAPS

-----------------------------------------------------------------------------
(* Arithmetic on the circle.                                               *)

(* n steps forward stay on the circle when n is at most its length.        *)
LEMMA AdvanceType ==
  ASSUME NEW s \in Seqnums, NEW n \in 0 .. Modulus
  PROVE  Advance(s, n) \in Seqnums
BY WindowAssumption DEF Advance, Wrap, Seqnums, SEQNUM_MAX, Modulus

(* Distances are on the circle too.                                        *)
LEMMA DistanceType ==
  ASSUME NEW a \in Seqnums, NEW b \in Seqnums
  PROVE  Distance(a, b) \in Seqnums
BY WindowAssumption DEF Distance, Seqnums, SEQNUM_MAX, Modulus

LEMMA DistanceZero ==
  ASSUME NEW a \in Seqnums, NEW b \in Seqnums
  PROVE  Distance(a, b) = 0 <=> a = b
BY WindowAssumption DEF Distance, Seqnums, SEQNUM_MAX, Modulus

(* The head moves n steps: everything else falls n steps behind.           *)
LEMMA DistanceAdvance ==
  ASSUME NEW a \in Seqnums, NEW b \in Seqnums, NEW n \in 0 .. Modulus,
         Distance(a, b) + n < Modulus
  PROVE  Distance(Advance(a, n), b) = Distance(a, b) + n
BY WindowAssumption DEF Distance, Advance, Wrap, Seqnums, SEQNUM_MAX, Modulus

(* What is behind moves a step: it comes a step closer.                    *)
LEMMA DistanceCatchUp ==
  ASSUME NEW a \in Seqnums, NEW b \in Seqnums, Distance(a, b) # 0
  PROVE  Distance(a, Advance(b, 1)) = Distance(a, b) - 1
BY WindowAssumption DEF Distance, Advance, Wrap, Seqnums, SEQNUM_MAX, Modulus

(* The distances of the numbers a command takes.                           *)
LEMMA DistanceNew ==
  ASSUME NEW a \in Seqnums, NEW n \in 1 .. MAX_RELIABLE_WINDOW_SIZE,
         NEW i \in 0 .. n - 1
  PROVE  Distance(Advance(a, n), Advance(a, i)) = n - i
BY WindowAssumption DEF Distance, Advance, Wrap, Seqnums, SEQNUM_MAX, Modulus

(* b and c as seen from a, and b as seen from c.                           *)
LEMMA DistanceSplit ==
  ASSUME NEW a \in Seqnums, NEW b \in Seqnums, NEW c \in Seqnums
  PROVE  Distance(b, c) = IF Distance(a, b) <= Distance(a, c)
                          THEN Distance(a, c) - Distance(a, b)
                          ELSE Modulus - (Distance(a, b) - Distance(a, c))
BY WindowAssumption DEF Distance, Seqnums, SEQNUM_MAX, Modulus

(* seqnum_in_window() is membership in a circular interval.                *)
THEOREM InWindowCorrect == \A next \in Seqnums : InWindowIsDistance(next)
BY WindowAssumption DEF InWindowIsDistance, SeqnumInWindow, Distance, Wrap,
                        Seqnums, SEQNUM_MAX, Modulus

(* seqnum_higher() says yes of exactly one of two different numbers.       *)
THEOREM HigherTotal == \A next \in Seqnums : HigherIsTotal(next)
BY WindowAssumption DEF HigherIsTotal, SeqnumHigher, Seqnums, SEQNUM_MAX,
                        Modulus

(* seqnum_higher() agrees with the distance up to half the circle.         *)
THEOREM HigherCorrect == \A next \in Seqnums : HigherIsAhead(next)
BY WindowAssumption DEF HigherIsAhead, SeqnumHigher, Distance, Seqnums,
                        SEQNUM_MAX, Modulus

-----------------------------------------------------------------------------
(* Type correctness.                                                       *)

(* What is on the wire after a transmission.                               *)
LEMMA TransmitCases ==
  ASSUME NEW wire, NEW p, NEW w \in Transmit(wire, p)
  PROVE  w = wire \/ w = wire \cup {p}
BY DEF Transmit

LEMMA TakeOffCases ==
  ASSUME NEW wire, NEW p, NEW w \in TakeOff(wire, p)
  PROVE  w \subseteq wire
BY DEF TakeOff

(* The packets a command makes.                                            *)
LEMMA NewPacketsType ==
  ASSUME TypeOK, NEW n \in 1 .. MAX_RELIABLE_WINDOW_SIZE
  PROVE  /\ NewPackets(n) \in Seq(Packet)
         /\ Len(NewPackets(n)) = n
         /\ \A i \in 1 .. n : NewPackets(n)[i] =
              [seq |-> Advance(next_outgoing, i - 1), id |-> taken + i - 1]
<1>1. \A i \in 1 .. n :
        [seq |-> Advance(next_outgoing, i - 1), id |-> taken + i - 1] \in Packet
  <2> TAKE i \in 1 .. n
  <2>1. i - 1 \in 0 .. Modulus
    BY WindowAssumption DEF Modulus
  <2> QED BY <2>1, AdvanceType DEF TypeOK, Packet
<1>2. NewPackets(n) \in [1 .. n -> Packet]
  BY <1>1 DEF NewPackets
<1>3. n \in Nat
  BY WindowAssumption
<1>4. NewPackets(n) \in Seq(Packet)
  BY <1>2, <1>3, SeqDef
<1>5. DOMAIN NewPackets(n) = 1 .. n
  BY DEF NewPackets
<1>6. Len(NewPackets(n)) = n
  BY <1>3, <1>4, <1>5, LenProperties
<1> QED BY <1>4, <1>6 DEF NewPackets

(* What setWindowSize() accepts.                                           *)
LEMMA RangeLimType ==
  ASSUME NEW size \in Int
  PROVE  RangeLim(size) \in Windows
BY ChannelAssumption DEF RangeLim, Windows

LEMMA TypeInit == Init => TypeOK
BY ChannelAssumption DEF Init, TypeOK, Windows

LEMMA SmallCommands ==
  /\ CommandSizes \subseteq 1 .. MAX_RELIABLE_WINDOW_SIZE
  /\ 1 \in 1 .. MAX_RELIABLE_WINDOW_SIZE
BY ChannelAssumption, WindowAssumption

LEMMA TakeType ==
  ASSUME TypeOK, NEW n \in 1 .. MAX_RELIABLE_WINDOW_SIZE, Take(n)
  PROVE  next_outgoing' \in Seqnums /\ taken' \in Nat
<1>1. n \in 0 .. Modulus
  BY WindowAssumption DEF Modulus
<1> QED BY <1>1, AdvanceType, WindowAssumption DEF Take, TypeOK

LEMMA EnqueueType ==
  ASSUME TypeOK, NEW n \in 1 .. MAX_RELIABLE_WINDOW_SIZE, Enqueue(n)
  PROVE  /\ next_outgoing' \in Seqnums /\ taken' \in Nat
         /\ queued_reliables' \in Seq(Packet)
BY TakeType, NewPacketsType DEF Enqueue, TypeOK

LEMMA TypeStep == TypeOK /\ [Next]_vars => TypeOK'
<1> SUFFICES ASSUME TypeOK, [Next]_vars PROVE TypeOK'
  OBVIOUS
<1> USE DEF senderVars, receiverVars
<1>1. CASE TimeoutPeer
  BY <1>1 DEF TimeoutPeer, DeletePeer, TypeOK
<1>2. CASE UpdateTimers
  <2>1. PICK d \in WindowSteps \cup {0} : window' = RangeLim(window + d)
    BY <1>2 DEF UpdateTimers
  <2>2. window + d \in Int
    BY ChannelAssumption DEF TypeOK, Windows
  <2>3. window' \in Windows
    BY <2>1, <2>2, RangeLimType
  <2> QED BY <1>2, <2>3 DEF UpdateTimers, TypeOK
<1>3. CASE Ping
  <2>1. NewPackets(1)[1] \in Packet
    BY NewPacketsType, SmallCommands
  <2>2. CASE Take(1) /\ issued' = issued + 1
    <3>1. next_outgoing' \in Seqnums /\ taken' \in Nat
      BY <2>2, TakeType, SmallCommands
    <3>2. \/ /\ SendAsPacketReliable(NewPackets(1)[1], Advance(next_outgoing, 1))
             /\ UNCHANGED queued_reliables
          \/ /\ queued_reliables' = Append(queued_reliables, NewPackets(1)[1])
             /\ UNCHANGED <<outgoing, net>>
          \/ UNCHANGED <<queued_reliables, outgoing, net>>
      BY <1>3 DEF Ping
    <3>3. queued_reliables' \in Seq(Packet)
      <4>1. queued_reliables \in Seq(Packet)
        BY DEF TypeOK
      <4>2. \/ queued_reliables' = queued_reliables
            \/ queued_reliables' = Append(queued_reliables, NewPackets(1)[1])
        BY <3>2
      <4> QED BY <2>1, <4>1, <4>2, AppendProperties
    <3>4. outgoing' \subseteq Packet /\ net' \subseteq Packet
      BY <2>1, <3>2, TransmitCases DEF TypeOK, SendAsPacketReliable
    <3> QED BY <1>3, <2>2, <3>1, <3>3, <3>4 DEF Ping, TypeOK
  <2>3. CASE UNCHANGED <<next_outgoing, taken, issued, queued_reliables,
                         outgoing, net>>
    BY <1>3, <2>3 DEF Ping, TypeOK
  <2> QED BY <1>3, <2>2, <2>3 DEF Ping
<1>4. CASE RunCommandQueues
  <2>1. CASE queued_commands # <<>> /\ Enqueue(Head(queued_commands))
             /\ queued_commands' = Tail(queued_commands)
    <3>0. queued_commands \in Seq(CommandSizes)
      BY DEF TypeOK
    <3>1. Head(queued_commands) \in 1 .. MAX_RELIABLE_WINDOW_SIZE
      BY <2>1, <3>0, HeadTailProperties, SmallCommands
    <3>2. queued_commands' \in Seq(CommandSizes)
      BY <2>1, <3>0, HeadTailProperties
    <3> QED BY <1>4, <3>1, <3>2, <2>1, EnqueueType DEF RunCommandQueues, TypeOK
  <2>2. CASE UNCHANGED <<queued_reliables, next_outgoing, taken>>
             /\ queued_commands' \in Seq(CommandSizes)
    BY <1>4, <2>2 DEF RunCommandQueues, TypeOK
  <2>3. queued_commands # <<>> => Tail(queued_commands) \in Seq(CommandSizes)
    BY HeadTailProperties DEF TypeOK
  <2>4. queued_commands \in Seq(CommandSizes)
    BY DEF TypeOK
  <2> QED BY <1>4, <2>1, <2>2, <2>3, <2>4 DEF RunCommandQueues
<1>5. ASSUME NEW p \in outgoing, Resend(p) PROVE TypeOK'
  BY <1>5, TransmitCases DEF Resend, TypeOK
<1>6. CASE DisconnectPeer
  BY <1>6 DEF DisconnectPeer, TypeOK
<1>7. ASSUME NEW n \in CommandSizes, SendCommand(n) PROVE TypeOK'
  <2>1. n \in 1 .. MAX_RELIABLE_WINDOW_SIZE /\ issued' \in Nat
    BY <1>7, SmallCommands, WindowAssumption DEF SendCommand, TypeOK
  <2>2. CASE Enqueue(n) /\ UNCHANGED queued_commands
    BY <1>7, <2>1, <2>2, EnqueueType DEF SendCommand, TypeOK
  <2>3. CASE queued_commands' = Append(queued_commands, n)
             /\ UNCHANGED <<queued_reliables, next_outgoing, taken>>
    BY <1>7, <2>1, <2>3 DEF SendCommand, TypeOK
  <2> QED BY <1>7, <2>2, <2>3 DEF SendCommand
<1>8. CASE SendQueued
  <2>1. Head(queued_reliables) \in Packet
        /\ Tail(queued_reliables) \in Seq(Packet)
    BY <1>8 DEF SendQueued, CanSendQueued, TypeOK
  <2> QED BY <1>8, <2>1, TransmitCases
          DEF SendQueued, SendAsPacketReliable, TypeOK
<1>9. CASE FinishPackets
  <2>1. CASE UNCHANGED <<peer, outgoing, queued_commands, queued_reliables>>
    BY <1>9, <2>1 DEF FinishPackets, TypeOK
  <2>2. CASE DeletePeer
    BY <1>9, <2>2 DEF FinishPackets, DeletePeer, TypeOK
  <2> QED BY <1>9, <2>1, <2>2 DEF FinishPackets
<1>10. ASSUME NEW a \in acks, ReceiveAck(a) PROVE TypeOK'
  BY <1>10, TakeOffCases DEF ReceiveAck, TypeOK
<1>11. next_incoming \in Seqnums => Advance(next_incoming, 1) \in Seqnums
  <2>1. 1 \in 0 .. Modulus
    BY WindowAssumption DEF Modulus
  <2> QED BY <2>1, AdvanceType
<1>12. ASSUME NEW p \in incoming, Drain(p) PROVE TypeOK'
  BY <1>11, <1>12 DEF Drain, TypeOK, Packet
<1>13. ASSUME NEW p \in net, ReceiveReliable(p) PROVE TypeOK'
  <2>1. net' \subseteq Packet /\ acks' \subseteq Packet /\ p \in Packet
    BY <1>13, TakeOffCases, TransmitCases DEF ReceiveReliable, TypeOK
  <2>2. incoming' \subseteq Packet /\ next_incoming' \in Seqnums
        /\ delivered' \in Seq(Nat)
    <3>1. CASE Ignore(p)
      BY <3>1 DEF Ignore, TypeOK
    <3>2. CASE DeliverNow(p)
      BY <1>11, <2>1, <3>2 DEF DeliverNow, TypeOK, Packet
    <3>3. CASE BufferAhead(p)
      BY <2>1, <3>3 DEF BufferAhead, TypeOK
    <3> QED BY <1>13, <3>1, <3>2, <3>3 DEF ReceiveReliable
  <2> QED BY <1>13, <2>1, <2>2 DEF ReceiveReliable, TypeOK
<1>14. CASE Expire
  BY <1>14 DEF Expire, TypeOK
<1>15. CASE UNCHANGED vars
  BY <1>15 DEF vars, TypeOK
<1> QED BY <1>1, <1>2, <1>3, <1>4, <1>5, <1>6, <1>7, <1>8, <1>9, <1>10,
           <1>12, <1>13, <1>14, <1>15
        DEF Next, Timeouts, Commands, Packets, Receive

(* Every reachable state is well typed, for all values of the constants.   *)
THEOREM TypeCorrect == Spec => []TypeOK
BY TypeInit, TypeStep, PTL DEF Spec

-----------------------------------------------------------------------------
(* Order of delivery.  The inductive invariant IInv says how far apart     *)
(* every two numbers in use are; SpanOK says that these distances are      *)
(* smaller than what the u16 comparisons can tell apart.                   *)

LEMMA InvInit == Init => IInv
<1> SUFFICES ASSUME Init PROVE IInv
  OBVIOUS
<1>1. TypeOK
  BY TypeInit
<1>2. InFlight = {}
  BY DEF Init, InFlight, Queued
<1>3. Distance(next_outgoing, next_incoming) = 0
  BY <1>1, DistanceZero DEF Init, TypeOK
<1>4. Len(delivered) = 0 /\ DOMAIN delivered = {} /\ incoming = {} /\ taken = 0
  BY DEF Init
<1> QED BY <1>1, <1>2, <1>3, <1>4 DEF IInv, InOrder, Aligned

(* Steps that only move packets about.                                     *)
LEMMA MoveStep ==
  ASSUME IInv, TypeOK', InFlight' \subseteq InFlight,
         UNCHANGED <<next_outgoing, taken, receiverVars>>
  PROVE  IInv'
<1>1. InOrder' /\ Aligned'
  BY DEF IInv, InOrder, Aligned, receiverVars
<1>2. \A p \in InFlight' : Behind(p)'
  BY DEF IInv, Behind
<1>3. \A q \in incoming' : Ahead(q)'
  BY DEF IInv, Ahead, receiverVars
<1> QED BY <1>1, <1>2, <1>3 DEF IInv

(* Steps that take n sequence numbers.                                     *)
LEMMA TakeStep ==
  ASSUME IInv, TypeOK', WithinLap', NEW n \in 1 .. MAX_RELIABLE_WINDOW_SIZE,
         Take(n), UNCHANGED receiverVars,
         InFlight' \subseteq
           InFlight \cup {NewPackets(n)[i] : i \in 1 .. n}
  PROVE  IInv'
<1> USE DEF receiverVars
<1>0. TypeOK /\ n \in 0 .. Modulus /\ n \in Nat /\ taken \in Nat
      /\ next_outgoing \in Seqnums /\ next_incoming \in Seqnums
      /\ Len(delivered) \in Nat /\ Modulus \in Nat
  BY WindowAssumption DEF IInv, TypeOK, Modulus
<1>1. InOrder'
  BY DEF IInv, InOrder
<1>2. Aligned'
  <2>1. taken + n - Len(delivered) < Modulus
    BY <1>0 DEF WithinLap, Take
  <2>2. Distance(next_outgoing, next_incoming) + n < Modulus
    BY <1>0, <2>1 DEF IInv, Aligned
  <2>3. Distance(next_outgoing', next_incoming)
          = Distance(next_outgoing, next_incoming) + n
    BY <1>0, <2>2, DistanceAdvance DEF Take
  <2> QED BY <1>0, <2>3 DEF IInv, Aligned, Take
<1>3. ASSUME NEW p \in InFlight' PROVE Behind(p)'
  <2>1. CASE p \in InFlight
    <3>1. p \in Packet /\ Behind(p)
      BY <1>0, <2>1 DEF IInv, InFlight, Queued, TypeOK
    <3>2. p.seq \in Seqnums /\ p.id \in Nat
      BY <3>1 DEF Packet
    <3>3. ASSUME taken + n - p.id < Modulus
          PROVE  Distance(next_outgoing', p.seq) = taken + n - p.id
      <4>1. Distance(next_outgoing, p.seq) = taken - p.id
        BY <1>0, <3>1, <3>2, <3>3 DEF Behind
      <4>2. Distance(next_outgoing, p.seq) + n < Modulus
        BY <1>0, <3>2, <3>3, <4>1
      <4> QED BY <1>0, <3>2, <4>1, <4>2, DistanceAdvance DEF Take
    <3> QED BY <1>0, <3>1, <3>2, <3>3 DEF Behind, Take
  <2>2. CASE \E i \in 1 .. n : p = NewPackets(n)[i]
    <3>1. PICK i \in 1 .. n : p = NewPackets(n)[i]
      BY <2>2
    <3>2. p = [seq |-> Advance(next_outgoing, i - 1), id |-> taken + i - 1]
      BY <1>0, <3>1, NewPacketsType
    <3>3. i - 1 \in 0 .. n - 1
      BY <1>0
    <3>4. Distance(next_outgoing', p.seq) = n - (i - 1)
      BY <1>0, <3>2, <3>3, DistanceNew DEF Take
    <3> QED BY <1>0, <3>2, <3>3, <3>4 DEF Behind, Take
  <2> QED BY <2>1, <2>2
<1>4. ASSUME NEW q \in incoming' PROVE Ahead(q)'
  BY <1>0 DEF IInv, Ahead, Take
<1> QED BY <1>1, <1>2, <1>3, <1>4 DEF IInv

(* What the receiver's next number means for a buffered packet.            *)
LEMMA AheadIsDue ==
  ASSUME IInv, NEW q \in incoming
  PROVE  q.seq = next_incoming <=> q.id = Len(delivered)
<1>1. q.seq \in Seqnums /\ q.id \in Nat /\ next_incoming \in Seqnums
      /\ Len(delivered) \in Nat
  BY DEF IInv, TypeOK, Packet
<1> QED BY <1>1, DistanceZero DEF IInv, Ahead

(* Two buffered packets with one number are one packet.                    *)
LEMMA BufferedApart ==
  ASSUME IInv, NEW p \in incoming, NEW q \in incoming, p.id = q.id \/ p.seq = q.seq
  PROVE  p = q
<1>1. /\ p \in Packet /\ q \in Packet /\ next_incoming \in Seqnums
      /\ Len(delivered) \in Nat
  BY DEF IInv, TypeOK
<1>2. /\ Distance(p.seq, next_incoming) = p.id - Len(delivered)
      /\ Distance(q.seq, next_incoming) = q.id - Len(delivered)
  BY DEF IInv, Ahead
<1>3. p.seq = q.seq
  <2> SUFFICES ASSUME Distance(p.seq, next_incoming)
                        = Distance(q.seq, next_incoming)
               PROVE  p.seq = q.seq
    BY <1>2
  <2> QED BY <1>1, WindowAssumption
          DEF Distance, Packet, Seqnums, SEQNUM_MAX, Modulus
<1>4. p.id = q.id
  BY <1>1, <1>2, <1>3 DEF Packet
<1> QED BY <1>1, <1>3, <1>4 DEF Packet

(* Delivering the packet whose turn it is keeps the invariant.             *)
LEMMA DeliverStep ==
  ASSUME IInv, TypeOK', SpanOK, NEW p \in Packet,
         p.id = Len(delivered), p.id < taken,
         next_incoming' = Advance(next_incoming, 1),
         delivered' = Append(delivered, p.id),
         incoming' \subseteq {q \in incoming : q.id # p.id},
         InFlight' \subseteq InFlight,
         UNCHANGED <<next_outgoing, taken>>
  PROVE  IInv'
<1>0. /\ next_outgoing \in Seqnums /\ next_incoming \in Seqnums
      /\ taken \in Nat /\ Len(delivered) \in Nat /\ delivered \in Seq(Nat)
      /\ p.id \in Nat
  BY DEF IInv, TypeOK, Packet
<1>1. Len(delivered') = Len(delivered) + 1
  BY <1>0
<1>2. InOrder'
  BY <1>0, <1>1 DEF IInv, InOrder
<1>3. Aligned'
  <2>1. Distance(next_outgoing, next_incoming) # 0
    BY <1>0 DEF IInv, Aligned
  <2>2. /\ Len(delivered) <= taken
        /\ Distance(next_outgoing, next_incoming) = taken - Len(delivered)
    BY DEF IInv, Aligned
  <2>3. Distance(next_outgoing, next_incoming')
          = Distance(next_outgoing, next_incoming) - 1
    BY <1>0, <2>1, DistanceCatchUp
  <2>4. Len(delivered) # taken
    BY <1>0
  <2>5. Len(delivered') <= taken
        /\ Distance(next_outgoing, next_incoming') = taken - Len(delivered')
    BY <1>0, <1>1, <2>2, <2>3, <2>4
  <2> QED BY <2>5 DEF Aligned
<1>4. \A q \in InFlight' : Behind(q)'
  BY DEF IInv, Behind
<1>5. ASSUME NEW q \in incoming' PROVE Ahead(q)'
  <2>1. q \in incoming /\ q.id # Len(delivered)
    OBVIOUS
  <2>2. q \in Packet /\ q.seq \in Seqnums /\ q.id \in Nat
    BY <2>1 DEF IInv, TypeOK, Packet
  <2>3. /\ Distance(q.seq, next_incoming) = q.id - Len(delivered)
        /\ q.id \in Len(delivered) .. taken - 1
    BY <2>1 DEF IInv, Ahead
  <2>4. Distance(q.seq, next_incoming') = Distance(q.seq, next_incoming) - 1
    BY <1>0, <2>1, <2>2, <2>3, DistanceCatchUp
  <2> QED BY <1>0, <1>1, <2>1, <2>2, <2>3, <2>4 DEF Ahead
<1> QED BY <1>2, <1>3, <1>4, <1>5 DEF IInv

(* Where a datagram stands, as the receiver that turns to the network sees *)
(* it: the u16 comparison agrees with the packets themselves.              *)
LEMMA ReceiverSees ==
  ASSUME IInv, SpanOK, ~CanDrain, NEW p \in net, Fresh(p)
  PROVE  /\ InReceiveWindow(p) <=> p.id >= Len(delivered)
         /\ p.id >= Len(delivered) =>
              Distance(p.seq, next_incoming) = p.id - Len(delivered)
<1>1. /\ p \in Packet /\ p.seq \in Seqnums /\ p.id \in Nat
      /\ next_outgoing \in Seqnums /\ next_incoming \in Seqnums
      /\ taken \in Nat /\ Len(delivered) \in Nat
  BY DEF IInv, TypeOK, Packet
<1>2. MAX_RELIABLE_WINDOW_SIZE \in 1 .. SEQNUM_MAX /\ MaxAge \in Nat
      /\ MaxAge <= MAX_RELIABLE_WINDOW_SIZE
      /\ Modulus = 2 * MAX_RELIABLE_WINDOW_SIZE
      /\ MAX_RELIABLE_WINDOW_SIZE \in Nat \ {0}
  BY WindowAssumption, ChannelAssumption DEF SEQNUM_MAX, Modulus
<1>3. p.id < taken /\ taken - p.id <= MAX_RELIABLE_WINDOW_SIZE
  BY <1>1, <1>2 DEF IInv, InFlight, Behind, Fresh
<1>4. Distance(next_outgoing, p.seq) = taken - p.id
  BY <1>1, <1>2, <1>3 DEF IInv, InFlight, Behind
<1>5. Distance(next_outgoing, next_incoming) = taken - Len(delivered)
      /\ taken - Len(delivered) <= MAX_RELIABLE_WINDOW_SIZE
      /\ Len(delivered) <= taken
  BY DEF IInv, Aligned, SpanOK
<1>6. Distance(p.seq, next_incoming) =
        IF taken - p.id <= taken - Len(delivered)
        THEN p.id - Len(delivered)
        ELSE Modulus - (Len(delivered) - p.id)
  BY <1>1, <1>2, <1>4, <1>5, DistanceSplit
<1>7. InReceiveWindow(p) <=>
        Distance(p.seq, next_incoming) < MAX_RELIABLE_WINDOW_SIZE
  BY <1>1, <1>2, InWindowCorrect DEF InReceiveWindow, InWindowIsDistance
<1>8. CASE p.id >= Len(delivered)
  BY <1>1, <1>2, <1>3, <1>5, <1>6, <1>7, <1>8
<1>9. CASE p.id < Len(delivered)
  <2>1. Distance(p.seq, next_incoming) = Modulus - (Len(delivered) - p.id)
    BY <1>1, <1>6, <1>9
  <2>2. Distance(p.seq, next_incoming) >= MAX_RELIABLE_WINDOW_SIZE
    BY <1>1, <1>2, <1>3, <1>5, <2>1
  <2> QED BY <1>1, <1>2, <1>7, <1>9, <2>1, <2>2
<1> QED BY <1>1, <1>8, <1>9

LEMMA InvStep == IInv /\ TypeOK' /\ SpanOK /\ WithinLap' /\ [Next]_vars => IInv'
<1> SUFFICES ASSUME IInv, TypeOK', SpanOK, WithinLap', [Next]_vars PROVE IInv'
  OBVIOUS
<1> USE DEF senderVars
<1>0. TypeOK
  BY DEF IInv
<1>1. CASE TimeoutPeer
  <2>1. InFlight' \subseteq InFlight
    BY <1>1 DEF TimeoutPeer, DeletePeer, InFlight, Queued
  <2> QED BY <1>1, <2>1, MoveStep DEF TimeoutPeer
<1>2. CASE UpdateTimers
  <2>1. InFlight' \subseteq InFlight
    BY <1>2 DEF UpdateTimers, InFlight, Queued
  <2> QED BY <1>2, <2>1, MoveStep DEF UpdateTimers
<1>3. CASE Ping
  <2> DEFINE p == NewPackets(1)[1]
  <2>1. CASE Take(1)
    <3>1. \/ /\ SendAsPacketReliable(p, Advance(next_outgoing, 1))
             /\ UNCHANGED queued_reliables
          \/ /\ queued_reliables' = Append(queued_reliables, p)
             /\ UNCHANGED <<outgoing, net>>
          \/ UNCHANGED <<queued_reliables, outgoing, net>>
      BY <1>3 DEF Ping
    <3>2. Queued' \subseteq Queued \cup {p}
      <4>1. queued_reliables \in Seq(Packet) /\ p \in Packet
        BY <1>0, NewPacketsType, SmallCommands DEF TypeOK
      <4>2. ASSUME queued_reliables' = Append(queued_reliables, p)
            PROVE  Queued' \subseteq Queued \cup {p}
        <5> HIDE DEF p
        <5> QED BY <4>1, <4>2, AppendProperties DEF Queued
      <4>3. ASSUME UNCHANGED queued_reliables PROVE Queued' = Queued
        BY <4>3 DEF Queued
      <4> QED BY <3>1, <4>2, <4>3
    <3>3. outgoing' \subseteq outgoing \cup {p} /\ net' \subseteq net \cup {p}
      BY <3>1, TransmitCases DEF SendAsPacketReliable
    <3>4. InFlight' \subseteq InFlight \cup {NewPackets(1)[i] : i \in 1 .. 1}
      BY <1>3, <3>2, <3>3 DEF InFlight, Ping
    <3> QED BY <1>3, <2>1, <3>4, TakeStep, SmallCommands DEF Ping
  <2>2. CASE UNCHANGED <<next_outgoing, taken, queued_reliables, outgoing, net>>
    <3>1. InFlight' \subseteq InFlight
      BY <1>3, <2>2 DEF Ping, InFlight, Queued
    <3> QED BY <1>3, <2>2, <3>1, MoveStep DEF Ping
  <2> QED BY <1>3, <2>1, <2>2 DEF Ping
<1>4. ASSUME NEW n \in 1 .. MAX_RELIABLE_WINDOW_SIZE, Enqueue(n),
             UNCHANGED <<outgoing, net, acks, receiverVars>>
      PROVE  IInv'
  <2>1. Queued' \subseteq Queued \cup {NewPackets(n)[i] : i \in 1 .. n}
    <3>1. NewPackets(n) \in Seq(Packet) /\ Len(NewPackets(n)) = n
          /\ queued_reliables \in Seq(Packet) /\ n \in Nat
      BY <1>0, NewPacketsType, WindowAssumption DEF TypeOK
    <3> QED BY <1>4, <3>1 DEF Enqueue, Queued
  <2>2. InFlight' \subseteq InFlight \cup {NewPackets(n)[i] : i \in 1 .. n}
    BY <1>4, <2>1 DEF InFlight
  <2> QED BY <1>4, <2>2, TakeStep DEF Enqueue
<1>5. CASE RunCommandQueues
  <2>1. CASE queued_commands # <<>> /\ Enqueue(Head(queued_commands))
    <3>1. queued_commands \in Seq(CommandSizes)
      BY <1>0 DEF TypeOK
    <3>2. Head(queued_commands) \in 1 .. MAX_RELIABLE_WINDOW_SIZE
      BY <2>1, <3>1, HeadTailProperties, SmallCommands
    <3> QED BY <1>4, <1>5, <2>1, <3>2 DEF RunCommandQueues
  <2>2. CASE UNCHANGED <<queued_reliables, next_outgoing, taken>>
    <3>1. InFlight' \subseteq InFlight
      BY <1>5, <2>2 DEF RunCommandQueues, InFlight, Queued
    <3> QED BY <1>5, <2>2, <3>1, MoveStep DEF RunCommandQueues
  <2> QED BY <1>5, <2>1, <2>2 DEF RunCommandQueues
<1>6. ASSUME NEW p \in outgoing, Resend(p) PROVE IInv'
  <2>1. InFlight' \subseteq InFlight
    BY <1>6, TransmitCases DEF Resend, InFlight, Queued
  <2> QED BY <1>6, <2>1, MoveStep DEF Resend
<1>7. CASE DisconnectPeer
  <2>1. InFlight' \subseteq InFlight
    BY <1>7 DEF DisconnectPeer, InFlight, Queued
  <2> QED BY <1>7, <2>1, MoveStep DEF DisconnectPeer
<1>8. ASSUME NEW n \in CommandSizes, SendCommand(n) PROVE IInv'
  <2>1. CASE Enqueue(n)
    BY <1>4, <1>8, <2>1, SmallCommands DEF SendCommand
  <2>2. CASE UNCHANGED <<queued_reliables, next_outgoing, taken>>
    <3>1. InFlight' \subseteq InFlight
      BY <1>8, <2>2 DEF SendCommand, InFlight, Queued
    <3> QED BY <1>8, <2>2, <3>1, MoveStep DEF SendCommand
  <2> QED BY <1>8, <2>1, <2>2 DEF SendCommand
<1>9. CASE SendQueued
  <2>1. queued_reliables \in Seq(Packet) /\ queued_reliables # <<>>
    BY <1>0, <1>9 DEF SendQueued, CanSendQueued, TypeOK
  <2>2. Queued' \subseteq Queued /\ Head(queued_reliables) \in Queued
    BY <1>9, <2>1 DEF SendQueued, Queued
  <2>3. InFlight' \subseteq InFlight
    BY <1>9, <2>2, TransmitCases
       DEF SendQueued, SendAsPacketReliable, InFlight
  <2> QED BY <1>9, <2>3, MoveStep DEF SendQueued
<1>10. CASE FinishPackets
  <2>1. Queued' \subseteq Queued /\ outgoing' \subseteq outgoing
    BY <1>10 DEF FinishPackets, DeletePeer, Queued
  <2>2. InFlight' \subseteq InFlight
    BY <1>10, <2>1 DEF FinishPackets, InFlight
  <2> QED BY <1>10, <2>2, MoveStep DEF FinishPackets
<1>11. ASSUME NEW a \in acks, ReceiveAck(a) PROVE IInv'
  <2>1. InFlight' \subseteq InFlight
    BY <1>11, TakeOffCases DEF ReceiveAck, InFlight, Queued
  <2> QED BY <1>11, <2>1, MoveStep DEF ReceiveAck
<1>12. ASSUME NEW p \in incoming, Drain(p) PROVE IInv'
  <2>1. p \in Packet /\ p.id < taken /\ p.id = Len(delivered)
    BY <1>0, <1>12, AheadIsDue DEF Drain, IInv, Ahead, TypeOK
  <2>2. incoming' \subseteq {q \in incoming : q.id # p.id}
    BY <1>12, BufferedApart DEF Drain
  <2>3. InFlight' \subseteq InFlight
    BY <1>12 DEF Drain, InFlight, Queued
  <2> QED BY <1>12, <2>1, <2>2, <2>3, DeliverStep DEF Drain
<1>13. ASSUME NEW p \in net, ReceiveReliable(p) PROVE IInv'
  <2>1. /\ p \in Packet /\ p.seq \in Seqnums /\ p.id \in Nat /\ p.id < taken
        /\ Fresh(p) /\ ~CanDrain
        /\ next_incoming \in Seqnums /\ Len(delivered) \in Nat
    BY <1>0, <1>13 DEF ReceiveReliable, IInv, InFlight, Behind, TypeOK, Packet
  <2>2. InFlight' \subseteq InFlight
    BY <1>13, TakeOffCases, TransmitCases
       DEF ReceiveReliable, InFlight, Queued
  <2>3. UNCHANGED <<next_outgoing, taken>>
    BY <1>13 DEF ReceiveReliable
  <2>4. CASE Ignore(p)
    BY <2>2, <2>3, <2>4, MoveStep DEF Ignore
  <2>5. CASE DeliverNow(p)
    <3>1. p.id = Len(delivered)
      BY <2>1, <2>5, ReceiverSees, DistanceZero DEF DeliverNow
    <3>2. \A q \in incoming : q.id # p.id
      BY <2>1, <3>1, AheadIsDue DEF CanDrain
    <3>3. incoming' \subseteq {q \in incoming : q.id # p.id}
      BY <2>5, <3>2 DEF DeliverNow
    <3> QED BY <2>1, <2>2, <2>3, <2>5, <3>1, <3>3, DeliverStep DEF DeliverNow
  <2>6. CASE BufferAhead(p)
    <3>1. Ahead(p)
      BY <1>0, <2>1, <2>6, ReceiverSees DEF BufferAhead, Ahead, TypeOK
    <3>2. \A q \in incoming' : Ahead(q)
      BY <2>6, <3>1 DEF BufferAhead, IInv
    <3>3. \A q \in incoming' : Ahead(q)'
      BY <2>3, <2>6, <3>2 DEF BufferAhead, Ahead
    <3>4. InOrder' /\ Aligned'
      BY <2>3, <2>6 DEF BufferAhead, IInv, InOrder, Aligned
    <3>5. \A q \in InFlight' : Behind(q)'
      BY <2>2, <2>3 DEF IInv, Behind
    <3> QED BY <3>3, <3>4, <3>5 DEF IInv
  <2> QED BY <1>13, <2>4, <2>5, <2>6 DEF ReceiveReliable
<1>14. CASE Expire
  <2>1. InFlight' \subseteq InFlight
    BY <1>14 DEF Expire, InFlight, Queued
  <2> QED BY <1>14, <2>1, MoveStep DEF Expire
<1>15. CASE UNCHANGED vars
  <2>1. InFlight' \subseteq InFlight
    BY <1>15 DEF vars, InFlight, Queued
  <2> QED BY <1>15, <2>1, MoveStep DEF vars
<1> QED BY <1>1, <1>2, <1>3, <1>5, <1>6, <1>7, <1>8, <1>9, <1>10, <1>11,
           <1>12, <1>13, <1>14, <1>15
        DEF Next, Timeouts, Commands, Packets, Receive

(* As long as the circle is wide enough, the channel keeps IInv.           *)
THEOREM InvCorrect == Spec /\ []SpanOK => []IInv
<1>1. Init => IInv
  BY InvInit
<1>2. SpanOK => WithinLap
  BY DEF SpanOK
<1>3. IInv /\ TypeOK' /\ SpanOK /\ WithinLap' /\ [Next]_vars => IInv'
  BY InvStep
<1> QED BY <1>1, <1>2, <1>3, TypeCorrect, PTL DEF Spec

(* Packets are delivered in order, each exactly once, whatever the network *)
(* loses, repeats or reorders and however often the numbers wrap around.   *)
THEOREM OrderCorrect == Spec /\ []SpanOK => []InOrder
<1>1. IInv => InOrder
  BY DEF IInv
<1> QED BY <1>1, InvCorrect, PTL

(* A datagram that carries the number of a buffered packet is that packet. *)
LEMMA NoCorruptionHolds == IInv => NoCorruption
<1> SUFFICES ASSUME IInv, NEW p \in net, NEW q \in incoming,
                    Fresh(p), p.seq = q.seq
             PROVE  p = q
  BY DEF NoCorruption
<1>1. /\ p \in Packet /\ q \in Packet
      /\ p.seq \in Seqnums /\ p.id \in Nat /\ q.id \in Nat
      /\ next_outgoing \in Seqnums /\ next_incoming \in Seqnums
      /\ taken \in Nat /\ Len(delivered) \in Nat
  BY DEF IInv, TypeOK, Packet
<1>2. MaxAge < Modulus /\ MaxAge \in Nat /\ Modulus \in Nat
  BY WindowAssumption, ChannelAssumption DEF Modulus
<1>3. Distance(next_outgoing, p.seq) = taken - p.id
  BY <1>1, <1>2 DEF IInv, InFlight, Behind, Fresh
<1>4. /\ Distance(p.seq, next_incoming) = q.id - Len(delivered)
      /\ q.id \in Len(delivered) .. taken - 1
      /\ Distance(next_outgoing, next_incoming) = taken - Len(delivered)
  BY DEF IInv, Ahead, Aligned
<1>5. Distance(next_outgoing, p.seq) \in 0 .. Modulus - 1
  BY <1>1, DistanceType, WindowAssumption DEF Seqnums, SEQNUM_MAX, Modulus
<1>6. CASE Distance(next_outgoing, p.seq)
             <= Distance(next_outgoing, next_incoming)
  <2>1. Distance(p.seq, next_incoming)
          = Distance(next_outgoing, next_incoming)
            - Distance(next_outgoing, p.seq)
    BY <1>1, <1>6, DistanceSplit
  <2>2. p.id = q.id
    BY <1>1, <1>3, <1>4, <2>1
  <2> QED BY <1>1, <2>2 DEF Packet
<1>7. CASE Distance(next_outgoing, p.seq)
             > Distance(next_outgoing, next_incoming)
  <2>1. Distance(p.seq, next_incoming)
          = Modulus - (Distance(next_outgoing, p.seq)
                       - Distance(next_outgoing, next_incoming))
    BY <1>1, <1>3, <1>4, <1>7, DistanceSplit
  <2>2. q.id - Len(delivered) = Modulus - (Len(delivered) - p.id)
    BY <1>1, <1>2, <1>3, <1>4, <2>1
  <2>3. q.id < taken /\ taken - p.id < Modulus
    BY <1>1, <1>2, <1>3, <1>4, <1>5
  <2>4. q.id = Modulus + p.id
    BY <1>1, <1>2, <2>2
  <2> QED BY <1>1, <1>2, <2>3, <2>4
<1> QED BY <1>1, <1>3, <1>4, <1>6, <1>7

(* insert() never throws IncomingDataCorruption at a correct sender.       *)
THEOREM NoCorruptionCorrect == Spec /\ []SpanOK => []NoCorruption
BY NoCorruptionHolds, InvCorrect, PTL

-----------------------------------------------------------------------------
(* The channel implements the queue of FifoDelivery.                       *)

LEMMA FifoStep ==
  IInv /\ IInv' /\ [Next]_vars =>
    [Fifo!Accept \/ Fifo!Deliver]_<<taken, delivered>>
<1> SUFFICES ASSUME IInv, IInv', [Next]_vars
             PROVE  \/ Fifo!Accept \/ Fifo!Deliver
                    \/ UNCHANGED <<taken, delivered>>
  BY DEF Fifo!fifoVars
<1> USE DEF senderVars, receiverVars
<1>0. /\ taken \in Nat /\ delivered \in Seq(Nat) /\ TypeOK
      /\ taken' \in Nat /\ Len(delivered') <= taken'
      /\ queued_commands \in Seq(CommandSizes)
  BY DEF IInv, TypeOK, Aligned
<1>1. ASSUME NEW n \in 1 .. MAX_RELIABLE_WINDOW_SIZE, Take(n),
             UNCHANGED delivered
      PROVE  Fifo!Accept
  <2>1. taken' = taken + n /\ n \in Nat /\ n > 0
    BY <1>1, WindowAssumption DEF Take
  <2> QED BY <1>0, <1>1, <2>1 DEF Fifo!Accept
<1>2. ASSUME NEW i, delivered' = Append(delivered, i), UNCHANGED taken
      PROVE  Fifo!Deliver
  <2>1. Len(delivered') = Len(delivered) + 1 /\ Len(delivered) \in Nat
    BY <1>0, <1>2
  <2>2. delivered' \in Seq(Nat) /\ InOrder'
    BY DEF IInv, TypeOK
  <2>3. delivered'[Len(delivered) + 1] = Len(delivered)
    BY <2>1, <2>2 DEF InOrder
  <2>4. i = Len(delivered)
    BY <1>0, <1>2, <2>3
  <2> QED BY <1>0, <1>2, <2>1, <2>4 DEF Fifo!Deliver
<1>3. CASE Ping
  BY <1>1, <1>3, SmallCommands DEF Ping
<1>4. CASE RunCommandQueues
  <2>1. CASE queued_commands # <<>>
    <3>1. Head(queued_commands) \in 1 .. MAX_RELIABLE_WINDOW_SIZE
      BY <1>0, <2>1, HeadTailProperties, SmallCommands
    <3> QED BY <1>1, <1>4, <3>1 DEF RunCommandQueues, Enqueue
  <2> QED BY <1>4, <2>1 DEF RunCommandQueues
<1>5. ASSUME NEW n \in CommandSizes, SendCommand(n)
      PROVE  Fifo!Accept \/ UNCHANGED <<taken, delivered>>
  BY <1>1, <1>5, SmallCommands DEF SendCommand, Enqueue
<1>6. ASSUME NEW p \in incoming, Drain(p) PROVE Fifo!Deliver
  BY <1>2, <1>6 DEF Drain
<1>7. ASSUME NEW p \in net, ReceiveReliable(p)
      PROVE  Fifo!Deliver \/ UNCHANGED <<taken, delivered>>
  BY <1>2, <1>7 DEF ReceiveReliable, Ignore, DeliverNow, BufferAhead
<1>8. CASE \/ TimeoutPeer \/ UpdateTimers \/ (\E p \in outgoing : Resend(p))
           \/ DisconnectPeer \/ SendQueued \/ FinishPackets
           \/ (\E a \in acks : ReceiveAck(a)) \/ Expire
  BY <1>8 DEF TimeoutPeer, UpdateTimers, Resend, DisconnectPeer, SendQueued,
              FinishPackets, ReceiveAck, Expire
<1>9. CASE UNCHANGED vars
  BY <1>9 DEF vars
<1> QED BY <1>3, <1>4, <1>5, <1>6, <1>7, <1>8, <1>9
        DEF Next, Timeouts, Commands, Packets, Receive

(* The channel is a FIFO queue: what is taken is what is delivered, in the *)
(* same order.                                                             *)
THEOREM FifoCorrect == Spec /\ []SpanOK => FifoSpec
<1>1. Init => Fifo!FifoInit
  BY DEF Init, Fifo!FifoInit
<1> QED BY <1>1, FifoStep, InvCorrect, PTL
        DEF Spec, FifoSpec, Fifo!FifoSpec, Fifo!fifoVars
=============================================================================
