--------------------------- MODULE MtpSpanProofs ---------------------------
(***************************************************************************)
(* The hypothesis of MtpChannelProofs discharged: a channel without pings  *)
(* whose commands are short enough (WideEnough) never has more packets     *)
(* between its two ends than the u16 comparisons can tell apart, and never *)
(* lets go of a packet that was not received.                              *)
(***************************************************************************)
EXTENDS MtpChannelProofs, DataLemmas

(* Facts about types that most steps need.                                 *)
LEMMA Types ==
  ASSUME IInv
  PROVE  /\ TypeOK
         /\ taken \in Nat /\ Len(delivered) \in Nat /\ delivered \in Seq(Nat)
         /\ queued_reliables \in Seq(Packet) /\ Len(queued_reliables) \in Nat
         /\ Sent \in Int
         /\ next_outgoing \in Seqnums /\ next_incoming \in Seqnums
         /\ \A p \in Packet : p.id \in Nat /\ p.seq \in Seqnums
         /\ outgoing \subseteq Packet /\ net \subseteq Packet
         /\ acks \subseteq Packet /\ incoming \subseteq Packet
         /\ MAX_RELIABLE_WINDOW_SIZE \in Nat \ {0}
         /\ Modulus = 2 * MAX_RELIABLE_WINDOW_SIZE
         /\ MaxAge \in Nat /\ MaxAge <= MAX_RELIABLE_WINDOW_SIZE
BY WindowAssumption, ChannelAssumption
   DEF IInv, TypeOK, Packet, Modulus, Sent

-----------------------------------------------------------------------------
(* SpanOK follows.                                                         *)

LEMMA GapsKeepLap ==
  ASSUME taken \in Nat, Len(delivered) \in Nat, GapsNear, GapSoon
  PROVE  WithinLap
<1>1. PICK i \in Len(delivered) .. Len(delivered) + MAX_RELIABLE_WINDOW_SIZE - 1 :
        i <= taken /\ ~Holds(incoming, i)
  BY DEF GapSoon
<1>2. i \in Nat /\ MAX_RELIABLE_WINDOW_SIZE \in Nat \ {0}
      /\ Modulus = 2 * MAX_RELIABLE_WINDOW_SIZE
  BY WindowAssumption DEF Modulus
<1>3. CASE i = taken
  BY <1>1, <1>2, <1>3 DEF WithinLap
<1>4. CASE i < taken
  <2>1. taken - i <= MAX_RELIABLE_WINDOW_SIZE
    BY <1>1, <1>2, <1>4 DEF GapsNear
  <2> QED BY <1>1, <1>2, <2>1 DEF WithinLap
<1> QED BY <1>1, <1>2, <1>3, <1>4

LEMMA JInvSpan == JInv => SpanOK
<1> SUFFICES ASSUME IInv, SInv PROVE SpanOK
  BY DEF JInv
<1>1. WithinLap
  BY Types, GapsKeepLap DEF SInv
<1>2. ASSUME ~CanDrain PROVE taken - Len(delivered) <= MAX_RELIABLE_WINDOW_SIZE
  <2>1. ~Holds(incoming, Len(delivered))
    BY <1>2, AheadIsDue DEF CanDrain, Holds
  <2>2. CASE Len(delivered) < taken
    BY <2>1, <2>2, Types DEF SInv, GapsNear
  <2>3. CASE Len(delivered) >= taken
    BY <2>3, Types
  <2> QED BY <2>2, <2>3, Types
<1> QED BY <1>1, <1>2 DEF SpanOK

-----------------------------------------------------------------------------
(* Taking numbers.                                                         *)

(* A number is taken only while every packet not acknowledged is near.     *)
LEMMA RoomIsNear ==
  ASSUME IInv, SInv, WideEnough, NEW n \in CommandSizes, HasRoomFor(n),
         NEW p \in outgoing
  PROVE  taken + n - p.id <= MAX_RELIABLE_WINDOW_SIZE
<1>0. /\ n \in Nat /\ n >= 1 /\ n < MAX_RELIABLE_WINDOW_SIZE /\ n - 1 \in 0 .. Modulus
      /\ window \in Nat /\ window + 2 <= MAX_RELIABLE_WINDOW_SIZE
      /\ taken \in Nat /\ MAX_RELIABLE_WINDOW_SIZE \in Nat
      /\ Modulus = 2 * MAX_RELIABLE_WINDOW_SIZE
  <2>1. window \in Windows /\ n \in 1 .. MAX_RELIABLE_WINDOW_SIZE - 1
    BY ChannelAssumption, Types DEF TypeOK
  <2>2. MAX_RELIABLE_WINDOW_SIZE_SEND + 2 <= MAX_RELIABLE_WINDOW_SIZE
    BY DEF WideEnough
  <2> QED BY <2>1, <2>2, ChannelAssumption, Types DEF Windows
<1>1. \A q \in outgoing : /\ q.id \in Nat /\ q.seq \in Seqnums
                          /\ taken - q.id <= MAX_RELIABLE_WINDOW_SIZE
                          /\ q.id < taken
                          /\ Distance(next_outgoing, q.seq) = taken - q.id
  BY Types DEF SInv, Near, IInv, InFlight, Behind
<1>2. HasRoom(Advance(next_outgoing, n - 1))
  BY <1>0 DEF HasRoomFor
<1>3. ASSUME NEW f \in outgoing, IsFirst(f)
      PROVE  taken + n - f.id <= window + 2
  <2> DEFINE next == Advance(next_outgoing, n - 1)
  <2>1. next \in Seqnums
    BY <1>0, AdvanceType, Types
  <2>2. Distance(next_outgoing, f.seq) + (n - 1) < Modulus
    <3>1. /\ f.id \in Nat /\ taken - f.id <= MAX_RELIABLE_WINDOW_SIZE
          /\ Distance(next_outgoing, f.seq) = taken - f.id
      BY <1>1
    <3> QED BY <1>0, <3>1
  <2>3. Distance(next, f.seq) = taken - f.id + (n - 1)
    BY <1>0, <1>1, <2>2, DistanceAdvance, Types
  <2>4. IF f.seq < next THEN next - f.seq <= window
                        ELSE next + (SEQNUM_MAX - f.seq) <= window
    BY <1>2, <1>3 DEF HasRoom
  <2>5. Distance(next, f.seq) <= window + 1
    <3> HIDE DEF next
    <3>1. /\ next \in Int /\ f.seq \in Int /\ window \in Int /\ window >= 0
          /\ MAX_RELIABLE_WINDOW_SIZE \in Int
      BY <1>0, <1>1, <2>1 DEF Seqnums
    <3>2. CASE f.seq < next
      BY <2>4, <3>1, <3>2 DEF Distance
    <3>3. CASE f.seq = next
      BY <3>1, <3>3 DEF Distance
    <3>4. CASE f.seq > next
      <4>1. next + (SEQNUM_MAX - f.seq) <= window
        BY <2>4, <3>1, <3>4
      <4>2. Distance(next, f.seq) = next - f.seq + Modulus
        BY <3>1, <3>4 DEF Distance
      <4> QED BY <3>1, <4>1, <4>2 DEF SEQNUM_MAX, Modulus
    <3> QED BY <3>1, <3>2, <3>3, <3>4
  <2>6. f.id \in Nat /\ taken - f.id + (n - 1) <= window + 1
    BY <1>1, <2>3, <2>5
  <2> QED BY <1>0, <2>6
<1>4. \E f \in outgoing : IsFirst(f)
  <2> DEFINE Far(f) == \A q \in outgoing : q.id >= f.id
  <2>1. \E f \in outgoing : Far(f)
    <3> DEFINE Ids == {q.id : q \in outgoing}
    <3>1. Ids \subseteq Nat /\ Ids # {}
      BY <1>1
    <3>2. PICK i \in Ids : \A j \in Ids : i <= j
      BY <3>1, LeastNatural
    <3> QED BY <3>2
  <2>2. PICK f \in outgoing : Far(f)
    BY <2>1
  <2>3. taken \in Nat /\ f.id \in Nat /\ \A q \in outgoing : q.id \in Nat
    BY <2>2, Types
  <2>4. \A q \in outgoing : Distance(next_outgoing, q.seq) = taken - q.id
    BY <1>1
  <2>5. \A q \in outgoing : taken - q.id <= taken - f.id
    BY <2>2, <2>3
  <2> HIDE DEF Far
  <2>6. IsFirst(f)
    BY <2>2, <2>4, <2>5 DEF IsFirst
  <2> QED BY <2>6
<1>5. PICK f \in outgoing : IsFirst(f)
  BY <1>4
<1>6. f.id \in Nat /\ p.id \in Nat /\ f.id <= p.id
  BY <1>0, <1>1, <1>5 DEF IsFirst
<1>7. taken + n - f.id <= window + 2
  BY <1>3, <1>5
<1> QED BY <1>0, <1>6, <1>7

(* UDPPeer::processReliableSendCommand() that finds room.                  *)
LEMMA EnqueueStep ==
  ASSUME IInv, SInv, TypeOK', WideEnough, NEW n \in CommandSizes,
         Enqueue(n), HasRoomFor(n), peer # "deleted", UNCHANGED peer,
         Len(queued_reliables) + n < MAX_RELIABLE_WINDOW_SIZE,
         UNCHANGED <<outgoing, net, acks, receiverVars>>
  PROVE  SInv'
<1> USE DEF receiverVars
<1>0. /\ n \in Nat /\ n >= 1 /\ n \in 1 .. MAX_RELIABLE_WINDOW_SIZE
      /\ taken' = taken + n
  BY ChannelAssumption, Types DEF Enqueue, Take
<1>1. /\ NewPackets(n) \in Seq(Packet) /\ Len(NewPackets(n)) = n
      /\ \A i \in 1 .. n : NewPackets(n)[i].id = taken + i - 1
  <2>1. /\ NewPackets(n) \in Seq(Packet) /\ Len(NewPackets(n)) = n
        /\ \A i \in 1 .. n : NewPackets(n)[i] =
             [seq |-> Advance(next_outgoing, i - 1), id |-> taken + i - 1]
    BY <1>0, NewPacketsType, Types
  <2> QED BY <2>1
<1>2. /\ Len(queued_reliables') = Len(queued_reliables) + n
      /\ Sent' = Sent
      /\ \A i \in 1 .. Len(queued_reliables) + n :
           queued_reliables'[i] = IF i <= Len(queued_reliables)
                                  THEN queued_reliables[i]
                                  ELSE NewPackets(n)[i - Len(queued_reliables)]
      /\ DOMAIN queued_reliables' = 1 .. Len(queued_reliables) + n
  <2>1. queued_reliables' = queued_reliables \o NewPackets(n)
    BY DEF Enqueue
  <2>2. queued_reliables \in Seq(Packet) /\ Len(queued_reliables) \in Nat
        /\ taken \in Nat
    BY Types
  <2>3. Len(queued_reliables') = Len(queued_reliables) + n
    <3>1. Len(queued_reliables \o NewPackets(n))
            = Len(queued_reliables) + Len(NewPackets(n))
      BY <1>1, <2>2, ConcatProperties
    <3> QED BY <1>1, <2>1, <3>1
  <2>4. queued_reliables' \in Seq(Packet)
    BY <1>1, <2>1, <2>2, ConcatProperties
  <2> QED BY <1>0, <1>1, <2>1, <2>2, <2>3, <2>4 DEF Sent
<1>3. QueueInOrder'
  <2>1. ASSUME NEW i \in 1 .. Len(queued_reliables) + n
        PROVE  queued_reliables'[i].id = Sent + i - 1
    <3>1. CASE i <= Len(queued_reliables)
      <4>1. i \in DOMAIN queued_reliables
        BY <2>1, <3>1, Types
      <4>2. queued_reliables'[i] = queued_reliables[i]
        BY <1>2, <2>1, <3>1
      <4> QED BY <4>1, <4>2 DEF SInv, QueueInOrder
    <3>2. CASE i > Len(queued_reliables)
      <4>1. i - Len(queued_reliables) \in 1 .. n
        BY <1>0, <3>2, Types
      <4>2. queued_reliables'[i] = NewPackets(n)[i - Len(queued_reliables)]
        BY <1>2, <3>2, Types
      <4>3. queued_reliables'[i].id = taken + (i - Len(queued_reliables)) - 1
        BY <1>1, <4>1, <4>2
      <4> QED BY <4>3, Types DEF Sent
    <3> QED BY <3>1, <3>2, Types
  <2>2. queued_reliables' \in Seq(Packet) /\ Len(queued_reliables') \in Nat
    BY DEF TypeOK
  <2>3. \A i \in DOMAIN queued_reliables' : queued_reliables'[i].id = Sent' + i - 1
    BY <1>2, <2>1, <2>2
  <2>4. /\ Len(queued_reliables') <= taken'
        /\ Len(queued_reliables') < MAX_RELIABLE_WINDOW_SIZE
    BY <1>0, <1>2, Types DEF SInv, QueueInOrder
  <2> QED BY <2>3, <2>4 DEF QueueInOrder
<1>4. SentOnly' /\ Held' /\ AcksReceived'
  BY <1>2 DEF SInv, SentOnly, Held, AcksReceived
<1>5. Near'
  <2>1. \A p \in outgoing : taken + n - p.id <= MAX_RELIABLE_WINDOW_SIZE
    BY RoomIsNear
  <2> QED BY <1>0, <2>1, Types DEF Near
<1>6. GapsNear'
  <2>1. ASSUME NEW i \in Len(delivered) .. taken + n - 1, ~Holds(incoming, i)
        PROVE  taken + n - i <= MAX_RELIABLE_WINDOW_SIZE
    <3>1. CASE i >= Sent
      <4>1. /\ taken \in Int /\ n \in Int /\ i \in Int /\ Len(queued_reliables) \in Int
            /\ i >= taken - Len(queued_reliables)
        BY <1>0, <2>1, <3>1, Types DEF Sent
      <4>2. /\ MAX_RELIABLE_WINDOW_SIZE \in Int
            /\ Len(queued_reliables) + n <= MAX_RELIABLE_WINDOW_SIZE
        BY <1>0, Types
      <4> QED BY <4>1, <4>2
    <3>2. CASE i < Sent
      <4>1. i \in Len(delivered) .. Sent - 1
        <5>1. /\ i \in Int /\ Sent \in Int /\ Len(delivered) \in Int
              /\ Len(delivered) <= i /\ i < Sent
          BY <1>0, <2>1, <3>2, Types
        <5> QED BY <5>1
      <4>2. PICK p \in outgoing : p.id = i
        BY <2>1, <4>1 DEF SInv, Held, Holds
      <4> QED BY <4>2, RoomIsNear
    <3> QED BY <3>1, <3>2, Types
  <2>2. \A i \in Len(delivered) .. taken + n - 1 :
          Holds(incoming, i) \/ taken + n - i <= MAX_RELIABLE_WINDOW_SIZE
    BY <2>1
  <2>3. /\ taken' = taken + n /\ delivered' = delivered /\ incoming' = incoming
        /\ taken \in Nat /\ n \in Nat /\ Len(delivered) \in Nat
    BY <1>0, Types
  <2> SUFFICES ASSUME NEW i \in Len(delivered') .. taken' - 1
               PROVE  \/ Holds(incoming, i)
                      \/ taken' - i <= MAX_RELIABLE_WINDOW_SIZE
    BY <2>3 DEF GapsNear, Holds
  <2>4. i \in Len(delivered) .. taken + n - 1
    BY <2>3
  <2> QED BY <2>2, <2>3, <2>4
<1>7. GapSoon'
  <2>1. PICK i \in Len(delivered) .. Len(delivered) + MAX_RELIABLE_WINDOW_SIZE - 1 :
          i <= taken /\ ~Holds(incoming, i)
    BY DEF SInv, GapSoon
  <2>2. i <= taken + n
    BY <1>0, <2>1, Types
  <2>3. ~Holds(incoming', i)
    BY <2>1 DEF Holds
  <2> QED BY <1>0, <2>1, <2>2, <2>3 DEF GapSoon
<1> QED BY <1>3, <1>4, <1>5, <1>6, <1>7 DEF SInv

-----------------------------------------------------------------------------
(* Sending.                                                                *)

(* Where the half circle that ends at a begins.                            *)
LEMMA WindowStart ==
  ASSUME NEW a \in Seqnums, NEW b \in Seqnums,
         Distance(a, b) \in 1 .. MAX_RELIABLE_WINDOW_SIZE - 1
  PROVE  /\ SendWindowStart(a) \in Seqnums
         /\ Distance(b, SendWindowStart(a))
              = MAX_RELIABLE_WINDOW_SIZE - Distance(a, b)
BY WindowAssumption
   DEF Distance, SendWindowStart, Seqnums, SEQNUM_MAX, Modulus

(* insert() accepts the first packet of the queue.                         *)
LEMMA HeadIsBuffered ==
  ASSUME IInv, SInv, queued_reliables # <<>>
  PROVE  LET p == Head(queued_reliables)
         IN  p \in Packet /\ p.id = Sent /\ Buffers(p, next_outgoing)
<1> DEFINE p == Head(queued_reliables)
<1>1. p \in Packet /\ p \in Queued /\ p.id = Sent
      /\ Len(queued_reliables) \in 1 .. MAX_RELIABLE_WINDOW_SIZE - 1
  <2>1. /\ queued_reliables \in Seq(Packet) /\ Len(queued_reliables) \in Nat
        /\ Sent \in Int /\ MAX_RELIABLE_WINDOW_SIZE \in Nat
    BY Types
  <2>2. p = queued_reliables[1] /\ 1 \in DOMAIN queued_reliables /\ Len(queued_reliables) >= 1
    BY <2>1
  <2>3. queued_reliables[1].id = Sent + 1 - 1 /\ Len(queued_reliables) < MAX_RELIABLE_WINDOW_SIZE
    BY <2>2 DEF SInv, QueueInOrder
  <2>4. p \in Packet /\ p \in Queued
    BY <2>1, <2>2 DEF Queued
  <2> HIDE DEF p
  <2> QED BY <2>1, <2>2, <2>3, <2>4
<1> HIDE DEF p
<1>2. p.seq \in Seqnums /\ p.id \in Nat
  BY <1>1, Types
<1>3. Distance(next_outgoing, p.seq) = Len(queued_reliables)
  BY <1>1, <1>2, Types DEF IInv, InFlight, Behind, Sent
<1>4. SendWindowStart(next_outgoing) \in Seqnums
  BY <1>1, <1>2, <1>3, WindowStart, Types
<1>5. Distance(p.seq, SendWindowStart(next_outgoing))
        = MAX_RELIABLE_WINDOW_SIZE - Len(queued_reliables)
  BY <1>1, <1>2, <1>3, WindowStart, Types
<1>6. /\ MAX_RELIABLE_WINDOW_SIZE \in 1 .. SEQNUM_MAX
      /\ Distance(p.seq, SendWindowStart(next_outgoing)) < MAX_RELIABLE_WINDOW_SIZE
      /\ Distance(p.seq, SendWindowStart(next_outgoing)) # 0
  BY <1>1, <1>5, Types DEF SEQNUM_MAX
<1>7. Buffers(p, next_outgoing)
  BY <1>2, <1>4, <1>6, InWindowCorrect, DistanceZero
     DEF Buffers, InWindowIsDistance
<1> QED BY <1>1, <1>7 DEF p

LEMMA SendStep ==
  ASSUME IInv, SInv, TypeOK', SendQueued
  PROVE  SInv'
<1> USE DEF senderVars, receiverVars
<1> DEFINE p == Head(queued_reliables)
<1>1. queued_reliables # <<>> /\ UNCHANGED <<peer, taken, acks, receiverVars>>
      /\ at # "resend" /\ queued_reliables' = Tail(queued_reliables)
  BY DEF SendQueued, CanSendQueued
<1>2. p \in Packet /\ p.id = Sent /\ Buffers(p, next_outgoing)
  BY <1>1, HeadIsBuffered
<1>3. outgoing' = outgoing \cup {p} /\ net' \subseteq net \cup {p}
  BY <1>2, TransmitCases DEF SendQueued, SendAsPacketReliable
<1>4. /\ Len(queued_reliables') = Len(queued_reliables) - 1
      /\ Len(queued_reliables) > 0
      /\ Sent' = Sent + 1
      /\ \A i \in 1 .. Len(queued_reliables) - 1 :
           queued_reliables'[i] = queued_reliables[i + 1]
      /\ DOMAIN queued_reliables' = 1 .. Len(queued_reliables) - 1
  BY <1>1, HeadTailProperties, Types DEF Sent
<1> HIDE DEF p
<1>5. QueueInOrder'
  <2>1. ASSUME NEW i \in 1 .. Len(queued_reliables) - 1
        PROVE  queued_reliables'[i].id = Sent + 1 + i - 1
    <3>1. i + 1 \in DOMAIN queued_reliables
      BY <2>1, Types
    <3>2. queued_reliables[i + 1].id = Sent + (i + 1) - 1
      BY <3>1 DEF SInv, QueueInOrder
    <3>3. queued_reliables'[i].id = Sent + (i + 1) - 1
      BY <1>4, <2>1, <3>2
    <3>4. Sent \in Int /\ i \in Int
      BY <2>1, Types
    <3> QED BY <3>3, <3>4
  <2>2. /\ Len(queued_reliables) <= taken
        /\ Len(queued_reliables) < MAX_RELIABLE_WINDOW_SIZE
    BY DEF SInv, QueueInOrder
  <2>3. /\ Len(queued_reliables') <= taken'
        /\ Len(queued_reliables') < MAX_RELIABLE_WINDOW_SIZE
    BY <1>1, <1>4, <2>2, Types
  <2>4. \A i \in DOMAIN queued_reliables' : queued_reliables'[i].id = Sent' + i - 1
    BY <1>4, <2>1
  <2> QED BY <2>3, <2>4 DEF QueueInOrder
<1>6. SentOnly'
  <2>1. Len(delivered) <= Sent
        /\ \A q \in outgoing \cup net \cup acks \cup incoming : q.id < Sent /\ q.id \in Nat
    BY Types DEF SInv, SentOnly
  <2> QED BY <1>1, <1>2, <1>3, <1>4, <2>1, Types DEF SentOnly
<1>7. Held'
  <2>1. ASSUME peer # "deleted", NEW i \in Len(delivered) .. Sent
        PROVE  Holds(outgoing' \cup incoming, i)
    <3>1. CASE i = Sent
      BY <1>2, <1>3, <3>1 DEF Holds
    <3>2. CASE i # Sent
      <4>1. i \in Len(delivered) .. Sent - 1
        BY <3>2, Types
      <4> QED BY <1>3, <2>1, <4>1 DEF SInv, Held, Holds
    <3> QED BY <3>1, <3>2
  <2>2. Sent' - 1 = Sent
    BY <1>4, Types
  <2> QED BY <1>1, <2>1, <2>2 DEF Held
<1>8. Near'
  BY <1>1, <1>2, <1>3, Types DEF SInv, Near, Sent, QueueInOrder
<1>9. AcksReceived' /\ GapsNear' /\ GapSoon'
  BY <1>1 DEF SInv, AcksReceived, GapsNear, GapSoon
<1>10. peer' # "deleted"
  BY <1>1 DEF SInv
<1> QED BY <1>5, <1>6, <1>7, <1>8, <1>9, <1>10 DEF SInv

-----------------------------------------------------------------------------
(* The other steps.                                                        *)

(* Steps that only repeat or drop datagrams.                               *)
LEMMA QuietStep ==
  ASSUME IInv, SInv, UNCHANGED <<peer, queued_reliables, taken, outgoing,
                                 incoming, delivered>>,
         net' \subseteq net \cup outgoing, acks' \subseteq acks,
         peer = "deleted" => at' = "resend"
  PROVE  SInv'
<1>1. Sent' = Sent
  BY DEF Sent
<1>2. QueueInOrder' /\ SentOnly'
  BY <1>1 DEF SInv, QueueInOrder, SentOnly
<1>3. Held' /\ Near' /\ AcksReceived'
  BY <1>1 DEF SInv, Held, Near, AcksReceived, Holds
<1>4. GapsNear' /\ GapSoon'
  BY DEF SInv, GapsNear, GapSoon, Holds
<1> QED BY <1>2, <1>3, <1>4 DEF SInv

(* Connection::deletePeer().                                               *)
LEMMA DeleteStep ==
  ASSUME IInv, SInv, DeletePeer, at' = "resend",
         UNCHANGED <<taken, net, acks, receiverVars>>
  PROVE  SInv'
<1> USE DEF receiverVars
<1>1. /\ peer' = "deleted" /\ outgoing' = {} /\ queued_reliables' = <<>>
      /\ Len(queued_reliables') = 0 /\ DOMAIN queued_reliables' = {}
      /\ Sent' = taken - 0 /\ taken - 0 = taken /\ Sent <= taken
      /\ 0 < MAX_RELIABLE_WINDOW_SIZE /\ 0 <= taken
  BY Types DEF DeletePeer, Sent
<1>2. QueueInOrder' /\ Held' /\ Near'
  BY <1>1 DEF QueueInOrder, Held, Near
<1>3. SentOnly'
  <2>1. Len(delivered) <= Sent
        /\ \A p \in net \cup acks \cup incoming : p.id < Sent /\ p.id \in Nat
    BY Types DEF SInv, SentOnly
  <2> QED BY <1>1, <2>1, Types DEF SentOnly
<1>4. AcksReceived' /\ GapsNear' /\ GapSoon'
  BY DEF SInv, AcksReceived, GapsNear, GapSoon, Holds
<1> QED BY <1>1, <1>2, <1>3, <1>4 DEF SInv

(* An ack takes the packet it is about, and no other.                      *)
LEMMA AckTakesItsOwn ==
  ASSUME IInv, SInv, NEW a \in acks, Fresh(a), NEW p \in outgoing,
         p.seq = a.seq
  PROVE  p = a
<1>1. /\ a \in Packet /\ p \in Packet /\ a.id \in Nat /\ p.id \in Nat
      /\ a.id < taken /\ p.id < taken /\ taken \in Nat
      /\ taken - a.id < Modulus /\ taken - p.id < Modulus
  <2>1. a \in Packet /\ p \in Packet /\ a.id \in Nat /\ p.id \in Nat /\ taken \in Nat
    BY Types
  <2>2. a.id < taken /\ p.id < taken
    BY DEF IInv, InFlight, Behind
  <2>3. taken - a.id <= MaxAge /\ taken - p.id <= MAX_RELIABLE_WINDOW_SIZE
    BY DEF Fresh, SInv, Near
  <2>4. /\ MAX_RELIABLE_WINDOW_SIZE \in Nat \ {0} /\ MaxAge \in Nat
        /\ Modulus = 2 * MAX_RELIABLE_WINDOW_SIZE /\ MaxAge <= MAX_RELIABLE_WINDOW_SIZE
    BY Types
  <2> QED BY <2>1, <2>2, <2>3, <2>4
<1>2. taken - a.id = taken - p.id
  BY <1>1 DEF IInv, InFlight, Behind
<1>3. a.id = p.id
  BY <1>1, <1>2
<1> QED BY <1>1, <1>3 DEF Packet

LEMMA AckStep ==
  ASSUME IInv, SInv, NEW a \in acks, ReceiveAck(a)
  PROVE  SInv'
<1> USE DEF senderVars, receiverVars
<1>1. /\ Fresh(a) /\ acks' \subseteq acks
      /\ outgoing' = {p \in outgoing : p.seq # a.seq}
      /\ UNCHANGED <<at, peer, queued_reliables, taken, net, incoming, delivered>>
  BY TakeOffCases DEF ReceiveAck
<1>2. Sent' = Sent
  BY <1>1 DEF Sent
<1>3. QueueInOrder' /\ SentOnly' /\ Near' /\ AcksReceived'
  BY <1>1, <1>2 DEF SInv, QueueInOrder, SentOnly, Near, AcksReceived
<1>4. Held'
  <2>1. ASSUME peer # "deleted", NEW i \in Len(delivered) .. Sent - 1
        PROVE  Holds(outgoing' \cup incoming, i)
    <3>1. PICK p \in outgoing \cup incoming : p.id = i
      BY <2>1 DEF SInv, Held, Holds
    <3>2. CASE p \in outgoing /\ p.seq = a.seq
      <4>1. p = a
        BY <1>1, <3>2, AckTakesItsOwn
      <4>2. ~(a.id < Len(delivered))
        BY <3>1, <4>1, Types
      <4>3. a \in incoming
        BY <4>2 DEF SInv, AcksReceived
      <4> QED BY <3>1, <4>1, <4>3 DEF Holds
    <3>3. CASE ~(p \in outgoing /\ p.seq = a.seq)
      BY <1>1, <3>1, <3>3 DEF Holds
    <3> QED BY <3>2, <3>3
  <2> QED BY <1>1, <1>2, <2>1 DEF Held
<1>5. GapsNear' /\ GapSoon'
  BY <1>1 DEF SInv, GapsNear, GapSoon, Holds
<1> QED BY <1>1, <1>3, <1>4, <1>5 DEF SInv

(* Delivering a packet, buffered before or received just now.              *)
LEMMA DeliverKeeps ==
  ASSUME IInv, SInv, NEW p \in Packet, p.id = Len(delivered), p.id < Sent,
         delivered' = Append(delivered, p.id),
         incoming' = {q \in incoming : q.id # p.id},
         acks' \subseteq acks \cup {p}, net' \subseteq net,
         UNCHANGED <<senderVars, outgoing>>,
         \E i \in Len(delivered) + 1 ..
                  Len(delivered) + MAX_RELIABLE_WINDOW_SIZE :
           i <= taken /\ ~Holds(incoming, i)
  PROVE  SInv'
<1> USE DEF senderVars
<1>1. /\ Len(delivered') = Len(delivered) + 1 /\ Len(delivered) \in Nat
      /\ Sent \in Int /\ taken \in Nat /\ p.id \in Nat
      /\ MAX_RELIABLE_WINDOW_SIZE \in Nat
      /\ \A q \in incoming \cup acks : q.id \in Nat
  BY Types
<1>2. Sent' = Sent
  BY DEF Sent
<1>3. QueueInOrder' /\ Near'
  BY <1>2 DEF SInv, QueueInOrder, Near
<1>4. SentOnly'
  BY <1>1, <1>2 DEF SInv, SentOnly
<1>5. \A s, i : i \in Len(delivered') .. s => i \in Len(delivered) .. s /\ i # p.id
  BY <1>1
<1>6. \A i : Holds(incoming, i) /\ i # p.id => Holds(incoming', i)
  BY DEF Holds
<1>7. Held'
  <2>1. ASSUME peer # "deleted", NEW i \in Len(delivered') .. Sent - 1
        PROVE  Holds(outgoing \cup incoming', i)
    <3>1. i \in Len(delivered) .. Sent - 1 /\ i # p.id
      BY <1>5
    <3>2. Holds(outgoing \cup incoming, i)
      BY <2>1, <3>1 DEF SInv, Held
    <3> QED BY <3>1, <3>2 DEF Holds
  <2> QED BY <1>2, <2>1 DEF Held
<1>8. AcksReceived'
  <2>1. ASSUME NEW a \in acks' PROVE a.id < Len(delivered') \/ a \in incoming'
    <3>1. CASE a = p
      BY <1>1, <3>1
    <3>2. CASE a \in acks /\ a.id < Len(delivered)
      BY <1>1, <3>2
    <3>3. CASE a \in acks /\ a \in incoming
      BY <1>1, <3>3
    <3> QED BY <3>1, <3>2, <3>3 DEF SInv, AcksReceived
  <2> QED BY <2>1 DEF AcksReceived
<1>9. GapsNear'
  <2>1. ASSUME NEW i \in Len(delivered') .. taken - 1
        PROVE  Holds(incoming', i) \/ taken - i <= MAX_RELIABLE_WINDOW_SIZE
    <3>1. i \in Len(delivered) .. taken - 1 /\ i # p.id
      BY <1>5
    <3> QED BY <1>6, <3>1 DEF SInv, GapsNear
  <2> QED BY <2>1 DEF GapsNear
<1>10. GapSoon'
  <2>1. PICK i \in Len(delivered) + 1 .. Len(delivered) + MAX_RELIABLE_WINDOW_SIZE :
          i <= taken /\ ~Holds(incoming, i)
    OBVIOUS
  <2>2. ~Holds(incoming', i)
    BY <2>1 DEF Holds
  <2>3. i \in Len(delivered') .. Len(delivered') + MAX_RELIABLE_WINDOW_SIZE - 1
    BY <1>1
  <2> QED BY <2>1, <2>2, <2>3 DEF GapSoon
<1> QED BY <1>3, <1>4, <1>7, <1>8, <1>9, <1>10 DEF SInv

LEMMA DrainStep ==
  ASSUME IInv, SInv, NEW p \in incoming, Drain(p)
  PROVE  SInv'
<1>1. /\ delivered' = Append(delivered, p.id) /\ incoming' = incoming \ {p}
      /\ p.seq = next_incoming
      /\ acks' = acks /\ net' = net /\ UNCHANGED <<senderVars, outgoing>>
  BY DEF Drain
<1>2. p \in Packet /\ p.id = Len(delivered) /\ p.id < Sent
  BY <1>1, AheadIsDue, Types DEF SInv, SentOnly
<1>3. incoming' = {q \in incoming : q.id # p.id}
  BY <1>1, BufferedApart
<1>4. PICK i \in Len(delivered) .. Len(delivered) + MAX_RELIABLE_WINDOW_SIZE - 1 :
        i <= taken /\ ~Holds(incoming, i)
  BY DEF SInv, GapSoon
<1>5. i # Len(delivered)
  BY <1>2, <1>4 DEF Holds
<1>6. i \in Len(delivered) + 1 .. Len(delivered) + MAX_RELIABLE_WINDOW_SIZE
  BY <1>4, <1>5, Types
<1> QED BY <1>1, <1>2, <1>3, <1>4, <1>6, DeliverKeeps

LEMMA ReceiveStep ==
  ASSUME IInv, SInv, SpanOK, NEW p \in net, ReceiveReliable(p)
  PROVE  SInv'
<1>1. /\ Fresh(p) /\ ~CanDrain /\ net' \subseteq net
      /\ UNCHANGED <<senderVars, outgoing>>
  BY TakeOffCases DEF ReceiveReliable
<1>2. acks' \subseteq acks \cup {p}
  BY TransmitCases DEF ReceiveReliable
<1>3. p \in Packet /\ p.id \in Nat /\ p.id < Sent
      /\ Len(delivered) \in Nat /\ taken \in Nat /\ Sent <= taken
  BY Types DEF SInv, SentOnly, Sent
<1>4. ~Holds(incoming, Len(delivered))
  BY <1>1, AheadIsDue DEF CanDrain, Holds
<1>5. /\ InReceiveWindow(p) <=> p.id >= Len(delivered)
      /\ InReceiveWindow(p) => (p.seq = next_incoming <=> p.id = Len(delivered))
  <2>1. /\ InReceiveWindow(p) <=> p.id >= Len(delivered)
        /\ p.id >= Len(delivered) =>
             Distance(p.seq, next_incoming) = p.id - Len(delivered)
    BY <1>1, ReceiverSees
  <2>2. p.seq \in Seqnums /\ next_incoming \in Seqnums
    BY <1>3, Types
  <2> QED BY <1>3, <2>1, <2>2, DistanceZero
<1>6. Sent' = Sent /\ UNCHANGED <<at, peer, queued_reliables, taken, outgoing>>
  BY <1>1 DEF Sent, senderVars
<1>7. CASE DeliverNow(p)
  <2>1. p.id = Len(delivered) /\ delivered' = Append(delivered, p.id)
        /\ incoming' = {q \in incoming : q.seq # p.seq}
        /\ p.seq = next_incoming
    BY <1>5, <1>7 DEF DeliverNow
  <2>2. incoming' = {q \in incoming : q.id # p.id}
    BY <2>1, AheadIsDue
  <2>3. taken - Len(delivered) <= MAX_RELIABLE_WINDOW_SIZE
    BY <1>1 DEF SpanOK
  <2>4. taken \in Len(delivered) + 1 .. Len(delivered) + MAX_RELIABLE_WINDOW_SIZE
    BY <1>3, <2>1, <2>3, Types
  <2>5. ~Holds(incoming, taken)
    <3>1. \A q \in incoming : q.id \in Nat /\ q.id < Sent
      BY Types DEF SInv, SentOnly
    <3> QED BY <1>3, <3>1, Types DEF Holds
  <2>6. taken <= taken
    BY <1>3
  <2> QED BY <1>1, <1>2, <1>3, <2>1, <2>2, <2>4, <2>5, <2>6, DeliverKeeps
<1>8. CASE Ignore(p) \/ BufferAhead(p)
  <2>1. /\ delivered' = delivered
        /\ incoming \subseteq incoming' /\ incoming' \subseteq incoming \cup {p}
    BY <1>8 DEF Ignore, BufferAhead, receiverVars
  <2>2. ~Holds(incoming', Len(delivered))
    <3>1. CASE Ignore(p)
      BY <1>4, <3>1 DEF Ignore, receiverVars
    <3>2. CASE BufferAhead(p)
      <4>1. p.id # Len(delivered)
        BY <1>5, <3>2 DEF BufferAhead
      <4> QED BY <1>4, <2>1, <4>1 DEF Holds
    <3> QED BY <1>8, <3>1, <3>2
  <2>3. p.id < Len(delivered) \/ p \in incoming'
    <3>1. CASE Ignore(p)
      BY <1>3, <1>5, <3>1 DEF Ignore
    <3>2. CASE BufferAhead(p) /\ ~\E q \in incoming : q.seq = p.seq
      BY <3>2 DEF BufferAhead
    <3>3. CASE \E q \in incoming : q.seq = p.seq
      BY <1>1, <2>1, <3>3, NoCorruptionHolds DEF NoCorruption
    <3> QED BY <1>8, <3>1, <3>2, <3>3
  <2>4. QueueInOrder' /\ SentOnly' /\ Near'
    BY <1>2, <1>3, <1>1, <1>6, <2>1 DEF SInv, QueueInOrder, SentOnly, Near
  <2>5. Held'
    BY <1>6, <2>1 DEF SInv, Held, Holds
  <2>6. AcksReceived'
    BY <1>2, <2>1, <2>3 DEF SInv, AcksReceived
  <2>7. GapsNear'
    BY <1>6, <2>1 DEF SInv, GapsNear, Holds
  <2>8. GapSoon'
    <3>1. Len(delivered) \in
            Len(delivered) .. Len(delivered) + MAX_RELIABLE_WINDOW_SIZE - 1
      BY Types
    <3>2. Len(delivered) <= taken
      BY <1>3, Types DEF SInv, SentOnly
    <3> QED BY <1>6, <2>1, <2>2, <3>1, <3>2 DEF GapSoon
  <2> QED BY <1>6, <2>4, <2>5, <2>6, <2>7, <2>8 DEF SInv
<1> QED BY <1>7, <1>8 DEF ReceiveReliable

-----------------------------------------------------------------------------
(* Everything together.                                                    *)

LEMMA SInit == Init => SInv
<1> SUFFICES ASSUME Init PROVE SInv
  OBVIOUS
<1>1. /\ Len(queued_reliables) = 0 /\ DOMAIN queued_reliables = {}
      /\ Len(delivered) = 0 /\ taken = 0 /\ Sent = 0 /\ peer = "open"
      /\ outgoing = {} /\ net = {} /\ acks = {} /\ incoming = {}
  <2>1. queued_reliables = <<>> /\ delivered = <<>>
    BY DEF Init
  <2>2. Len(<<>>) = 0 /\ DOMAIN <<>> = {}
    OBVIOUS
  <2>3. taken = 0 /\ Len(queued_reliables) = 0
    BY <2>1, <2>2 DEF Init
  <2>4. Sent = 0
    BY <2>3 DEF Sent
  <2> QED BY <2>1, <2>2, <2>3, <2>4 DEF Init
<1>2. 0 \in 0 .. 0 + MAX_RELIABLE_WINDOW_SIZE - 1 /\ 0 < MAX_RELIABLE_WINDOW_SIZE
  BY WindowAssumption
<1>3. GapSoon
  BY <1>1, <1>2 DEF GapSoon, Holds
<1> QED BY <1>1, <1>2, <1>3
        DEF SInv, QueueInOrder, SentOnly, Held, Near, AcksReceived, GapsNear

(* The window is never larger than the sender's limit.                     *)
LEMMA WindowType ==
  ASSUME TypeOK
  PROVE  /\ window \in Nat /\ MAX_RELIABLE_WINDOW_SIZE_SEND \in Nat
         /\ window <= MAX_RELIABLE_WINDOW_SIZE_SEND
<1>1. /\ MIN_RELIABLE_WINDOW_SIZE \in Nat
      /\ MAX_RELIABLE_WINDOW_SIZE_SEND \in Nat
  BY ChannelAssumption
<1>2. window \in MIN_RELIABLE_WINDOW_SIZE .. MAX_RELIABLE_WINDOW_SIZE_SEND
  BY DEF TypeOK, Windows
<1> QED BY <1>1, <1>2

LEMMA Halves ==
  ASSUME NEW a \in Nat, NEW b \in Nat, a <= b
  PROVE  a \div 2 <= b \div 2
OBVIOUS

LEMMA SStep ==
  IInv /\ SInv /\ TypeOK' /\ SpanOK /\ WideEnough /\ [Next]_vars => SInv'
<1> SUFFICES ASSUME IInv, SInv, TypeOK', SpanOK, WideEnough, [Next]_vars
             PROVE  SInv'
  OBVIOUS
<1> USE DEF senderVars, receiverVars
<1>1. CASE TimeoutPeer
  BY <1>1, DeleteStep DEF TimeoutPeer
<1>2. CASE UpdateTimers
  BY <1>2, QuietStep DEF UpdateTimers
<1>3. CASE Ping
  BY <1>3 DEF Ping, WideEnough
<1>4. CASE RunCommandQueues
  <2>1. peer # "deleted" /\ UNCHANGED <<peer, outgoing, net, acks, receiverVars>>
    BY <1>4 DEF RunCommandQueues, SInv
  <2>2. CASE /\ queued_commands # <<>>
             /\ Len(queued_reliables) < MaxPacketsRequeued
             /\ HasRoomFor(Head(queued_commands))
             /\ Enqueue(Head(queued_commands))
    <3>1. Head(queued_commands) \in CommandSizes
      <4>1. queued_commands \in Seq(CommandSizes)
        BY DEF IInv, TypeOK
      <4> QED BY <2>2, <4>1, HeadTailProperties
    <3>2. Len(queued_reliables) + Head(queued_commands) < MAX_RELIABLE_WINDOW_SIZE
      <4>1. MaxPacketsRequeued + Head(queued_commands) <= MAX_RELIABLE_WINDOW_SIZE
        BY <3>1 DEF WideEnough
      <4>2. MaxPacketsRequeued \in Nat /\ Head(queued_commands) \in Nat
        <5>1. MAX_RELIABLE_WINDOW_SIZE \in Nat
          BY WindowAssumption
        <5>2. Head(queued_commands) \in 1 .. MAX_RELIABLE_WINDOW_SIZE - 1
          BY <3>1, ChannelAssumption
        <5>3. MaxPacketsRequeued \in Nat
          BY ChannelAssumption
        <5> HIDE DEF WideEnough
        <5> QED BY <5>1, <5>2, <5>3
      <4>3. Len(queued_reliables) < MaxPacketsRequeued
        BY <2>2
      <4>4. MAX_RELIABLE_WINDOW_SIZE \in Nat /\ Len(queued_reliables) \in Nat
        BY WindowAssumption, Types
      <4> QED BY <4>1, <4>2, <4>3, <4>4
    <3> QED BY <2>1, <2>2, <3>1, <3>2, EnqueueStep
  <2>3. CASE UNCHANGED <<queued_reliables, next_outgoing, taken>>
    BY <2>1, <2>3, QuietStep
  <2> QED BY <1>4, <2>2, <2>3 DEF RunCommandQueues
<1>5. ASSUME NEW p \in outgoing, Resend(p) PROVE SInv'
  BY <1>5, TransmitCases, QuietStep DEF Resend
<1>6. CASE DisconnectPeer
  <2>1. /\ peer # "deleted" /\ peer' # "deleted" /\ Sent' = Sent
        /\ UNCHANGED <<queued_reliables, taken, outgoing, net, acks, receiverVars>>
    BY <1>6 DEF DisconnectPeer, Sent
  <2> QED BY <2>1 DEF SInv, QueueInOrder, SentOnly, Held, Near, AcksReceived,
                      GapsNear, GapSoon, Holds
<1>7. ASSUME NEW n \in CommandSizes, SendCommand(n) PROVE SInv'
  <2>1. peer # "deleted" /\ UNCHANGED <<at, peer, outgoing, net, acks, receiverVars>>
    BY <1>7 DEF SendCommand
  <2>2. CASE /\ Len(queued_reliables) + 1 < window \div 2
             /\ HasRoomFor(n) /\ Enqueue(n)
    <3>1. /\ window \in Nat /\ window <= MAX_RELIABLE_WINDOW_SIZE_SEND
          /\ MAX_RELIABLE_WINDOW_SIZE_SEND \in Nat /\ n \in Nat
      <4>1. n \in 1 .. MAX_RELIABLE_WINDOW_SIZE - 1
        BY ChannelAssumption
      <4>2. TypeOK /\ MAX_RELIABLE_WINDOW_SIZE \in Nat
        BY Types
      <4> QED BY <4>1, <4>2, WindowType
    <3>2. window \div 2 <= MAX_RELIABLE_WINDOW_SIZE_SEND \div 2
      BY <3>1, Halves
    <3>3. MAX_RELIABLE_WINDOW_SIZE_SEND \div 2 + n <= MAX_RELIABLE_WINDOW_SIZE + 1
      BY DEF WideEnough
    <3>4. Len(queued_reliables) + n < MAX_RELIABLE_WINDOW_SIZE
      <4>1. /\ Len(queued_reliables) \in Nat /\ MAX_RELIABLE_WINDOW_SIZE \in Nat
            /\ window \div 2 \in Int /\ MAX_RELIABLE_WINDOW_SIZE_SEND \div 2 \in Int
        BY <3>1, Types
      <4> QED BY <2>2, <3>1, <3>2, <3>3, <4>1
    <3> QED BY <2>1, <2>2, <3>4, EnqueueStep
  <2>3. CASE UNCHANGED <<queued_reliables, next_outgoing, taken>>
    BY <2>1, <2>3, QuietStep
  <2> QED BY <1>7, <2>2, <2>3 DEF SendCommand
<1>8. CASE SendQueued
  BY <1>8, SendStep
<1>9. CASE FinishPackets
  <2>1. CASE UNCHANGED <<peer, outgoing, queued_commands, queued_reliables>>
    BY <1>9, <2>1, QuietStep DEF FinishPackets
  <2>2. CASE DeletePeer
    BY <1>9, <2>2, DeleteStep DEF FinishPackets
  <2> QED BY <1>9, <2>1, <2>2 DEF FinishPackets
<1>10. ASSUME NEW a \in acks, ReceiveAck(a) PROVE SInv'
  BY <1>10, AckStep
<1>11. ASSUME NEW p \in incoming, Drain(p) PROVE SInv'
  BY <1>11, DrainStep
<1>12. ASSUME NEW p \in net, ReceiveReliable(p) PROVE SInv'
  BY <1>12, ReceiveStep
<1>13. CASE Expire
  <2>1. net' \subseteq net /\ acks' \subseteq acks
        /\ UNCHANGED <<senderVars, outgoing, receiverVars>>
    BY <1>13 DEF Expire
  <2> QED BY <2>1, QuietStep DEF SInv
<1>14. CASE UNCHANGED vars
  <2>1. UNCHANGED <<senderVars, outgoing, net, acks, receiverVars>>
    BY <1>14 DEF vars
  <2> QED BY <2>1, QuietStep DEF SInv
<1> QED BY <1>1, <1>2, <1>3, <1>4, <1>5, <1>6, <1>7, <1>8, <1>9, <1>10,
           <1>11, <1>12, <1>13, <1>14
        DEF Next, Timeouts, Commands, Packets, Receive

(* The limits of the code keep the circle wide enough.                     *)
LEMMA JInvCorrect == ASSUME WideEnough PROVE Spec => []JInv
<1>1. Init => JInv
  BY InvInit, SInit DEF JInv
<1>2. JInv /\ TypeOK' /\ [Next]_vars => SInv'
  BY SStep, JInvSpan DEF JInv
<1>3. TypeOK /\ SInv => WithinLap
  BY GapsKeepLap DEF TypeOK, SInv
<1>4. JInv /\ TypeOK' /\ WithinLap' /\ [Next]_vars => IInv'
  BY InvStep, JInvSpan DEF JInv
<1>5. IInv /\ SInv <=> JInv
  BY DEF JInv
<1> QED BY <1>1, <1>2, <1>3, <1>4, <1>5, TypeCorrect, PTL DEF Spec

(* All packets from the first the receiver lacks to the newest fit in half *)
(* of the circle of sequence numbers.                                      *)
THEOREM SpanCorrect == ASSUME WideEnough PROVE Spec => []SpanOK
BY JInvCorrect, JInvSpan, PTL

(* internal.h: "they shall be delivered in the same order as sent".        *)
THEOREM WideOrderCorrect == ASSUME WideEnough PROVE Spec => []InOrder
BY SpanCorrect, OrderCorrect, PTL

(* No correct sender is disconnected for corrupt data.                     *)
THEOREM WideNoCorruption == ASSUME WideEnough PROVE Spec => []NoCorruption
BY SpanCorrect, NoCorruptionCorrect, PTL

(* Within the code's limits the channel is a reliable FIFO queue.          *)
THEOREM WideFifoCorrect == ASSUME WideEnough PROVE Spec => FifoSpec
BY SpanCorrect, FifoCorrect, PTL

(* Until the receiver has a packet the sender can still produce it.        *)
LEMMA HeldProduces == JInv => Retransmittable
<1> SUFFICES ASSUME IInv, SInv, peer # "deleted",
                    NEW i \in 0 .. taken - 1, ~(i < Len(delivered))
             PROVE  \E p \in Queued \cup outgoing \cup incoming : p.id = i
  BY DEF JInv, Retransmittable
<1>1. /\ i \in Nat /\ i < taken /\ i >= Len(delivered)
      /\ queued_reliables \in Seq(Packet)
      /\ Len(queued_reliables) \in Nat /\ taken \in Nat /\ Sent \in Int
      /\ Sent = taken - Len(queued_reliables) /\ Len(delivered) \in Nat
  BY Types DEF Sent
<1>2. CASE i < Sent
  <2>1. i \in Len(delivered) .. Sent - 1
    BY <1>1, <1>2
  <2> QED BY <2>1 DEF SInv, Held, Holds
<1>3. CASE i >= Sent
  <2> DEFINE k == i - Sent + 1
  <2>1. k \in 1 .. Len(queued_reliables) /\ Sent + k - 1 = i
    BY <1>1, <1>3
  <2>2. k \in DOMAIN queued_reliables
    BY <1>1, <2>1
  <2> HIDE DEF k
  <2>3. queued_reliables[k].id = i
    BY <2>1, <2>2 DEF SInv, QueueInOrder
  <2> QED BY <2>2, <2>3 DEF Queued
<1> QED BY <1>1, <1>2, <1>3

(* internal.h, Channel: the sent packets are buffered "so that the sender  *)
(* can re-send them if no ACK is received".                                *)
THEOREM RetransmitCorrect == ASSUME WideEnough PROVE Spec => []Retransmittable
BY JInvCorrect, HeldProduces, PTL

(* An ack removes from the sender's buffer only packets the receiver has.  *)
LEMMA AckRemovesReceived ==
  JInv /\ [Next]_vars =>
    [\A p \in outgoing : p \notin outgoing' /\ peer' # "deleted" =>
       p.id < Len(delivered) \/ p \in incoming]_vars
<1> SUFFICES ASSUME IInv, SInv, Next,
                    NEW p \in outgoing, p \notin outgoing', peer' # "deleted"
             PROVE  p.id < Len(delivered) \/ p \in incoming
  BY DEF JInv
<1>1. ASSUME NEW a \in acks, ReceiveAck(a)
      PROVE  p.id < Len(delivered) \/ p \in incoming
  <2>1. p.seq = a.seq /\ Fresh(a)
    BY <1>1 DEF ReceiveAck
  <2>2. p = a
    BY <1>1, <2>1, AckTakesItsOwn
  <2> QED BY <1>1, <2>2 DEF SInv, AcksReceived
<1>2. CASE \/ TimeoutPeer \/ UpdateTimers \/ Ping \/ RunCommandQueues
           \/ (\E q \in outgoing : Resend(q)) \/ Commands \/ Packets \/ Expire
           \/ (\E q \in incoming : Drain(q))
           \/ (\E q \in net : ReceiveReliable(q))
  BY <1>2 DEF TimeoutPeer, UpdateTimers, Ping, RunCommandQueues, Resend,
       Commands, DisconnectPeer, SendCommand, Packets, SendQueued,
       FinishPackets, DeletePeer, SendAsPacketReliable, Expire, Drain,
       ReceiveReliable
<1> QED BY <1>1, <1>2 DEF Next, Timeouts, Receive, Packets

(* handlePacketType_Control: popSeqnum() of an ack's number takes only a    *)
(* packet that was received out of the sender's buffer.                    *)
THEOREM AckCorrect == ASSUME WideEnough PROVE Spec => AckedIsReceived
BY JInvCorrect, AckRemovesReceived, PTL DEF Spec, AckedIsReceived

(* The two invariants behind these, which the runs check as well: numbers  *)
(* and turns agree (getOutgoingSequenceNumber, incSeqNum), and ...         *)
THEOREM InvariantCorrect == ASSUME WideEnough PROVE Spec => []IInv
<1>1. JInv => IInv
  BY DEF JInv
<1> QED BY <1>1, JInvCorrect, PTL

(* ... whatever the receiver lacks the sender still has (sendPackets,      *)
(* ReliablePacketBuffer::insert).                                          *)
THEOREM SenderInvariantCorrect == ASSUME WideEnough PROVE Spec => []SInv
<1>1. JInv => SInv
  BY DEF JInv
<1> QED BY <1>1, JInvCorrect, PTL
=============================================================================
