------------------------ MODULE MtpChannelInvariants ------------------------
(***************************************************************************)
(* The inductive invariants of MtpChannel: IInv keeps the order of         *)
(* delivery for as long as the circle of sequence numbers is wide enough,  *)
(* SInv keeps it wide enough on a channel without pings.                   *)
(***************************************************************************)
EXTENDS MtpChannel

-----------------------------------------------------------------------------
(* What makes InOrder inductive, as long as SpanOK holds: every number in  *)
(* use lies as far behind next_outgoing, and every buffered one as far     *)
(* ahead of next_incoming, as the packets themselves do.                   *)
InFlight == Queued \cup outgoing \cup net \cup acks

Behind(p) ==
  /\ p.id < taken
  /\ taken - p.id < Modulus => Distance(next_outgoing, p.seq) = taken - p.id

Ahead(q) ==
  /\ q.id \in Len(delivered) .. taken - 1
  /\ Distance(q.seq, next_incoming) = q.id - Len(delivered)

Aligned ==
  /\ Len(delivered) <= taken
  /\ Distance(next_outgoing, next_incoming) = taken - Len(delivered)

IInv ==
  /\ TypeOK
  /\ InOrder
  /\ Aligned
  /\ \A p \in InFlight : Behind(p)
  /\ \A q \in incoming : Ahead(q)

-----------------------------------------------------------------------------
(* What keeps SpanOK without pings: numbers are sent in the order taken,   *)
(* every one of them is still held by somebody until it is delivered, and  *)
(* an ack stands for a packet that was received.                           *)
Sent == taken - Len(queued_reliables)
Holds(s, i) == \E p \in s : p.id = i

QueueInOrder ==
  /\ Len(queued_reliables) <= taken
  /\ Len(queued_reliables) < MAX_RELIABLE_WINDOW_SIZE
  /\ \A i \in DOMAIN queued_reliables : queued_reliables[i].id = Sent + i - 1

SentOnly ==
  /\ Len(delivered) <= Sent
  /\ \A p \in outgoing \cup net \cup acks \cup incoming : p.id < Sent

Held == peer # "deleted" =>
          \A i \in Len(delivered) .. Sent - 1 : Holds(outgoing \cup incoming, i)

Near == \A p \in outgoing : taken - p.id <= MAX_RELIABLE_WINDOW_SIZE

AcksReceived == \A a \in acks : a.id < Len(delivered) \/ a \in incoming

(* A packet the receiver lacks is near, and it lacks one soon.             *)
GapsNear ==
  \A i \in Len(delivered) .. taken - 1 :
    Holds(incoming, i) \/ taken - i <= MAX_RELIABLE_WINDOW_SIZE

GapSoon ==
  \E i \in Len(delivered) .. Len(delivered) + MAX_RELIABLE_WINDOW_SIZE - 1 :
    i <= taken /\ ~Holds(incoming, i)

SInv ==
  /\ peer = "deleted" => at = "resend"
  /\ QueueInOrder /\ SentOnly /\ Held /\ Near
  /\ AcksReceived /\ GapsNear /\ GapSoon

JInv == IInv /\ SInv

(* The limits that make the circle wide enough for a channel without       *)
(* pings.  The code's: 2048 + 2 <= 0x8000, and commands of no more than    *)
(* 0x8000 - 1023 chunks, which nothing enforces.                           *)
WideEnough ==
  /\ ~HasPings
  /\ MAX_RELIABLE_WINDOW_SIZE_SEND + 2 <= MAX_RELIABLE_WINDOW_SIZE
  /\ \A n \in CommandSizes :
       /\ MaxPacketsRequeued + n <= MAX_RELIABLE_WINDOW_SIZE
       /\ MAX_RELIABLE_WINDOW_SIZE_SEND \div 2 + n
            <= MAX_RELIABLE_WINDOW_SIZE + 1
=============================================================================
