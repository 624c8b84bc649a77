------------------------- MODULE MtpReliableBuffer -------------------------
(***************************************************************************)
(* ReliablePacketBuffer (src/network/mtp/impl.cpp): the std::list of       *)
(* packets kept in order around the circle of sequence numbers, for the    *)
(* receiver (base is next_incoming_seqnum) and for the sender (base is the *)
(* half circle's start, SendWindowStart(next_outgoing_seqnum)).  A packet  *)
(* is its sequence number.  MtpChannel treats the buffer as a set; this    *)
(* module is why it may.                                                   *)
(***************************************************************************)
EXTENDS MtpSeqnum, SequencesExt

CONSTANT NoSeqnum   \* getFirstSeqnum() of an empty buffer

ASSUME NoSeqnumAssumption == NoSeqnum \notin Seqnums

VARIABLES m_list, base

bufferVars == <<m_list, base>>

BufferInit == m_list = <<>> /\ base \in Seqnums

-----------------------------------------------------------------------------
(* insert()                                                                *)

(* Mutant: the first of the window is taken as well.                       *)
AcceptsFirst(seqnum, next_expected) ==
  SeqnumInWindow(seqnum, next_expected, MAX_RELIABLE_WINDOW_SIZE)

Accepts(seqnum, next_expected) ==
  /\ SeqnumInWindow(seqnum, next_expected, MAX_RELIABLE_WINDOW_SIZE)
  /\ seqnum # next_expected

(* The loop that looks for the place of seqnum walks past s.               *)
Before(s, seqnum, next_expected) ==
  IF seqnum < next_expected
  THEN s < seqnum \/ s >= next_expected
  ELSE s < seqnum /\ s >= next_expected

(* Where the loop stops: the first packet it does not walk past.           *)
Place(list, seqnum, next_expected) ==
  CHOOSE i \in 1 .. Len(list) + 1 :
    /\ \A j \in 1 .. i - 1 : Before(list[j], seqnum, next_expected)
    /\ i <= Len(list) => ~Before(list[i], seqnum, next_expected)

Inserted(list, seqnum, next_expected) ==
  LET i == Place(list, seqnum, next_expected)
  IN IF i <= Len(list) /\ list[i] = seqnum THEN list
     ELSE InsertAt(list, i, seqnum)

Insert(seqnum) ==
  /\ m_list' = IF Accepts(seqnum, base) THEN Inserted(m_list, seqnum, base)
               ELSE m_list
  /\ UNCHANGED base

-----------------------------------------------------------------------------
getFirstSeqnum == IF m_list = <<>> THEN NoSeqnum ELSE Head(m_list)

(* checkIncomingBuffers(): popFirst() when it is the next one's turn.      *)
PopFirst ==
  /\ getFirstSeqnum = base
  /\ m_list' = Tail(m_list)
  /\ base' = Advance(base, 1)

(* handlePacketType_Reliable() of the packet whose turn it is: only the    *)
(* first of the list is compared with it.                                  *)
ReceiveNext ==
  /\ m_list' = IF getFirstSeqnum = base THEN Tail(m_list) ELSE m_list
  /\ base' = Advance(base, 1)

(* popSeqnum() of an ack.                                                  *)
PopSeqnum(i) ==
  /\ m_list' = RemoveAt(m_list, i)
  /\ UNCHANGED base

(* The sender takes a sequence number while all it has sent stays within   *)
(* the half circle (MtpChannelInvariants!Near).                            *)
TakeSeqnum ==
  /\ base \notin ToSet(m_list)
  /\ base' = Advance(base, 1)
  /\ UNCHANGED m_list

BufferNext ==
  \/ \E seqnum \in Seqnums : Insert(seqnum)
  \/ PopFirst \/ ReceiveNext \/ TakeSeqnum
  \/ \E i \in DOMAIN m_list : PopSeqnum(i)

BufferSpec == BufferInit /\ [][BufferNext]_bufferVars

-----------------------------------------------------------------------------
(* The buffer is the set of ReliableSet: it keeps what it accepts, exactly *)
(* once, and its first packet is always the nearest to base; so the packet *)
(* whose turn it is cannot hide behind another (the receiver would stop),  *)
(* and the window is measured from the oldest packet that is not acked.    *)
Set == INSTANCE ReliableSet WITH held <- ToSet(m_list), first <- getFirstSeqnum
SetSpec == Set!SetSpec
=============================================================================
